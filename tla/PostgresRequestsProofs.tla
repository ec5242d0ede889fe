------------------------ MODULE PostgresRequestsProofs ------------------------
(***************************************************************************)
(* Machine-checked proofs about the in-request service calls, for every set *)
(* of names and requests and any number of faults. RequestsInv is inductive;*)
(* beside the types it says which names and locks a call has at each of its *)
(* steps (PathInv, NameInv, LockInv), and what the calls know of the roles, *)
(* databases and passwords they put in the catalog (PasswordInv, OwnerInv,  *)
(* and the traces), which the catalog itself does not record.               *)
(***************************************************************************)
EXTENDS PostgresRequests, TLAPS

\* The calls of a request: every kind but the worker's.
Requester == Creates \cup Rotates \cup Drops \cup Truncates
USE DEF Requester

\* Where a call of each kind can stand.
CreateStep == {"createRole", "createDatabase", "lockConnect", "insertCredential",
               "undoCredential", "undoDatabase", "undoRole"}
RotateStep == {"lockOwner", "alterRole", "upsert"}
DropStep   == {"lookup", "gate", "dropDatabase", "dropRole", "deleteCredential"}

\* A call stays on the path of its kind, and one that has not begun has no
\* state; only an answered call says "ok". A create has no vault row to undo,
\* and nothing at all before its CREATE ROLE. A drop learns the owner late.
PathInv ==
    \A x \in Requester :
        /\ At(x, "idle") => call[x] = IdleCall
        /\ call[x].pc \notin {"idle", "done"} =>
              \/ x \in Creates   /\ call[x].pc \in CreateStep
              \/ x \in Rotates   /\ call[x].pc \in RotateStep
              \/ x \in Drops     /\ call[x].pc \in DropStep
              \/ x \in Truncates /\ call[x].pc = "truncate"
        /\ call[x].outcome = "ok" => At(x, "done")
        /\ "vault" \notin call[x].made
        /\ At(x, "createRole") => call[x].made = {}
        /\ call[x].pc \in {"lookup", "gate", "truncate"} => call[x].owner = None

\* A call in flight has the names it works on, and none that the policy
\* protects by the time it writes.
NameInv ==
    \A x \in Requester :
        /\ call[x].owner \notin DeniedRole
        /\ call[x].pc \notin {"idle", "done"} => call[x].database \in Database
        /\ call[x].pc \in CreateStep \cup RotateStep \cup {"dropDatabase", "dropRole", "deleteCredential"} =>
              call[x].owner \in Role /\ call[x].database \notin DeniedDb

\* The TryLock maps: who is inside a critical section has its entry, an entry
\* is no two calls', and the two database maps share none.
LockInv ==
    /\ dropping \cap truncating = {}
    /\ \A x \in Requester :
          /\ call[x].pc \in DropStep => call[x].database \in dropping
          /\ At(x, "truncate") => call[x].database \in truncating
          /\ call[x].pc \in {"alterRole", "upsert"} => call[x].owner \in rotating
    /\ \A x, y \in Requester :
          x # y =>
             /\ call[x].pc \in DropStep /\ call[y].pc \in DropStep => call[x].database # call[y].database
             /\ At(x, "truncate") /\ At(y, "truncate") => call[x].database # call[y].database
             /\ call[x].pc \in {"alterRole", "upsert"} /\ call[y].pc \in {"alterRole", "upsert"} =>
                   call[x].owner # call[y].owner

\* A password of a role is one that a create or a rotation of that role set; a
\* rotation between ALTER ROLE and the vault finds its password still in place,
\* or the role undone by the create that made it.
PasswordInv ==
    /\ \A r \in Role : RoleExists(r) /\ role[r].pw \in Caller =>
          role[r].pw \in Creates \cup Rotates /\ call[role[r].pw].owner = r
    /\ \A x \in Rotates, r \in Role :
          At(x, "upsert") /\ call[x].owner = r /\ OneLife(r) =>
             /\ RoleExists(r) => role[r].pw = x
             /\ ~RoleExists(r) => \E c \in Creates : call[c].owner = r /\ "role" \in call[c].made

\* A database and the objects in it belong to roles that are there. What is
\* not the database owner's belongs to a role that no create made.
OwnerInv ==
    \A d \in Database : DatabaseExists(d) =>
        /\ RoleExists(db[d].owner)
        /\ \A x \in db[d].objects :
              RoleExists(x.owner) /\ (x.owner = db[d].owner \/ role[x.owner].by = Initial)

Kept(c) == call[c].outcome \in {"ok", "killed"}

\* What a create made, as long as no statement failed: it knows of it, and
\* has not passed the step that undoes it.
DatabaseTrace ==
    \A c \in Creates, d \in Database :
        DatabaseExists(d) /\ db[d].by = c =>
            /\ call[c].database = d /\ call[c].owner = db[d].owner
            /\ faults = 0 =>
                 /\ "database" \in call[c].made
                 /\ ~At(c, "undoRole")
                 /\ At(c, "done") => Kept(c)

RoleTrace ==
    \A c \in Creates, r \in Role :
        RoleExists(r) /\ role[r].by = c =>
            /\ call[c].owner = r
            /\ faults = 0 =>
                 /\ "role" \in call[c].made
                 /\ At(c, "done") => Kept(c) \/ ~OneLife(r)
            /\ OneLife(r) => \A d \in Database : DatabaseExists(d) /\ db[d].owner = r => db[d].by = c

VaultTrace ==
    \A c \in Creates, r \in Role : faults = 0 /\ vault[r] = c => At(c, "done") /\ Kept(c)

\* What concerns the calls alone, and what relates them to the catalog.
LocalInv == RequestTypeOK /\ PathInv /\ NameInv /\ LockInv
GlobalInv ==
    PasswordInv /\ OwnerInv /\ DatabaseTrace /\ RoleTrace /\ VaultTrace /\ VaultCurrent

RequestsInv == CatalogTypeOK /\ LocalInv /\ GlobalInv

----------------------------------------------------------------------------
(***************************************************************************)
(* What a step does to the calls.                                           *)
(***************************************************************************)
CallRow == [pc : Step, source : Database \cup {None}, snapshot : Role \cup {None},
            database : Database \cup {None}, owner : Role \cup {None},
            made : SUBSET {"role", "database", "vault"}, outcome : Outcome]

\* The step is one of x, after which its call stands like this.
Moved(x, pc, database, owner, made, outcome) ==
    /\ call' \in [Caller -> CallRow]
    /\ \A y \in Caller : y # x => call'[y] = call[y]
    /\ call'[x].pc = pc
    /\ call'[x].database = database
    /\ call'[x].owner = owner
    /\ call'[x].made = made
    /\ call'[x].outcome = outcome

\* A call that goes on keeps all but its place.
LEMMA GotoMoves ==
    ASSUME RequestTypeOK, NEW x \in Caller, NEW p \in Step, Goto(x, p)
    PROVE  Moved(x, p, call[x].database, call[x].owner, call[x].made, call[x].outcome)
  BY DEF Goto, Moved, RequestTypeOK, CallRow

\* A call that is answered keeps its names.
LEMMA AnswerMoves ==
    ASSUME RequestTypeOK, NEW x \in Caller, NEW o \in Outcome, Answer(x, o)
    PROVE  Moved(x, "done", call[x].database, call[x].owner, call[x].made, o)
  <1>1. "done" \in Step
    BY DEF Step
  <1> QED BY <1>1 DEF Answer, Moved, RequestTypeOK, CallRow

\* A call that created something remembers it.
LEMMA MadeMoves ==
    ASSUME RequestTypeOK, NEW x \in Caller, NEW p \in Step,
           NEW w \in {"role", "database", "vault"}, Made(x, w, p)
    PROVE  Moved(x, p, call[x].database, call[x].owner, call[x].made \cup {w}, call[x].outcome)
  BY DEF Made, Moved, RequestTypeOK, CallRow

\* A call that compensates remembers its error.
LEMMA UndoMoves ==
    ASSUME RequestTypeOK, NEW x \in Caller, NEW o \in Outcome, Undo(x, o)
    PROVE  Moved(x, "undoCredential", call[x].database, call[x].owner, call[x].made, o)
  <1>1. "undoCredential" \in Step
    BY DEF Step
  <1> QED BY <1>1 DEF Undo, Moved, RequestTypeOK, CallRow

----------------------------------------------------------------------------
(***************************************************************************)
(* The statements keep the types of the catalog.                            *)
(***************************************************************************)

\* A role is created, altered or dropped.
LEMMA RoleStatements ==
    ASSUME CatalogTypeOK, NEW r \in Role, NEW x \in Caller
    PROVE  /\ CreateRole(r, x) \in [Role -> RoleRow \cup {None}]
           /\ RoleExists(r) => AlterRolePassword(r, x) \in [Role -> RoleRow \cup {None}]
           /\ DropRole(r) \in [Role -> RoleRow \cup {None}]
  BY DEF CatalogTypeOK, CreateRole, AlterRolePassword, DropRole, RoleRow, Maker, RoleExists

\* A database is created or dropped.
LEMMA DatabaseStatements ==
    ASSUME CatalogTypeOK, NEW d \in Database, NEW r \in Role, NEW x \in Caller
    PROVE  /\ CreateDatabase(d, r, x) \in [Database -> DatabaseRow \cup {None}]
           /\ DropDatabase(d) \in [Database -> DatabaseRow \cup {None}]
  BY DEF CatalogTypeOK, CreateDatabase, DropDatabase, DatabaseRow, ProjectObjects, Object, Maker

\* A vault row is written or deleted.
LEMMA VaultStatements ==
    ASSUME CatalogTypeOK, NEW r \in Role, NEW x \in Caller
    PROVE  /\ PutCredential(r, x) \in [Role -> Maker \cup {None}]
           /\ DeleteCredential(r) \in [Role -> Maker \cup {None}]
  BY DEF CatalogTypeOK, PutCredential, DeleteCredential, Maker

\* A statement that fails is counted, up to the bound.
LEMMA ChargeCounts ==
    ASSUME CatalogTypeOK, NEW reply \in Reply, Charge(reply)
    PROVE  /\ faults' \in 0 .. MaxFaults
           /\ reply = "ok" => faults' = faults
           /\ reply # "ok" => faults' # 0
           /\ faults' = 0 => faults = 0
  BY CatalogAssumption DEF CatalogTypeOK, Charge, Reply

----------------------------------------------------------------------------
(***************************************************************************)
(* LocalInv: the calls, their names and their locks.                        *)
(***************************************************************************)

\* Which calls are whose.
LEMMA Kinds ==
    /\ Creates \subseteq Caller /\ Rotates \subseteq Caller
    /\ Drops \subseteq Caller /\ Truncates \subseteq Caller
    /\ \A x \in Creates : x \notin Rotates /\ x \notin Drops /\ x \notin Truncates
    /\ \A x \in Rotates : x \notin Drops /\ x \notin Truncates
    /\ \A x \in Drops : x \notin Truncates
  BY RequestAssumption

\* A step of x keeps its names.
Goes(x, pc, made, outcome) ==
    Moved(x, pc, call[x].database, call[x].owner, made, outcome)

\* Steps of Create after its check, and compensateCreate.
LEMMA CreateMoves ==
    ASSUME LocalInv, NEW c \in Creates, CreateNext(c), ~CreateCheck(c)
    PROVE  /\ call[c].pc \in CreateStep
           /\ \E p \in CreateStep \cup {"done"}, m \in SUBSET {"role", "database"}, o \in Outcome :
                 /\ Goes(c, p, m, o)
                 /\ p # "createRole"
                 /\ o = "ok" => p = "done"
           /\ NoLocks
  <1>1. c \in Caller
    BY Kinds
  <1> USE <1>1 DEF Goes, At, CreateStep
  <1>2. /\ RequestTypeOK
        /\ call[c].made \in SUBSET {"role", "database"}
        /\ call[c].outcome \in Outcome
        /\ call[c].outcome = "ok" => call[c].pc = "done"
    BY DEF LocalInv, RequestTypeOK, PathInv
  <1>3. CASE CreateRoleStep(c)
    <2>1. \/ Answer(c, "conflict") \/ Made(c, "role", "createDatabase") \/ Answer(c, "unavailable")
      BY <1>3 DEF CreateRoleStep
    <2>2. \/ Goes(c, "done", call[c].made, "conflict") \/ Goes(c, "done", call[c].made, "unavailable")
          \/ Goes(c, "createDatabase", call[c].made \cup {"role"}, call[c].outcome)
      BY <1>2, <2>1, AnswerMoves, MadeMoves DEF Step, Outcome
    <2>3. call[c].pc = "createRole" /\ NoLocks
      BY <1>3 DEF CreateRoleStep
    <2> HIDE DEF Goes
    <2> QED BY <1>2, <2>2, <2>3 DEF Outcome
  <1>4. CASE CreateDatabaseStep(c)
    <2>1. Undo(c, "conflict") \/ Made(c, "database", "lockConnect") \/ Undo(c, "unavailable")
      BY <1>4 DEF CreateDatabaseStep
    <2>2. \/ Goes(c, "undoCredential", call[c].made, "conflict")
          \/ Goes(c, "undoCredential", call[c].made, "unavailable")
          \/ Goes(c, "lockConnect", call[c].made \cup {"database"}, call[c].outcome)
      BY <1>2, <2>1, UndoMoves, MadeMoves DEF Step, Outcome
    <2>3. call[c].pc = "createDatabase" /\ NoLocks
      BY <1>4 DEF CreateDatabaseStep
    <2> HIDE DEF Goes
    <2> QED BY <1>2, <2>2, <2>3 DEF Outcome
  <1>5. CASE LockConnectStep(c)
    <2>1. Goto(c, "insertCredential") \/ Undo(c, "unavailable")
      BY <1>5 DEF LockConnectStep
    <2> QED BY <1>2, <1>5, <2>1, UndoMoves, GotoMoves DEF LockConnectStep, Step, Outcome
  <1>6. CASE InsertCredentialStep(c)
    <2>1. Undo(c, "conflict") \/ Undo(c, "unavailable") \/ Answer(c, "ok")
      BY <1>6 DEF InsertCredentialStep
    <2> QED BY <1>2, <1>6, <2>1, UndoMoves, AnswerMoves DEF InsertCredentialStep, Step, Outcome
  <1>7. CASE UndoCredentialStep(c)
    BY <1>2, <1>7, GotoMoves DEF UndoCredentialStep, Step
  <1>8. CASE UndoDatabaseStep(c)
    BY <1>2, <1>8, GotoMoves DEF UndoDatabaseStep, Step
  <1>9. CASE UndoRoleStep(c)
    BY <1>2, <1>9, AnswerMoves DEF UndoRoleStep
  <1> QED BY <1>3, <1>4, <1>5, <1>6, <1>7, <1>8, <1>9 DEF CreateNext

\* The check of Create takes names that the policy allows.
LEMMA CreateCheckMoves ==
    ASSUME LocalInv, NEW c \in Creates, CreateCheck(c)
    PROVE  \E d \in Database \ DeniedDb, r \in Role \ DeniedRole :
              /\ Moved(c, "createRole", d, r, {}, "none")
              /\ ~DatabaseExists(d) /\ ~RoleExists(r)
  <1>1. c \in Caller
    BY Kinds
  <1>2. PICK d \in Database \ DeniedDb, r \in Role \ DeniedRole :
              /\ ~DatabaseExists(d) /\ ~RoleExists(r)
              /\ call' = [call EXCEPT ![c].pc = "createRole", ![c].database = d, ![c].owner = r]
    BY DEF CreateCheck
  <1>3. call[c].made = {} /\ call[c].outcome = "none"
    BY <1>1 DEF CreateCheck, LocalInv, PathInv, IdleCall
  <1>4. call \in [Caller -> CallRow] /\ "createRole" \in Step
    BY DEF LocalInv, RequestTypeOK, CallRow, Step
  <1>5. Moved(c, "createRole", d, r, call[c].made, call[c].outcome)
    BY <1>1, <1>2, <1>4 DEF Moved, CallRow
  <1> QED BY <1>2, <1>3, <1>5

\* A Create takes no lock and keeps to its path and its names.
LEMMA CreateLocal ==
    ASSUME LocalInv, NEW c \in Creates, CreateNext(c)
    PROVE  LocalInv'
  <1>1. c \in Caller
    BY Kinds
  <1> USE DEF At, CreateStep, RotateStep, DropStep
  <1>2. NoLocks
    BY CreateMoves DEF CreateCheck
  <1>3. PICK p \in CreateStep \cup {"done"}, d \in Database \cup {None}, r \in Role \cup {None},
             m \in SUBSET {"role", "database"}, o \in Outcome :
           /\ Moved(c, p, d, r, m, o)
           /\ o = "ok" => p = "done"
           /\ p = "createRole" => m = {}
           /\ r \notin DeniedRole
           /\ p # "done" => d \in Database \ DeniedDb /\ r \in Role
           /\ call[c].pc \in {"idle"} \cup CreateStep
    <2>1. CASE CreateCheck(c)
      BY <2>1, CreateCheckMoves DEF CreateCheck, Outcome
    <2>2. CASE ~CreateCheck(c)
      BY <1>1, <2>2, CreateMoves DEF Goes, LocalInv, NameInv, RequestTypeOK
    <2> QED BY <2>1, <2>2
  <1>4. RequestTypeOK'
    BY <1>2, <1>3 DEF Moved, LocalInv, RequestTypeOK, NoLocks, CallRow
  <1>5. PathInv'
    <2>1. \A y \in Requester : y # c => y \in Caller /\ call'[y] = call[y]
      BY Kinds, <1>3 DEF Moved
    <2>2. /\ call'[c].pc = p /\ call'[c].made = m /\ call'[c].outcome = o
          /\ p # "idle" /\ p \notin {"lookup", "gate", "truncate"}
      BY <1>1, <1>3 DEF Moved
    <2>3. ASSUME NEW y \in Requester
          PROVE  /\ call'[y].pc = "idle" => call'[y] = IdleCall
                 /\ call'[y].pc \notin {"idle", "done"} =>
                      \/ y \in Creates   /\ call'[y].pc \in CreateStep
                      \/ y \in Rotates   /\ call'[y].pc \in RotateStep
                      \/ y \in Drops     /\ call'[y].pc \in DropStep
                      \/ y \in Truncates /\ call'[y].pc = "truncate"
                 /\ call'[y].outcome = "ok" => call'[y].pc = "done"
                 /\ "vault" \notin call'[y].made
                 /\ call'[y].pc = "createRole" => call'[y].made = {}
                 /\ call'[y].pc \in {"lookup", "gate", "truncate"} => call'[y].owner = None
      <3>1. CASE y = c
        BY <1>3, <2>2, <3>1
      <3>2. CASE y # c
        BY <2>1, <3>2 DEF LocalInv, PathInv
      <3> QED BY <3>1, <3>2
    <2> QED BY <2>3 DEF PathInv
  <1>6. NameInv'
    BY Kinds, <1>1, <1>3 DEF Moved, LocalInv, NameInv
  <1>7. LockInv'
    BY Kinds, <1>1, <1>2, <1>3 DEF Moved, LocalInv, LockInv, NoLocks
  <1> QED BY <1>4, <1>5, <1>6, <1>7 DEF LocalInv

\* A database that can be managed has an owner that can be.
LEMMA ManageableOwner ==
    ASSUME CatalogTypeOK, NEW d \in Database, Manageable(d)
    PROVE  d \notin DeniedDb /\ db[d].owner \in Role \ DeniedRole
  BY DEF CatalogTypeOK, Manageable, DatabaseExists, DatabaseRow

\* The lookup of Rotate reads the owner the call will work on.
LEMMA RotateLookupMoves ==
    ASSUME CatalogTypeOK, LocalInv, NEW x \in Rotates, RotateLookup(x)
    PROVE  \E d \in Database \ DeniedDb, r \in Role \ DeniedRole :
              Moved(x, "lockOwner", d, r, {}, "none")
  <1>1. x \in Caller
    BY Kinds
  <1>2. PICK d \in Database :
              /\ Manageable(d)
              /\ call' = [call EXCEPT ![x].pc = "lockOwner", ![x].database = d,
                                      ![x].owner = db[d].owner]
    BY DEF RotateLookup
  <1> DEFINE r == db[d].owner
  <1>3. d \notin DeniedDb /\ r \in Role \ DeniedRole
    BY <1>2, ManageableOwner
  <1>4. call' = [call EXCEPT ![x].pc = "lockOwner", ![x].database = d, ![x].owner = r]
    BY <1>2
  <1>5. call[x].made = {} /\ call[x].outcome = "none"
    BY <1>1 DEF RotateLookup, LocalInv, PathInv, IdleCall
  <1>6. call \in [Caller -> CallRow] /\ "lockOwner" \in Step
    BY DEF LocalInv, RequestTypeOK, CallRow, Step
  <1> HIDE DEF r
  <1>7. Moved(x, "lockOwner", d, r, call[x].made, call[x].outcome)
    BY <1>1, <1>3, <1>4, <1>6 DEF Moved, CallRow
  <1> QED BY <1>3, <1>5, <1>7

\* The later steps of Rotate: it enters the critical section of its owner,
\* stays in it, or leaves it with its answer.
LEMMA RotateMoves ==
    ASSUME LocalInv, NEW x \in Rotates, RotateNext(x), ~RotateLookup(x)
    PROVE  /\ UNCHANGED <<dropping, truncating>>
           /\ \/ /\ At(x, "lockOwner") /\ call[x].owner \notin rotating
                 /\ Goes(x, "alterRole", call[x].made, call[x].outcome)
                 /\ rotating' = rotating \cup {call[x].owner}
              \/ /\ At(x, "alterRole")
                 /\ Goes(x, "upsert", call[x].made, call[x].outcome)
                 /\ rotating' = rotating
              \/ /\ At(x, "lockOwner")
                 /\ Goes(x, "done", call[x].made, "busy")
                 /\ rotating' = rotating
              \/ /\ call[x].pc \in {"alterRole", "upsert"}
                 /\ \E o \in Outcome : Goes(x, "done", call[x].made, o)
                 /\ rotating' = rotating \ {call[x].owner}
  <1>1. x \in Caller /\ RequestTypeOK
    BY Kinds DEF LocalInv
  <1> USE <1>1 DEF Goes, At
  <1>2. CASE RotateLock(x)
    BY <1>2, GotoMoves, AnswerMoves DEF RotateLock, Step, Outcome
  <1>3. CASE RotateAlter(x)
    BY <1>3, GotoMoves, AnswerMoves DEF RotateAlter, Step, Outcome
  <1>4. CASE RotateUpsert(x)
    <2>1. PICK o \in Outcome : Answer(x, o)
      BY <1>4 DEF RotateUpsert, Outcome
    <2>2. Goes(x, "done", call[x].made, o)
      BY <2>1, AnswerMoves
    <2> QED BY <1>4, <2>2 DEF RotateUpsert
  <1> QED BY <1>2, <1>3, <1>4 DEF RotateNext

\* A Rotate keeps to its path and its names, and to one rotation per owner.
LEMMA RotateLocal ==
    ASSUME CatalogTypeOK, LocalInv, NEW x \in Rotates, RotateNext(x)
    PROVE  LocalInv'
  <1>1. x \in Caller /\ call[x] \in CallRow
    BY Kinds DEF LocalInv, RequestTypeOK, CallRow
  <1> USE DEF At, CreateStep, RotateStep, DropStep
  <1>2. CASE RotateLookup(x)
    <2>1. PICK d \in Database \ DeniedDb, r \in Role \ DeniedRole :
             Moved(x, "lockOwner", d, r, {}, "none")
      BY <1>2, RotateLookupMoves
    <2>2. NoLocks /\ call[x].pc = "idle"
      BY <1>2 DEF RotateLookup
    <2>3. RequestTypeOK'
      BY <2>1, <2>2 DEF Moved, LocalInv, RequestTypeOK, NoLocks, CallRow
    <2>4. PathInv' /\ NameInv'
      BY Kinds, <1>1, <2>1 DEF Moved, LocalInv, PathInv, NameInv
    <2>5. LockInv'
      BY Kinds, <1>1, <2>1, <2>2 DEF Moved, LocalInv, LockInv, NoLocks
    <2> QED BY <2>3, <2>4, <2>5 DEF LocalInv
  <1>3. CASE ~RotateLookup(x)
    <2>1. /\ UNCHANGED <<dropping, truncating>>
          /\ call[x].pc \in RotateStep
          /\ \E p \in {"alterRole", "upsert", "done"}, o \in Outcome :
                Goes(x, p, call[x].made, o) /\ (o = "ok" => p = "done")
      BY <1>1, <1>3, RotateMoves DEF LocalInv, PathInv, CallRow, Outcome
    <2>2. PICK p \in {"alterRole", "upsert", "done"}, o \in Outcome :
             Goes(x, p, call[x].made, o) /\ (o = "ok" => p = "done")
      BY <2>1
    <2>3. rotating' \subseteq Role
      BY <1>1, <1>3, RotateMoves DEF LocalInv, RequestTypeOK, NameInv
    <2>4. RequestTypeOK'
      BY <2>1, <2>2, <2>3 DEF Moved, Goes, LocalInv, RequestTypeOK, CallRow
    <2>5. PathInv'
      BY Kinds, <1>1, <2>1, <2>2 DEF Moved, Goes, LocalInv, PathInv
    <2>6. NameInv'
      BY Kinds, <1>1, <2>1, <2>2 DEF Moved, Goes, LocalInv, NameInv
    <2>7. LockInv'
      BY Kinds, <1>1, <1>3, RotateMoves DEF Moved, Goes, LocalInv, LockInv
    <2> QED BY <2>4, <2>5, <2>6, <2>7 DEF LocalInv
  <1> QED BY <1>2, <1>3

\* A call that is answered and gets its database at once.
LEMMA ThreeFieldsMove ==
    ASSUME NEW x \in Caller, NEW p \in Step, NEW d \in Database, NEW o \in Outcome,
           call \in [Caller -> CallRow],
           call' = [call EXCEPT ![x].pc = p, ![x].database = d, ![x].outcome = o]
    PROVE  Moved(x, p, d, call[x].owner, call[x].made, o)
  BY DEF Moved, CallRow

\* lockDrop and lockTruncate answer "busy" to a call that has just begun.
LEMMA BusyMoves ==
    ASSUME LocalInv, NEW x \in Requester, NEW d \in Database, At(x, "idle"),
           call' = [call EXCEPT ![x].pc = "done", ![x].database = d, ![x].outcome = "busy"]
    PROVE  Moved(x, "done", d, None, {}, "busy")
  <1>1. call \in [Caller -> CallRow]
    BY DEF LocalInv, RequestTypeOK, CallRow
  <1>2. call[x].made = {} /\ call[x].owner = None
    BY DEF LocalInv, PathInv, IdleCall
  <1>3. "done" \in Step /\ "busy" \in Outcome
    BY DEF Step, Outcome
  <1>4. Moved(x, "done", d, call[x].owner, call[x].made, "busy")
    BY Kinds, <1>1, <1>3, ThreeFieldsMove
  <1> QED BY <1>2, <1>4

\* Or they let it in.
LEMMA LockMoves ==
    ASSUME LocalInv, NEW x \in Requester, NEW p \in Step, NEW d \in Database, At(x, "idle"),
           call' = [call EXCEPT ![x].pc = p, ![x].database = d]
    PROVE  Moved(x, p, d, None, {}, "none")
  <1>1. call \in [Caller -> CallRow]
    BY DEF LocalInv, RequestTypeOK, CallRow
  <1>2. call[x].made = {} /\ call[x].outcome = "none" /\ call[x].owner = None
    BY DEF LocalInv, PathInv, IdleCall
  <1>3. Moved(x, p, d, call[x].owner, call[x].made, call[x].outcome)
    BY Kinds, <1>1 DEF Moved, CallRow
  <1> QED BY <1>2, <1>3

\* The steps of Drop: it locks a database, stays in its critical section, in
\* which it learns the owner, or leaves it with its answer.
LEMMA DropMoves ==
    ASSUME CatalogTypeOK, LocalInv, NEW x \in Drops, DropNext(x)
    PROVE  /\ UNCHANGED <<rotating, truncating>>
           /\ \/ /\ At(x, "idle")
                 /\ \E d \in Database : Moved(x, "done", d, None, {}, "busy")
                 /\ dropping' = dropping
              \/ /\ At(x, "idle")
                 /\ \E d \in Database : /\ d \notin truncating \cup dropping
                                        /\ Moved(x, "lookup", d, None, {}, "none")
                                        /\ dropping' = dropping \cup {d}
              \/ /\ call[x].pc \in DropStep
                 /\ \E o \in Outcome : Goes(x, "done", call[x].made, o)
                 /\ dropping' = dropping \ {call[x].database}
              \/ /\ At(x, "lookup")
                 /\ Goes(x, "gate", call[x].made, call[x].outcome)
                 /\ dropping' = dropping
              \/ /\ At(x, "gate")
                 /\ call[x].database \notin DeniedDb
                 /\ \E r \in Role \ DeniedRole :
                       Moved(x, "dropDatabase", call[x].database, r, call[x].made, call[x].outcome)
                 /\ dropping' = dropping
              \/ /\ At(x, "dropDatabase")
                 /\ Goes(x, "dropRole", call[x].made, call[x].outcome)
                 /\ dropping' = dropping
              \/ /\ At(x, "dropRole")
                 /\ Goes(x, "deleteCredential", call[x].made, call[x].outcome)
                 /\ dropping' = dropping
  <1>1. x \in Caller /\ RequestTypeOK /\ call \in [Caller -> CallRow]
    BY Kinds DEF LocalInv, RequestTypeOK, CallRow
  <1> USE <1>1 DEF At, DropStep
  <1>2. ASSUME NEW o \in Outcome, DropEnds(x, o)
        PROVE  Goes(x, "done", call[x].made, o) /\ dropping' = dropping \ {call[x].database}
    BY <1>2, AnswerMoves DEF DropEnds, Goes
  <1>3. CASE DropLock(x)
    <2>1. PICK d \in Database :
             \/ /\ call' = [call EXCEPT ![x].pc = "done", ![x].database = d, ![x].outcome = "busy"]
                /\ UNCHANGED dropping
             \/ /\ d \notin truncating \cup dropping
                /\ call' = [call EXCEPT ![x].pc = "lookup", ![x].database = d]
                /\ dropping' = dropping \cup {d}
      BY <1>3 DEF DropLock
    <2>2. At(x, "idle") /\ UNCHANGED <<rotating, truncating>>
      BY <1>3 DEF DropLock
    <2>3. CASE /\ call' = [call EXCEPT ![x].pc = "done", ![x].database = d, ![x].outcome = "busy"]
               /\ UNCHANGED dropping
      BY <2>2, <2>3, BusyMoves
    <2>4. CASE /\ d \notin truncating \cup dropping
               /\ call' = [call EXCEPT ![x].pc = "lookup", ![x].database = d]
               /\ dropping' = dropping \cup {d}
      <3>1. Moved(x, "lookup", d, None, {}, "none")
        BY <2>2, <2>4, LockMoves DEF Step
      <3> QED BY <2>2, <2>4, <3>1
    <2> QED BY <2>1, <2>3, <2>4
  <1>4. CASE DropLookup(x)
    BY <1>2, <1>4, GotoMoves DEF DropLookup, Goes, Step, Outcome
  <1>5. CASE DropGate(x)
    <2> DEFINE d == call[x].database
               r == db[d].owner
    <2>1. CASE DropEnds(x, "gateDenied") \/ DropEnds(x, "notFound")
      BY <1>2, <1>5, <2>1 DEF DropGate, Outcome
    <2>2. CASE /\ Manageable(d)
               /\ call' = [call EXCEPT ![x].pc = "dropDatabase", ![x].owner = r]
               /\ UNCHANGED dropping
      <3>1. d \in Database /\ call[x].pc = "gate"
        BY <1>5 DEF DropGate, LocalInv, NameInv
      <3>2. d \notin DeniedDb /\ r \in Role \ DeniedRole
        BY <2>2, <3>1, ManageableOwner
      <3>3. call' = [call EXCEPT ![x].pc = "dropDatabase", ![x].owner = r] /\ "dropDatabase" \in Step
        BY <2>2 DEF Step
      <3> HIDE DEF r
      <3>4. Moved(x, "dropDatabase", d, r, call[x].made, call[x].outcome)
        BY <3>2, <3>3 DEF Moved, CallRow
      <3> QED BY <1>5, <2>2, <3>1, <3>2, <3>4 DEF DropGate
    <2> QED BY <1>5, <2>1, <2>2 DEF DropGate
  <1>6. CASE DropDatabaseStep(x)
    BY <1>2, <1>6, GotoMoves DEF DropDatabaseStep, Goes, Step, Outcome
  <1>7. CASE DropRoleStep(x)
    BY <1>2, <1>7, GotoMoves DEF DropRoleStep, Goes, Step, Outcome
  <1>8. CASE DropCredentialStep(x)
    BY <1>2, <1>8 DEF DropCredentialStep, Outcome
  <1> QED BY <1>3, <1>4, <1>5, <1>6, <1>7, <1>8 DEF DropNext

\* A Drop keeps to its path and its names, and to one drop per database.
LEMMA DropLocal ==
    ASSUME CatalogTypeOK, LocalInv, NEW x \in Drops, DropNext(x)
    PROVE  LocalInv'
  <1>1. x \in Caller /\ call[x] \in CallRow
    BY Kinds DEF LocalInv, RequestTypeOK, CallRow
  <1> USE DEF At, CreateStep, RotateStep, DropStep
  <1>2. RequestTypeOK'
    BY <1>1, DropMoves DEF Moved, Goes, LocalInv, RequestTypeOK, CallRow
  <1>3. PathInv'
    BY Kinds, <1>1, DropMoves DEF Moved, Goes, LocalInv, PathInv, CallRow
  <1>4. NameInv'
    BY Kinds, <1>1, DropMoves, CatalogAssumption DEF Moved, Goes, LocalInv, NameInv, CallRow
  <1>5. LockInv'
    BY Kinds, <1>1, DropMoves DEF Moved, Goes, LocalInv, LockInv, CallRow
  <1> QED BY <1>2, <1>3, <1>4, <1>5 DEF LocalInv

\* The steps of Truncate: it locks a database, and leaves with its answer.
LEMMA TruncateMoves ==
    ASSUME LocalInv, NEW x \in Truncates, TruncateNext(x)
    PROVE  /\ UNCHANGED <<catalogVars, rotating, dropping>>
           /\ \/ /\ At(x, "idle")
                 /\ \E d \in Database : Moved(x, "done", d, None, {}, "busy")
                 /\ truncating' = truncating
              \/ /\ At(x, "idle")
                 /\ \E d \in Database : /\ d \notin dropping \cup truncating
                                        /\ Moved(x, "truncate", d, None, {}, "none")
                                        /\ truncating' = truncating \cup {d}
              \/ /\ At(x, "truncate")
                 /\ \E o \in Outcome : Goes(x, "done", call[x].made, o)
                 /\ truncating' = truncating \ {call[x].database}
  <1>1. x \in Caller /\ RequestTypeOK
    BY Kinds DEF LocalInv
  <1>2. CASE TruncateLock(x)
    <2>1. PICK d \in Database :
             \/ /\ call' = [call EXCEPT ![x].pc = "done", ![x].database = d, ![x].outcome = "busy"]
                /\ UNCHANGED truncating
             \/ /\ d \notin dropping \cup truncating
                /\ call' = [call EXCEPT ![x].pc = "truncate", ![x].database = d]
                /\ truncating' = truncating \cup {d}
      BY <1>2 DEF TruncateLock
    <2>2. At(x, "idle") /\ UNCHANGED <<catalogVars, rotating, dropping>>
      BY <1>2 DEF TruncateLock
    <2>3. CASE /\ call' = [call EXCEPT ![x].pc = "done", ![x].database = d, ![x].outcome = "busy"]
               /\ UNCHANGED truncating
      BY <1>1, <2>2, <2>3, BusyMoves
    <2>4. CASE /\ d \notin dropping \cup truncating
               /\ call' = [call EXCEPT ![x].pc = "truncate", ![x].database = d]
               /\ truncating' = truncating \cup {d}
      <3>1. Moved(x, "truncate", d, None, {}, "none")
        BY <1>1, <2>2, <2>4, LockMoves DEF Step
      <3> QED BY <2>2, <2>4, <3>1
    <2> QED BY <2>1, <2>3, <2>4
  <1>3. CASE TruncateStep(x)
    <2>1. PICK o \in Outcome : Answer(x, o)
      BY <1>3 DEF TruncateStep, Outcome
    <2> QED BY <1>1, <1>3, <2>1, AnswerMoves DEF TruncateStep, Goes
  <1> QED BY <1>2, <1>3 DEF TruncateNext

\* A Truncate keeps to its path and to one truncate per database.
LEMMA TruncateLocal ==
    ASSUME LocalInv, NEW x \in Truncates, TruncateNext(x)
    PROVE  LocalInv'
  <1>1. x \in Caller /\ call[x] \in CallRow
    BY Kinds DEF LocalInv, RequestTypeOK, CallRow
  <1> USE DEF At, CreateStep, RotateStep, DropStep
  <1>2. RequestTypeOK'
    BY <1>1, TruncateMoves DEF Moved, Goes, LocalInv, RequestTypeOK, CallRow
  <1>3. PathInv'
    BY Kinds, <1>1, TruncateMoves DEF Moved, Goes, LocalInv, PathInv, CallRow
  <1>4. NameInv'
    BY Kinds, <1>1, TruncateMoves, CatalogAssumption DEF Moved, Goes, LocalInv, NameInv, CallRow
  <1>5. LockInv'
    BY Kinds, <1>1, TruncateMoves DEF Moved, Goes, LocalInv, LockInv, CallRow
  <1> QED BY <1>2, <1>3, <1>4, <1>5 DEF LocalInv

\* The end of the process ends every call in flight and empties the maps.
LEMMA KilledCalls ==
    ASSUME RequestTypeOK, RequestsKilled
    PROVE  /\ call' \in [Caller -> CallRow]
           /\ \A x \in Caller :
                 IF call[x].pc \in {"idle", "done"} THEN call'[x] = call[x]
                 ELSE /\ call'[x].pc = "done" /\ call'[x].outcome = "killed"
                      /\ call'[x].owner = call[x].owner
                      /\ call'[x].database = call[x].database
                      /\ call'[x].made = call[x].made
  <1>1. call \in [Caller -> CallRow] /\ "done" \in Step /\ "killed" \in Outcome
    BY DEF RequestTypeOK, CallRow, Step, Outcome
  <1>2. \A x \in Caller : call'[x] \in CallRow
    BY <1>1 DEF RequestsKilled, CallRow
  <1>3. call' \in [Caller -> CallRow]
    BY <1>2 DEF RequestsKilled
  <1>4. ASSUME NEW x \in Caller, call[x].pc \notin {"idle", "done"}
        PROVE  /\ call'[x].pc = "done" /\ call'[x].outcome = "killed"
               /\ call'[x].owner = call[x].owner /\ call'[x].database = call[x].database
               /\ call'[x].made = call[x].made
    <2> DEFINE r == call[x]
    <2>1. r \in CallRow /\ call'[x] = [r EXCEPT !.pc = "done", !.outcome = "killed"]
      BY <1>1, <1>4 DEF RequestsKilled
    <2> HIDE DEF r
    <2>2. /\ call'[x].pc = "done" /\ call'[x].outcome = "killed"
          /\ call'[x].owner = r.owner /\ call'[x].database = r.database /\ call'[x].made = r.made
      BY <2>1 DEF CallRow
    <2> QED BY <2>2 DEF r
  <1>5. \A x \in Caller : call[x].pc \in {"idle", "done"} => call'[x] = call[x]
    BY DEF RequestsKilled
  <1> QED BY <1>3, <1>4, <1>5

\* Nothing that a dying process leaves contradicts LocalInv.
LEMMA KilledLocal ==
    ASSUME LocalInv, RequestsKilled
    PROVE  LocalInv'
  <1> USE DEF At, CreateStep, RotateStep, DropStep
  <1>1. RequestTypeOK'
    BY KilledCalls DEF LocalInv, RequestTypeOK, CallRow, RequestsKilled
  <1>2. PathInv'
    BY Kinds, KilledCalls DEF LocalInv, PathInv
  <1>3. NameInv'
    BY Kinds, KilledCalls DEF LocalInv, NameInv
  <1>4. \A x \in Requester : call'[x].pc \in {"idle", "done"}
    BY Kinds, KilledCalls DEF LocalInv
  <1>5. LockInv'
    BY <1>4 DEF LockInv, RequestsKilled
  <1> QED BY <1>1, <1>2, <1>3, <1>5 DEF LocalInv

\* Before the first request every call is idle and every map is empty.
LEMMA LocalInit == RequestInit => LocalInv
  <1> SUFFICES ASSUME RequestInit PROVE LocalInv
    OBVIOUS
  <1>1. IdleCall \in CallRow
    BY DEF IdleCall, CallRow, Step, Outcome
  <1>2. \A x \in Caller : call[x] = IdleCall
    BY DEF RequestInit
  <1>3. \A x \in Caller : /\ call[x].pc = "idle" /\ call[x].outcome = "none"
                          /\ call[x].made = {} /\ call[x].owner = None
    BY <1>2 DEF IdleCall
  <1>4. RequestTypeOK
    BY <1>1 DEF RequestInit, RequestTypeOK, CallRow
  <1>5. PathInv
    BY Kinds, <1>2, <1>3 DEF PathInv, At
  <1>6. NameInv /\ LockInv
    BY Kinds, <1>3, CatalogAssumption DEF NameInv, LockInv, At, CreateStep, RotateStep, DropStep, RequestInit
  <1> QED BY <1>4, <1>5, <1>6 DEF LocalInv

----------------------------------------------------------------------------
(***************************************************************************)
(* GlobalInv: the calls and what they put in the catalog.                   *)
(***************************************************************************)

\* A call never gives up a name: a role that has one life after a step had it
\* before.
LEMMA OneLifeShrinks ==
    ASSUME NEW x, NEW p, NEW d, NEW o, NEW m, NEW out, Moved(x, p, d, o, m, out),
           call[x].owner \in {None, o}, NEW r \in Role, OneLife(r)'
    PROVE  OneLife(r)
  <1>1. r # None
    BY CatalogAssumption
  <1>2. \A y \in Creates \cup Drops : call[y].owner = r => call'[y].owner = r
    BY <1>1, Kinds DEF Moved
  <1> QED BY <1>2 DEF OneLife

\* Passwords and pending vault writes are not disturbed by a step that leaves
\* the roles alone and brings no rotation to its vault write.
LEMMA PasswordFrame ==
    ASSUME GlobalInv, NEW x \in Caller,
           NEW p, NEW d, NEW o, NEW m, NEW out, Moved(x, p, d, o, m, out),
           call[x].owner \in {None, o}, call[x].made \subseteq m, p # "upsert",
           role' = role
    PROVE  PasswordInv'
  <1> USE DEF RoleExists, At
  <1>1. \A r \in Role : OneLife(r)' => OneLife(r)
    BY OneLifeShrinks
  <1>2. \A y \in Caller : /\ call[y].owner \in Role => call'[y].owner = call[y].owner
                          /\ call[y].made \subseteq call'[y].made
    BY CatalogAssumption DEF Moved
  <1>3. ASSUME NEW r \in Role, role'[r] # None, role'[r].pw \in Caller
        PROVE  role'[r].pw \in Creates \cup Rotates /\ call'[role'[r].pw].owner = r
    BY <1>2, <1>3 DEF GlobalInv, PasswordInv
  <1>4. ASSUME NEW y \in Rotates, NEW r \in Role, call'[y].pc = "upsert",
               call'[y].owner = r, OneLife(r)'
        PROVE  /\ role'[r] # None => role'[r].pw = y
               /\ role'[r] = None => \E c \in Creates : call'[c].owner = r /\ "role" \in call'[c].made
    <2>1. y # x /\ y \in Caller /\ call[y].pc = "upsert" /\ call[y].owner = r
      BY <1>4, Kinds DEF Moved
    <2>2. OneLife(r)
      BY <1>1, <1>4
    <2>3. /\ role[r] # None => role[r].pw = y
          /\ role[r] = None => \E c \in Creates : call[c].owner = r /\ "role" \in call[c].made
      BY <2>1, <2>2 DEF GlobalInv, PasswordInv
    <2> QED BY <1>2, <2>3, Kinds
  <1> QED BY <1>3, <1>4 DEF PasswordInv

\* A step of x that changes nothing in the catalog and is not the one that
\* brings a rotation to its vault write. An answer with success is not that of
\* a create or a rotation, and a create does not pass an undo with work left.
LEMMA QuietGlobal ==
    ASSUME CatalogTypeOK, LocalInv, GlobalInv, NEW x \in Caller,
           NEW p, NEW d, NEW o, NEW m, NEW out, Moved(x, p, d, o, m, out),
           call[x].owner \in {None, o}, call[x].database \in {None, d}, call[x].made \subseteq m,
           call[x].pc # "done", p # "upsert",
           db' = db, role' = role, vault' = vault, faults' = 0 => faults = 0,
           out = "ok" => x \notin Creates \cup Rotates,
           \A e \in Database : x \in Creates /\ faults' = 0 /\ p \in {"undoRole", "done"} /\ DatabaseExists(e)
                                  => db[e].by # x,
           \A r \in Role : x \in Creates /\ faults' = 0 /\ p = "done" /\ RoleExists(r) /\ OneLife(r)'
                              => role[r].by # x
    PROVE  GlobalInv'
  <1> USE DEF RoleExists, DatabaseExists, At
  <1>1. /\ None \notin Role /\ None \notin Database
        /\ \A r \in Role : OneLife(r)' => OneLife(r)
    BY OneLifeShrinks, CatalogAssumption
  <1>2. /\ \A y \in Caller : call[y].owner \in Role => call'[y].owner = call[y].owner
        /\ \A y \in Caller : call[y].database \in Database => call'[y].database = call[y].database
        /\ \A y \in Caller : call[y].made \subseteq call'[y].made
    BY <1>1 DEF Moved
  <1>3. PasswordInv'
    BY PasswordFrame
  <1>4. OwnerInv'
    BY DEF GlobalInv, OwnerInv
  <1>5. \A c \in Creates : /\ c \in Caller /\ (c # x => call'[c] = call[c])
                           /\ c = x => call[c].pc # "done" /\ call'[c].pc = p
    BY Kinds DEF Moved
  <1>6. DatabaseTrace'
    <2>1. \A e \in Database : db[e] # None => db[e].owner \in Role
      BY DEF CatalogTypeOK, DatabaseRow
    <2> QED BY <1>2, <1>5, <2>1 DEF GlobalInv, DatabaseTrace, Kept
  <1>7. RoleTrace'
    BY <1>1, <1>2, <1>5 DEF GlobalInv, RoleTrace, Kept
  <1>8. VaultTrace'
    BY <1>5 DEF GlobalInv, VaultTrace, Kept
  <1>9. VaultCurrent'
    <2> SUFFICES ASSUME NEW r \in Role, role[r] # None, role[r].pw \in Caller, 
                        call'[role[r].pw].pc = "done", call'[role[r].pw].outcome = "ok", OneLife(r)'
                 PROVE  vault[r] = role[r].pw
      BY DEF VaultCurrent, Answered
    <2>1. role[r].pw # x
      BY DEF Moved, GlobalInv, PasswordInv
    <2>2. call'[role[r].pw] = call[role[r].pw]
      BY <2>1 DEF Moved
    <2> QED BY <1>1, <2>2 DEF GlobalInv, VaultCurrent, Answered
  <1> QED BY <1>3, <1>4, <1>6, <1>7, <1>8, <1>9 DEF GlobalInv

\* Databases and objects are owned by roles.
LEMMA OwnersTyped ==
    ASSUME CatalogTypeOK, NEW d \in Database, db[d] # None
    PROVE  db[d].owner \in Role /\ \A x \in db[d].objects : x.owner \in Role
  <1>1. db[d] \in DatabaseRow
    BY DEF CatalogTypeOK
  <1>2. db[d].owner \in Role /\ db[d].objects \subseteq Object
    BY <1>1 DEF DatabaseRow
  <1> QED BY <1>2 DEF Object

\* CREATE ROLE takes effect, seen by the create or not.
LEMMA CreateRoleGlobal ==
    ASSUME CatalogTypeOK, LocalInv, GlobalInv, NEW c \in Creates, At(c, "createRole"),
           NEW r, r = call[c].owner, ~RoleExists(r), role' = CreateRole(r, c),
           UNCHANGED <<db, vault>>, faults' = 0 => faults = 0,
           \/ Goes(c, "createDatabase", call[c].made \cup {"role"}, call[c].outcome)
           \/ Goes(c, "done", call[c].made, "unavailable") /\ faults' # 0
    PROVE  GlobalInv'
  <1> USE DEF RoleExists, DatabaseExists, At
  <1>1. /\ c \in Caller /\ r \in Role /\ call[c].made = {} /\ c \notin Rotates
        /\ call[c].outcome # "ok"
    BY Kinds DEF LocalInv, PathInv, NameInv, CreateStep
  <1>2. /\ role' \in [Role -> RoleRow \cup {None}]
        /\ role'[r] = [by |-> c, pw |-> c] /\ role'[r] # None
        /\ \A q \in Role : q # r => role'[q] = role[q]
    BY <1>1, CatalogAssumption DEF CreateRole, CatalogTypeOK, RoleRow, Maker
  <1>3. \A q \in Role : OneLife(q)' => OneLife(q)
    BY OneLifeShrinks DEF Goes
  <1>4. /\ \A y \in Caller : y # c => call'[y] = call[y]
        /\ call'[c].owner = r /\ call'[c].database = call[c].database
        /\ call'[c].pc # "undoRole" /\ call'[c].outcome # "ok" /\ call'[c].pc # "upsert"
        /\ faults' = 0 => call'[c].made = {"role"} /\ call'[c].pc = "createDatabase"
    BY <1>1 DEF Goes, Moved
  <1>5. PasswordInv'
    <2>1. ASSUME NEW y \in Rotates, call[y].pc = "upsert", call[y].owner = r, OneLife(r)
          PROVE  FALSE
      <3>1. PICK e \in Creates : call[e].owner = r /\ "role" \in call[e].made
        BY <1>1, <2>1 DEF GlobalInv, PasswordInv
      <3>2. e = c
        BY <1>1, <2>1, <3>1 DEF OneLife
      <3> QED BY <1>1, <3>1, <3>2
    <2>2. ASSUME NEW y \in Rotates PROVE call'[y] = call[y]
      BY <1>1, <1>4, Kinds
    <2>3. ASSUME NEW e \in Creates, "role" \in call[e].made PROVE call'[e] = call[e]
      BY <1>1, <1>4, <2>3, Kinds
    <2>4. ASSUME NEW q \in Role, role'[q] # None, role'[q].pw \in Caller
          PROVE  role'[q].pw \in Creates \cup Rotates /\ call'[role'[q].pw].owner = q
      BY <1>1, <1>2, <1>4, <2>4 DEF GlobalInv, PasswordInv
    <2>5. ASSUME NEW y \in Rotates, NEW q \in Role, call'[y].pc = "upsert",
                 call'[y].owner = q, OneLife(q)'
          PROVE  /\ role'[q] # None => role'[q].pw = y
                 /\ role'[q] = None => \E e \in Creates : call'[e].owner = q /\ "role" \in call'[e].made
      <3>1. q # r /\ OneLife(q)
        BY <1>3, <2>1, <2>2, <2>5
      <3> QED BY <1>2, <2>2, <2>3, <2>5, <3>1 DEF GlobalInv, PasswordInv
    <2> QED BY <2>4, <2>5 DEF PasswordInv
  <1>6. OwnerInv'
    BY <1>1, <1>2, OwnersTyped DEF GlobalInv, OwnerInv
  <1>7. DatabaseTrace'
    BY <1>1, <1>4, Kinds DEF GlobalInv, DatabaseTrace, Kept
  <1>8. RoleTrace'
    <2>1. \A d \in Database : db[d] # None => db[d].owner # r
      BY DEF GlobalInv, OwnerInv
    <2> QED BY <1>1, <1>2, <1>3, <1>4, <2>1, Kinds DEF GlobalInv, RoleTrace, Kept
  <1>9. VaultTrace'
    BY <1>1, <1>4, Kinds DEF GlobalInv, VaultTrace, Kept
  <1>10. VaultCurrent'
    BY <1>1, <1>2, <1>3, <1>4 DEF GlobalInv, VaultCurrent, Answered
  <1> QED BY <1>5, <1>6, <1>7, <1>8, <1>9, <1>10 DEF GlobalInv

\* CREATE DATABASE takes effect, seen by the create or not.
LEMMA CreateDatabaseGlobal ==
    ASSUME CatalogTypeOK, LocalInv, GlobalInv, NEW c \in Creates, At(c, "createDatabase"),
           NEW d, d = call[c].database, NEW r, r = call[c].owner,
           RoleExists(r), ~DatabaseExists(d), db' = CreateDatabase(d, r, c),
           UNCHANGED <<role, vault>>, faults' = 0 => faults = 0,
           \/ Goes(c, "lockConnect", call[c].made \cup {"database"}, call[c].outcome)
           \/ Goes(c, "undoCredential", call[c].made, "unavailable") /\ faults' # 0
    PROVE  GlobalInv'
  <1> USE DEF RoleExists, DatabaseExists, At
  <1>1. c \in Caller /\ d \in Database /\ r \in Role /\ call[c].outcome # "ok"
    BY Kinds DEF LocalInv, PathInv, NameInv, CreateStep
  <1>2. /\ db'[d].owner = r /\ db'[d].by = c /\ \A x \in db'[d].objects : x.owner = r
        /\ db'[d] # None
        /\ \A e \in Database : e # d => db'[e] = db[e]
    <2>1. [owner |-> r, objects |-> ProjectObjects(r), by |-> c] \in DatabaseRow
      BY <1>1 DEF ProjectObjects, DatabaseRow, Object, Maker
    <2>2. /\ db'[d] = [owner |-> r, objects |-> ProjectObjects(r), by |-> c]
          /\ \A e \in Database : e # d => db'[e] = db[e]
      BY <1>1 DEF CreateDatabase, CatalogTypeOK
    <2>3. db'[d].owner = r /\ db'[d].by = c /\ db'[d].objects = ProjectObjects(r)
      BY <2>2
    <2>4. \A x \in ProjectObjects(r) : x.owner = r
      BY DEF ProjectObjects
    <2> QED BY <2>1, <2>2, <2>3, <2>4, CatalogAssumption
  <1>3. \A q \in Role : OneLife(q)' => OneLife(q)
    BY OneLifeShrinks DEF Goes
  <1>4. /\ \A y \in Caller : y # c => call'[y] = call[y]
        /\ call'[c].owner = r /\ call'[c].database = d /\ call[c].made \subseteq call'[c].made
        /\ call'[c].pc \notin {"undoRole", "done"}
        /\ faults' = 0 => "database" \in call'[c].made
    BY <1>1 DEF Goes, Moved
  <1>5. PasswordInv'
    BY <1>1, PasswordFrame DEF Goes
  <1>6. OwnerInv'
    BY <1>1, <1>2 DEF GlobalInv, OwnerInv
  <1>7. DatabaseTrace'
    BY <1>1, <1>2, <1>4, Kinds DEF GlobalInv, DatabaseTrace, Kept
  <1>8. RoleTrace'
    <2>1. ASSUME NEW e \in Creates, OneLife(r), role[r].by = e PROVE e = c
      BY <1>1, <2>1 DEF OneLife, GlobalInv, RoleTrace
    <2> QED BY <1>1, <1>2, <1>3, <1>4, <2>1, Kinds DEF GlobalInv, RoleTrace, Kept
  <1>9. VaultTrace'
    BY <1>1, <1>4, Kinds DEF GlobalInv, VaultTrace, Kept
  <1>10. VaultCurrent'
    BY <1>1, <1>3, <1>4 DEF GlobalInv, VaultCurrent, Answered
  <1> QED BY <1>5, <1>6, <1>7, <1>8, <1>9, <1>10 DEF GlobalInv

\* The INSERT of the vault row takes effect, seen by the create or not.
LEMMA InsertGlobal ==
    ASSUME CatalogTypeOK, LocalInv, GlobalInv, NEW c \in Creates, At(c, "insertCredential"),
           NEW r, r = call[c].owner, ~Saved(r), vault' = PutCredential(r, c),
           UNCHANGED <<db, role>>, faults' = 0 => faults = 0,
           \/ Goes(c, "done", call[c].made, "ok")
           \/ Goes(c, "undoCredential", call[c].made, "unavailable") /\ faults' # 0
    PROVE  GlobalInv'
  <1> USE DEF RoleExists, DatabaseExists, At
  <1>1. c \in Caller /\ r \in Role
    BY Kinds DEF LocalInv, NameInv, CreateStep
  <1>2. vault'[r] = c /\ \A q \in Role : q # r => vault'[q] = vault[q]
    BY <1>1 DEF PutCredential, CatalogTypeOK
  <1>3. \A q \in Role : OneLife(q)' => OneLife(q)
    BY OneLifeShrinks DEF Goes
  <1>4. /\ \A y \in Caller : y # c => call'[y] = call[y]
        /\ call'[c].owner = r /\ call'[c].database = call[c].database /\ call'[c].made = call[c].made
        /\ call'[c].pc # "undoRole"
        /\ call'[c].pc = "done" => Kept(c)'
        /\ faults' = 0 => call'[c].pc = "done"
    BY <1>1 DEF Goes, Moved, Kept
  <1>5. PasswordInv'
    BY <1>1, PasswordFrame DEF Goes
  <1>6. OwnerInv'
    BY DEF GlobalInv, OwnerInv
  <1>7. DatabaseTrace'
    BY <1>1, <1>4, Kinds DEF GlobalInv, DatabaseTrace, Kept
  <1>8. RoleTrace'
    BY <1>1, <1>3, <1>4, Kinds DEF GlobalInv, RoleTrace, Kept
  <1>9. VaultTrace'
    BY <1>1, <1>2, <1>4, Kinds DEF GlobalInv, VaultTrace, Kept
  <1>10. VaultCurrent'
    <2> SUFFICES ASSUME NEW q \in Role, role[q] # None, role[q].pw \in Caller,
                        call'[role[q].pw].pc = "done", call'[role[q].pw].outcome = "ok", OneLife(q)'
                 PROVE  vault'[q] = role[q].pw
      BY DEF VaultCurrent, Answered
    <2>1. OneLife(q) /\ call[role[q].pw].owner = q
      BY <1>3 DEF GlobalInv, PasswordInv
    <2>2. CASE role[q].pw = c
      BY <1>2, <2>1, <2>2
    <2>3. CASE role[q].pw # c
      <3>1. vault[q] = role[q].pw
        BY <1>4, <2>1, <2>3 DEF GlobalInv, VaultCurrent, Answered
      <3>2. q # r
        BY <3>1, CatalogAssumption DEF Saved
      <3> QED BY <1>2, <3>1, <3>2
    <2> QED BY <2>2, <2>3
  <1> QED BY <1>5, <1>6, <1>7, <1>8, <1>9, <1>10 DEF GlobalInv

\* DROP DATABASE takes effect, for a drop or for a create that undoes its own.
LEMMA DropDatabaseGlobal ==
    ASSUME CatalogTypeOK, LocalInv, GlobalInv, NEW x \in Caller,
           NEW d \in Database, d = call[x].database, db' = DropDatabase(d),
           UNCHANGED <<role, vault>>, faults' = 0 => faults = 0,
           NEW p, NEW out, Goes(x, p, call[x].made, out),
           \/ x \in Creates /\ p = "undoRole"
           \/ x \in Drops /\ p \in {"dropRole", "done"},
           call[x].pc # "done"
    PROVE  GlobalInv'
  <1> USE DEF RoleExists, DatabaseExists, At
  <1>1. db'[d] = None /\ \A e \in Database : e # d => db'[e] = db[e]
    BY DEF DropDatabase, CatalogTypeOK
  <1>2. \A q \in Role : OneLife(q)' => OneLife(q)
    BY OneLifeShrinks DEF Goes
  <1>3. /\ \A y \in Caller : y # x => call'[y] = call[y]
        /\ call'[x].owner = call[x].owner /\ call'[x].database = d /\ call'[x].made = call[x].made
        /\ call'[x].pc = p
    BY DEF Goes, Moved
  <1>4. PasswordInv'
    BY PasswordFrame DEF Goes
  <1>5. OwnerInv'
    BY <1>1 DEF GlobalInv, OwnerInv
  <1>6. DatabaseTrace'
    BY <1>1, <1>3, Kinds DEF GlobalInv, DatabaseTrace, Kept
  <1>7. RoleTrace'
    BY <1>1, <1>2, <1>3, Kinds DEF GlobalInv, RoleTrace, Kept
  <1>8. VaultTrace'
    BY <1>3, Kinds DEF GlobalInv, VaultTrace, Kept
  <1>9. VaultCurrent'
    <2> SUFFICES ASSUME NEW q \in Role, role[q] # None, role[q].pw \in Caller,
                        call'[role[q].pw].pc = "done", call'[role[q].pw].outcome = "ok", OneLife(q)'
                 PROVE  vault[q] = role[q].pw
      BY DEF VaultCurrent, Answered
    <2>1. role[q].pw # x
      BY <1>3, Kinds DEF GlobalInv, PasswordInv
    <2> QED BY <1>2, <1>3, <2>1 DEF GlobalInv, VaultCurrent, Answered
  <1> QED BY <1>4, <1>5, <1>6, <1>7, <1>8, <1>9 DEF GlobalInv

\* DROP ROLE takes effect, for a drop or for a create that undoes its own.
LEMMA DropRoleGlobal ==
    ASSUME CatalogTypeOK, LocalInv, GlobalInv, NEW x \in Caller,
           NEW r \in Role, r = call[x].owner, RoleUnowned(r), role' = DropRole(r),
           UNCHANGED <<db, vault>>, faults' = 0 => faults = 0,
           NEW p, NEW out, Goes(x, p, call[x].made, out),
           \/ x \in Creates /\ At(x, "undoRole") /\ p = "done" /\ "role" \in call[x].made /\ out # "ok"
           \/ x \in Drops /\ p \in {"deleteCredential", "done"},
           call[x].pc # "done"
    PROVE  GlobalInv'
  <1> USE DEF RoleExists, DatabaseExists, At
  <1>1. role'[r] = None /\ \A q \in Role : q # r => role'[q] = role[q]
    BY DEF DropRole, CatalogTypeOK
  <1>2. \A q \in Role : OneLife(q)' => OneLife(q)
    BY OneLifeShrinks DEF Goes
  <1>3. /\ \A y \in Caller : y # x => call'[y] = call[y]
        /\ call'[x].owner = r /\ call'[x].database = call[x].database /\ call'[x].made = call[x].made
        /\ call'[x].pc = p /\ call'[x].outcome = out
    BY DEF Goes, Moved
  <1>4. PasswordInv'
    <2>1. ASSUME NEW q \in Role, role'[q] # None, role'[q].pw \in Caller
          PROVE  role'[q].pw \in Creates \cup Rotates /\ call'[role'[q].pw].owner = q
      BY <1>1, <1>3, <2>1 DEF GlobalInv, PasswordInv
    <2>2. ASSUME NEW y \in Rotates, NEW q \in Role, call'[y].pc = "upsert",
                 call'[y].owner = q, OneLife(q)'
          PROVE  /\ role'[q] # None => role'[q].pw = y
                 /\ role'[q] = None => \E e \in Creates : call'[e].owner = q /\ "role" \in call'[e].made
      <3>1. y # x /\ y \in Caller
        BY Kinds
      <3>2. CASE q = r
        <4>1. x \in Creates
          BY <1>3, <2>2, <3>2 DEF OneLife
        <4> QED BY <1>1, <1>3, <3>2, <4>1, Kinds
      <3>3. CASE q # r
        <4>1. \A e \in Creates : call'[e].owner = call[e].owner /\ call'[e].made = call[e].made
          BY <1>3, Kinds
        <4> QED BY <1>1, <1>2, <1>3, <2>2, <3>1, <3>3, <4>1 DEF GlobalInv, PasswordInv
      <3> QED BY <3>2, <3>3
    <2> QED BY <2>1, <2>2 DEF PasswordInv
  <1>5. OwnerInv'
    BY <1>1, OwnersTyped DEF GlobalInv, OwnerInv, RoleUnowned
  <1>6. DatabaseTrace'
    BY <1>3, Kinds DEF GlobalInv, DatabaseTrace, Kept
  <1>7. RoleTrace'
    BY <1>1, <1>2, <1>3, Kinds DEF GlobalInv, RoleTrace, Kept
  <1>8. VaultTrace'
    BY <1>3, Kinds DEF GlobalInv, VaultTrace, Kept
  <1>9. VaultCurrent'
    <2> SUFFICES ASSUME NEW q \in Role, role'[q] # None, role'[q].pw \in Caller,
                        call'[role'[q].pw].pc = "done", call'[role'[q].pw].outcome = "ok", OneLife(q)'
                 PROVE  vault[q] = role'[q].pw
      BY DEF VaultCurrent, Answered
    <2>1. role'[q] = role[q] /\ role[q].pw # x
      BY <1>1, <1>3, Kinds DEF GlobalInv, PasswordInv
    <2> QED BY <1>2, <1>3, <2>1 DEF GlobalInv, VaultCurrent, Answered
  <1> QED BY <1>4, <1>5, <1>6, <1>7, <1>8, <1>9 DEF GlobalInv

\* ALTER ROLE takes effect, seen by the rotation or not: the lock on the owner
\* means that no other rotation is about to write its vault row.
LEMMA AlterGlobal ==
    ASSUME CatalogTypeOK, LocalInv, GlobalInv, NEW x \in Rotates, At(x, "alterRole"),
           NEW r, r = call[x].owner, RoleExists(r), role' = AlterRolePassword(r, x),
           UNCHANGED <<db, vault>>, faults' = 0 => faults = 0,
           NEW p \in {"upsert", "done"}, NEW out, out # "ok", Goes(x, p, call[x].made, out)
    PROVE  GlobalInv'
  <1> USE DEF RoleExists, DatabaseExists, At
  <1>1. x \in Caller /\ r \in Role /\ x \notin Creates /\ x \notin Drops
    BY Kinds DEF LocalInv, NameInv, RotateStep
  <1>2. /\ role'[r] # None /\ role'[r].pw = x /\ role'[r].by = role[r].by
        /\ \A q \in Role : q # r => role'[q] = role[q]
    BY <1>1, CatalogAssumption DEF AlterRolePassword, CatalogTypeOK, RoleRow, Maker
  <1>3. \A q \in Role : OneLife(q)' => OneLife(q)
    BY OneLifeShrinks DEF Goes
  <1>4. /\ \A y \in Caller : y # x => call'[y] = call[y]
        /\ call'[x].owner = r /\ call'[x].pc = p /\ call'[x].outcome = out
    BY DEF Goes, Moved
  <1>5. \A e \in Creates : e \in Caller /\ call'[e] = call[e]
    BY <1>1, <1>4, Kinds
  <1>6. PasswordInv'
    <2>1. ASSUME NEW q \in Role, role'[q] # None, role'[q].pw \in Caller
          PROVE  role'[q].pw \in Creates \cup Rotates /\ call'[role'[q].pw].owner = q
      BY <1>1, <1>2, <1>4, <2>1 DEF GlobalInv, PasswordInv
    <2>2. ASSUME NEW y \in Rotates, NEW q \in Role, call'[y].pc = "upsert",
                 call'[y].owner = q, OneLife(q)'
          PROVE  /\ role'[q] # None => role'[q].pw = y
                 /\ role'[q] = None => \E e \in Creates : call'[e].owner = q /\ "role" \in call'[e].made
      <3>1. CASE y = x
        BY <1>2, <1>4, <2>2, <3>1
      <3>2. CASE y # x
        <4>1. y \in Caller /\ call[y].pc = "upsert" /\ call[y].owner = q
          BY <1>4, <2>2, <3>2, Kinds
        <4>2. q # r
          BY <1>1, <3>2, <4>1 DEF LocalInv, LockInv
        <4> QED BY <1>2, <1>3, <1>5, <2>2, <4>1, <4>2 DEF GlobalInv, PasswordInv
      <3> QED BY <3>1, <3>2
    <2> QED BY <2>1, <2>2 DEF PasswordInv
  <1>7. OwnerInv'
    BY <1>1, <1>2, OwnersTyped DEF GlobalInv, OwnerInv
  <1>8. DatabaseTrace' /\ VaultTrace'
    BY <1>5 DEF GlobalInv, DatabaseTrace, VaultTrace, Kept
  <1>9. RoleTrace'
    BY <1>1, <1>2, <1>3, <1>5 DEF GlobalInv, RoleTrace, Kept
  <1>10. VaultCurrent'
    BY <1>1, <1>2, <1>3, <1>4 DEF GlobalInv, VaultCurrent, Answered
  <1> QED BY <1>6, <1>7, <1>8, <1>9, <1>10 DEF GlobalInv

\* The UPSERT of the vault row takes effect, seen by the rotation or not: the
\* password it stores is the one the role has.
LEMMA UpsertGlobal ==
    ASSUME CatalogTypeOK, LocalInv, GlobalInv, NEW x \in Rotates, At(x, "upsert"),
           NEW r, r = call[x].owner, vault' = PutCredential(r, x),
           UNCHANGED <<db, role>>, faults' = 0 => faults = 0,
           NEW out, Goes(x, "done", call[x].made, out)
    PROVE  GlobalInv'
  <1> USE DEF RoleExists, DatabaseExists, At
  <1>1. x \in Caller /\ r \in Role /\ x \notin Creates /\ x \notin Drops
    BY Kinds DEF LocalInv, NameInv, RotateStep
  <1>2. vault'[r] = x /\ \A q \in Role : q # r => vault'[q] = vault[q]
    BY <1>1 DEF PutCredential, CatalogTypeOK
  <1>3. \A q \in Role : OneLife(q)' => OneLife(q)
    BY OneLifeShrinks DEF Goes
  <1>4. (\A y \in Caller : y # x => call'[y] = call[y]) /\ call'[x].owner = r
    BY DEF Goes, Moved
  <1>5. \A e \in Creates : e \in Caller /\ call'[e] = call[e]
    BY <1>1, <1>4, Kinds
  <1>6. PasswordInv'
    BY <1>1, PasswordFrame DEF Goes
  <1>7. OwnerInv'
    BY DEF GlobalInv, OwnerInv
  <1>8. DatabaseTrace' /\ VaultTrace'
    BY <1>1, <1>2, <1>5 DEF GlobalInv, DatabaseTrace, VaultTrace, Kept
  <1>9. RoleTrace'
    BY <1>3, <1>5 DEF GlobalInv, RoleTrace, Kept
  <1>10. VaultCurrent'
    <2> SUFFICES ASSUME NEW q \in Role, role[q] # None, role[q].pw \in Caller,
                        call'[role[q].pw].pc = "done", call'[role[q].pw].outcome = "ok", OneLife(q)'
                 PROVE  vault'[q] = role[q].pw
      BY DEF VaultCurrent, Answered
    <2>1. OneLife(q)
      BY <1>3
    <2>2. CASE q = r
      BY <1>1, <1>2, <2>1, <2>2 DEF GlobalInv, PasswordInv
    <2>3. CASE q # r
      <3>1. role[q].pw # x
        BY <1>1, <2>3 DEF GlobalInv, PasswordInv
      <3> QED BY <1>2, <1>4, <2>1, <2>3, <3>1 DEF GlobalInv, VaultCurrent, Answered
    <2> QED BY <2>2, <2>3
  <1> QED BY <1>6, <1>7, <1>8, <1>9, <1>10 DEF GlobalInv

\* The DELETE of the vault row takes effect, the last step of a drop.
LEMMA DeleteGlobal ==
    ASSUME CatalogTypeOK, LocalInv, GlobalInv, NEW x \in Drops,
           NEW r \in Role, r = call[x].owner, vault' = DeleteCredential(r),
           UNCHANGED <<db, role>>, faults' = 0 => faults = 0,
           NEW out, Goes(x, "done", call[x].made, out)
    PROVE  GlobalInv'
  <1> USE DEF RoleExists, DatabaseExists, At
  <1>1. x \in Caller /\ x \notin Creates /\ x \notin Rotates
    BY Kinds
  <1>2. vault'[r] = None /\ \A q \in Role : q # r => vault'[q] = vault[q]
    BY DEF DeleteCredential, CatalogTypeOK
  <1>3. \A q \in Role : OneLife(q)' => OneLife(q)
    BY OneLifeShrinks DEF Goes
  <1>4. (\A y \in Caller : y # x => call'[y] = call[y]) /\ call'[x].owner = r
    BY <1>1 DEF Goes, Moved
  <1>5. \A e \in Creates : e \in Caller /\ call'[e] = call[e]
    BY <1>1, <1>4, Kinds
  <1>6. PasswordInv'
    BY <1>1, PasswordFrame DEF Goes
  <1>7. OwnerInv'
    BY DEF GlobalInv, OwnerInv
  <1>8. DatabaseTrace' /\ VaultTrace'
    BY <1>2, <1>5, CatalogAssumption DEF GlobalInv, DatabaseTrace, VaultTrace, Kept
  <1>9. RoleTrace'
    BY <1>3, <1>5 DEF GlobalInv, RoleTrace, Kept
  <1>10. VaultCurrent'
    <2> SUFFICES ASSUME NEW q \in Role, role[q] # None, role[q].pw \in Caller,
                        call'[role[q].pw].pc = "done", call'[role[q].pw].outcome = "ok", OneLife(q)'
                 PROVE  vault'[q] = role[q].pw
      BY DEF VaultCurrent, Answered
    <2>1. q # r
      BY <1>4 DEF OneLife
    <2>2. role[q].pw # x
      BY <1>1 DEF GlobalInv, PasswordInv
    <2> QED BY <1>2, <1>3, <1>4, <2>1, <2>2 DEF GlobalInv, VaultCurrent, Answered
  <1> QED BY <1>6, <1>7, <1>8, <1>9, <1>10 DEF GlobalInv

----------------------------------------------------------------------------
(***************************************************************************)
(* Every action preserves the types of the catalog and GlobalInv.           *)
(***************************************************************************)

\* QuietGlobal for a step that makes nothing and keeps the names of its call.
LEMMA QuietStep ==
    ASSUME CatalogTypeOK, LocalInv, GlobalInv, NEW x \in Caller, NEW p, NEW out,
           Goes(x, p, call[x].made, out), call[x].pc # "done", p # "upsert",
           db' = db, role' = role, vault' = vault, faults' = 0 => faults = 0,
           out = "ok" => x \notin Creates \cup Rotates,
           x \in Creates /\ faults' = 0 => p \notin {"undoRole", "done"}
    PROVE  GlobalInv'
  BY QuietGlobal DEF Goes

\* The steps of a Create before it compensates.
LEMMA CreateForward ==
    ASSUME RequestsInv, NEW c \in Creates,
           \/ CreateCheck(c) \/ CreateRoleStep(c) \/ CreateDatabaseStep(c)
           \/ LockConnectStep(c) \/ InsertCredentialStep(c)
    PROVE  CatalogTypeOK' /\ GlobalInv'
  <1>1. c \in Caller /\ CatalogTypeOK /\ LocalInv /\ GlobalInv /\ RequestTypeOK
    BY Kinds DEF RequestsInv, LocalInv
  <1> USE <1>1
  <1>2. CASE CreateCheck(c)
    <2>1. PICK d \in Database, r \in Role : Moved(c, "createRole", d, r, {}, "none")
      BY <1>2, CreateCheckMoves
    <2>2. call[c].pc = "idle" /\ call[c].owner = None /\ call[c].database = None /\ call[c].made = {}
      <3>1. call[c] = IdleCall
        BY <1>2 DEF CreateCheck, At, LocalInv, PathInv
      <3> QED BY <3>1 DEF IdleCall
    <2>3. UNCHANGED <<db, role, vault, faults>>
      BY <1>2 DEF CreateCheck, catalogVars
    <2>4. GlobalInv'
      BY <2>1, <2>2, <2>3, QuietGlobal
    <2> QED BY <2>3, <2>4 DEF CatalogTypeOK
  <1>3. CASE CreateRoleStep(c)
    <2> DEFINE r == call[c].owner
    <2>1. At(c, "createRole") /\ r \in Role /\ UNCHANGED <<db, vault>> /\ call[c].pc = "createRole"
      BY <1>3 DEF CreateRoleStep, LocalInv, NameInv, CreateStep, At
    <2>2. CASE Answer(c, "conflict") /\ UNCHANGED <<role, faults>>
      <3>1. Moved(c, "done", call[c].database, call[c].owner, call[c].made, "conflict")
        BY <2>2, AnswerMoves DEF Outcome
      <3>2. call[c].made = {}
        BY <2>1 DEF LocalInv, PathInv
      <3>3. /\ \A e \in Database : faults' = 0 /\ DatabaseExists(e) => db[e].by # c
            /\ \A q \in Role : faults' = 0 /\ RoleExists(q) => role[q].by # c
        BY <2>2, <3>2 DEF GlobalInv, DatabaseTrace, RoleTrace
      <3>4. GlobalInv'
        BY <2>1, <2>2, <3>1, <3>3, QuietGlobal
      <3> QED BY <2>1, <2>2, <3>4 DEF CatalogTypeOK
    <2>3. ASSUME ~RoleExists(r), NEW reply \in Reply, Charge(reply),
                 role' = IF Took(reply) THEN CreateRole(r, c) ELSE role,
                 IF reply = "ok" THEN Made(c, "role", "createDatabase") ELSE Answer(c, "unavailable")
          PROVE  CatalogTypeOK' /\ GlobalInv'
      <3>1. /\ faults' \in 0 .. MaxFaults /\ (faults' = 0 => faults = 0)
            /\ reply # "ok" => faults' # 0
        BY <2>3, ChargeCounts
      <3>2. CatalogTypeOK'
        BY <2>1, <2>3, <3>1, RoleStatements DEF CatalogTypeOK
      <3>3. /\ reply = "ok" => Goes(c, "createDatabase", call[c].made \cup {"role"}, call[c].outcome)
            /\ reply # "ok" => Goes(c, "done", call[c].made, "unavailable")
        BY <2>3, MadeMoves, AnswerMoves DEF Goes, Step, Outcome
      <3>4. CASE Took(reply)
        BY <2>1, <2>3, <3>1, <3>2, <3>3, <3>4, CreateRoleGlobal
      <3>5. CASE ~Took(reply)
        <4>1. reply # "ok" /\ role' = role
          BY <2>3, <3>5 DEF Took
        <4>2. GlobalInv'
          BY <2>1, <3>1, <3>3, <4>1, QuietStep
        <4> QED BY <3>2, <4>2
      <3> QED BY <3>2, <3>4, <3>5
    <2> QED BY <1>3, <2>2, <2>3 DEF CreateRoleStep
  <1>4. CASE CreateDatabaseStep(c)
    <2> DEFINE d == call[c].database
               r == call[c].owner
    <2>1. /\ At(c, "createDatabase") /\ r \in Role /\ d \in Database
          /\ UNCHANGED <<role, vault>> /\ call[c].pc = "createDatabase"
      BY <1>4 DEF CreateDatabaseStep, LocalInv, NameInv, CreateStep, At
    <2>2. CASE (Undo(c, "conflict") \/ Undo(c, "unavailable")) /\ UNCHANGED <<db, faults>>
      <3>1. \/ Goes(c, "undoCredential", call[c].made, "conflict")
            \/ Goes(c, "undoCredential", call[c].made, "unavailable")
        BY <2>2, UndoMoves DEF Goes, Outcome
      <3>2. GlobalInv'
        BY <2>1, <2>2, <3>1, QuietStep
      <3> QED BY <2>1, <2>2, <3>2 DEF CatalogTypeOK
    <2>3. ASSUME RoleExists(r), ~DatabaseExists(d), NEW reply \in Reply, Charge(reply),
                 db' = IF Took(reply) THEN CreateDatabase(d, r, c) ELSE db,
                 IF reply = "ok" THEN Made(c, "database", "lockConnect") ELSE Undo(c, "unavailable")
          PROVE  CatalogTypeOK' /\ GlobalInv'
      <3>1. /\ faults' \in 0 .. MaxFaults /\ (faults' = 0 => faults = 0)
            /\ reply # "ok" => faults' # 0
        BY <2>3, ChargeCounts
      <3>2. CatalogTypeOK'
        BY <2>1, <2>3, <3>1, DatabaseStatements DEF CatalogTypeOK
      <3>3. /\ reply = "ok" => Goes(c, "lockConnect", call[c].made \cup {"database"}, call[c].outcome)
            /\ reply # "ok" => Goes(c, "undoCredential", call[c].made, "unavailable")
        BY <2>3, MadeMoves, UndoMoves DEF Goes, Step, Outcome
      <3>4. CASE Took(reply)
        BY <2>1, <2>3, <3>1, <3>2, <3>3, <3>4, CreateDatabaseGlobal
      <3>5. CASE ~Took(reply)
        <4>1. reply # "ok" /\ db' = db
          BY <2>3, <3>5 DEF Took
        <4>2. GlobalInv'
          BY <2>1, <3>1, <3>3, <4>1, QuietStep
        <4> QED BY <3>2, <4>2
      <3> QED BY <3>2, <3>4, <3>5
    <2> QED BY <1>4, <2>2, <2>3 DEF CreateDatabaseStep
  <1>5. CASE LockConnectStep(c)
    <2>1. /\ call[c].pc = "lockConnect" /\ call[c].pc # "done"
          /\ db' = db /\ role' = role /\ vault' = vault
      BY <1>5 DEF LockConnectStep, At
    <2>2. faults' \in 0 .. MaxFaults /\ (faults' = 0 => faults = 0)
      BY <1>5, ChargeCounts DEF LockConnectStep, ReadFails, Reply, CatalogTypeOK
    <2>3. Goto(c, "insertCredential") \/ Undo(c, "unavailable")
      BY <1>5 DEF LockConnectStep
    <2>4. \/ Goes(c, "insertCredential", call[c].made, call[c].outcome)
          \/ Goes(c, "undoCredential", call[c].made, "unavailable")
      BY <2>3, GotoMoves, UndoMoves DEF Goes, Step, Outcome
    <2>5. call[c].outcome # "ok"
      BY <2>1 DEF LocalInv, PathInv, At
    <2>6. GlobalInv'
      <3>1. CASE Goes(c, "insertCredential", call[c].made, call[c].outcome)
        BY <2>1, <2>2, <2>5, <3>1, QuietStep
      <3>2. CASE Goes(c, "undoCredential", call[c].made, "unavailable")
        BY <2>1, <2>2, <3>2, QuietStep
      <3> QED BY <2>4, <3>1, <3>2
    <2> QED BY <2>1, <2>2, <2>6 DEF CatalogTypeOK
  <1>6. CASE InsertCredentialStep(c)
    <2> DEFINE r == call[c].owner
    <2>1. /\ At(c, "insertCredential") /\ r \in Role
          /\ UNCHANGED <<db, role>> /\ call[c].pc = "insertCredential"
      BY <1>6 DEF InsertCredentialStep, LocalInv, NameInv, CreateStep, At
    <2>2. CASE Undo(c, "conflict") /\ UNCHANGED <<vault, faults>>
      <3>1. Goes(c, "undoCredential", call[c].made, "conflict")
        BY <2>2, UndoMoves DEF Goes, Outcome
      <3>2. GlobalInv'
        BY <2>1, <2>2, <3>1, QuietStep
      <3> QED BY <2>1, <2>2, <3>2 DEF CatalogTypeOK
    <2>3. ASSUME ~Saved(r), NEW reply \in Reply, Charge(reply),
                 vault' = IF Took(reply) THEN PutCredential(r, c) ELSE vault,
                 IF reply # "ok" THEN Undo(c, "unavailable") ELSE Answer(c, "ok")
          PROVE  CatalogTypeOK' /\ GlobalInv'
      <3>1. /\ faults' \in 0 .. MaxFaults /\ (faults' = 0 => faults = 0)
            /\ reply # "ok" => faults' # 0
        BY <2>3, ChargeCounts
      <3>2. CatalogTypeOK'
        BY <2>1, <2>3, <3>1, VaultStatements DEF CatalogTypeOK
      <3>3. /\ reply = "ok" => Goes(c, "done", call[c].made, "ok")
            /\ reply # "ok" => Goes(c, "undoCredential", call[c].made, "unavailable")
        BY <2>3, AnswerMoves, UndoMoves DEF Goes, Outcome
      <3>4. CASE Took(reply)
        BY <2>1, <2>3, <3>1, <3>2, <3>3, <3>4, InsertGlobal
      <3>5. CASE ~Took(reply)
        <4>1. reply # "ok" /\ vault' = vault
          BY <2>3, <3>5 DEF Took
        <4>2. /\ call[c].pc # "done" /\ db' = db /\ role' = role
              /\ Goes(c, "undoCredential", call[c].made, "unavailable")
          BY <2>1, <3>3, <4>1
        <4>3. GlobalInv'
          BY <3>1, <4>1, <4>2, QuietStep
        <4> QED BY <3>2, <4>3
      <3> QED BY <3>2, <3>4, <3>5
    <2> QED BY <1>6, <2>2, <2>3 DEF InsertCredentialStep
  <1> QED BY <1>2, <1>3, <1>4, <1>5, <1>6

\* compensateCreate: with no failed statement nothing of the create is left
\* when it answers, because a role that only it used owns no other database.
LEMMA CreateBackward ==
    ASSUME RequestsInv, NEW c \in Creates,
           UndoCredentialStep(c) \/ UndoDatabaseStep(c) \/ UndoRoleStep(c)
    PROVE  CatalogTypeOK' /\ GlobalInv'
  <1>1. c \in Caller /\ CatalogTypeOK /\ LocalInv /\ GlobalInv /\ RequestTypeOK
    BY Kinds DEF RequestsInv, LocalInv
  <1> USE <1>1
  <1>2. CASE UndoCredentialStep(c)
    <2>1. /\ call[c].pc # "done" /\ call[c].outcome # "ok"
          /\ db' = db /\ role' = role /\ vault' = vault /\ faults' = faults
      BY <1>2 DEF UndoCredentialStep, At, LocalInv, PathInv
    <2>2. Goes(c, "undoDatabase", call[c].made, call[c].outcome)
      BY <1>2, GotoMoves DEF UndoCredentialStep, Goes, Step
    <2>3. GlobalInv'
      BY <2>1, <2>2, QuietStep
    <2> QED BY <2>1, <2>3 DEF CatalogTypeOK
  <1>3. CASE UndoDatabaseStep(c)
    <2> DEFINE d == call[c].database
    <2>1. /\ call[c].pc = "undoDatabase" /\ call[c].pc # "done" /\ call[c].outcome # "ok"
          /\ d \in Database /\ role' = role /\ vault' = vault
      BY <1>3 DEF UndoDatabaseStep, At, LocalInv, PathInv, NameInv, CreateStep
    <2>2. Goes(c, "undoRole", call[c].made, call[c].outcome)
      BY <1>3, GotoMoves DEF UndoDatabaseStep, Goes, Step
    <2>3. faults' \in 0 .. MaxFaults /\ (faults' = 0 => faults = 0)
      BY <1>3, ChargeCounts DEF UndoDatabaseStep, CatalogTypeOK
    <2>4. CASE db' = DropDatabase(d)
      <3>1. GlobalInv'
        BY <2>1, <2>2, <2>3, <2>4, DropDatabaseGlobal
      <3>2. d \in Database /\ DropDatabase(d) \in [Database -> DatabaseRow \cup {None}]
        BY <2>1 DEF DropDatabase, CatalogTypeOK
      <3> QED BY <2>1, <2>3, <2>4, <3>1, <3>2 DEF CatalogTypeOK
    <2>5. CASE db' = db /\ (faults' = 0 => "database" \notin call[c].made)
      <3>1. \A e \in Database : faults' = 0 /\ DatabaseExists(e) => db[e].by # c
        BY <2>3, <2>5 DEF GlobalInv, DatabaseTrace
      <3>2. Moved(c, "undoRole", d, call[c].owner, call[c].made, call[c].outcome)
        BY <2>2 DEF Goes
      <3>3. GlobalInv'
        BY <2>1, <2>3, <2>5, <3>1, <3>2, QuietGlobal
      <3> QED BY <2>1, <2>3, <2>5, <3>3 DEF CatalogTypeOK
    <2>6. db' = DropDatabase(d) \/ (db' = db /\ (faults' = 0 => "database" \notin call[c].made))
      BY <1>3, ChargeCounts DEF UndoDatabaseStep, Took
    <2> QED BY <2>4, <2>5, <2>6
  <1>4. CASE UndoRoleStep(c)
    <2> DEFINE r == call[c].owner
    <2>1. /\ call[c].pc = "undoRole" /\ call[c].pc # "done" /\ call[c].outcome # "ok"
          /\ r \in Role /\ db' = db /\ vault' = vault /\ call[c].outcome \in Outcome
      BY <1>4 DEF UndoRoleStep, At, LocalInv, PathInv, NameInv, CreateStep, RequestTypeOK
    <2>2. Goes(c, "done", call[c].made, call[c].outcome)
      BY <1>4, <2>1, AnswerMoves DEF UndoRoleStep, Goes
    <2>3. faults' \in 0 .. MaxFaults /\ (faults' = 0 => faults = 0)
      BY <1>4, ChargeCounts DEF UndoRoleStep, CatalogTypeOK
    <2>4. CASE role' = DropRole(r) /\ "role" \in call[c].made /\ RoleUnowned(r)
      <3>1. GlobalInv'
        BY <2>1, <2>2, <2>3, <2>4, DropRoleGlobal DEF At
      <3>2. DropRole(r) \in [Role -> RoleRow \cup {None}]
        BY <2>1 DEF DropRole, CatalogTypeOK
      <3> QED BY <2>1, <2>3, <2>4, <3>1, <3>2 DEF CatalogTypeOK
    <2>5. CASE role' = role /\ (faults' = 0 => ~("role" \in call[c].made /\ RoleUnowned(r)))
      <3>1. \A e \in Database : faults = 0 /\ DatabaseExists(e) => db[e].by # c
        BY <2>1 DEF GlobalInv, DatabaseTrace, At
      <3>2. \A q \in Role : OneLife(q)' => OneLife(q)
        BY <2>2, OneLifeShrinks DEF Goes
      <3>3. ASSUME NEW q \in Role, faults' = 0, RoleExists(q), OneLife(q)', role[q].by = c
            PROVE  FALSE
        <4>1. /\ q = r /\ "role" \in call[c].made
              /\ \A e \in Database : DatabaseExists(e) /\ db[e].owner = r => db[e].by = c
          BY <2>3, <3>2, <3>3 DEF GlobalInv, RoleTrace
        <4>2. \A e \in Database : DatabaseExists(e) =>
                 db[e].owner # r /\ \A x \in db[e].objects : x.owner # r
          <5>1. \A e \in Database : DatabaseExists(e) => db[e].owner # r
            BY <2>3, <3>1, <3>3, <4>1
          <5>2. role[r].by # Initial
            BY <3>3, <4>1, Kinds, CatalogAssumption
          <5> QED BY <5>1, <5>2 DEF GlobalInv, OwnerInv
        <4>3. RoleUnowned(r)
          BY <4>2 DEF RoleUnowned
        <4> QED BY <2>5, <3>3, <4>1, <4>3
      <3>4. Moved(c, "done", call[c].database, r, call[c].made, call[c].outcome)
        BY <2>2 DEF Goes
      <3>5. GlobalInv'
        BY <2>1, <2>3, <2>5, <3>1, <3>3, <3>4, QuietGlobal
      <3> QED BY <2>1, <2>3, <2>5, <3>5 DEF CatalogTypeOK
    <2>6. \/ role' = DropRole(r) /\ "role" \in call[c].made /\ RoleUnowned(r)
          \/ role' = role /\ (faults' = 0 => ~("role" \in call[c].made /\ RoleUnowned(r)))
      BY <1>4, ChargeCounts DEF UndoRoleStep, Took
    <2> QED BY <2>4, <2>5, <2>6
  <1> QED BY <1>2, <1>3, <1>4

\* The steps of a Rotate.
LEMMA RotateGlobal ==
    ASSUME RequestsInv, NEW x \in Rotates, RotateNext(x)
    PROVE  CatalogTypeOK' /\ GlobalInv'
  <1>1. /\ x \in Caller /\ CatalogTypeOK /\ LocalInv /\ GlobalInv /\ RequestTypeOK
        /\ x \notin Creates /\ x \notin Drops
    BY Kinds DEF RequestsInv, LocalInv
  <1> USE <1>1
  <1>2. CASE RotateLookup(x)
    <2>1. PICK d \in Database, r \in Role : Moved(x, "lockOwner", d, r, {}, "none")
      BY <1>2, RotateLookupMoves
    <2>2. call[x].pc = "idle" /\ call[x].owner = None /\ call[x].database = None /\ call[x].made = {}
      <3>1. call[x] = IdleCall
        BY <1>2 DEF RotateLookup, At, LocalInv, PathInv
      <3> QED BY <3>1 DEF IdleCall
    <2>3. db' = db /\ role' = role /\ vault' = vault /\ faults' = faults
      BY <1>2 DEF RotateLookup, catalogVars
    <2>4. GlobalInv'
      BY <2>1, <2>2, <2>3, QuietGlobal
    <2> QED BY <2>3, <2>4 DEF CatalogTypeOK
  <1>3. CASE RotateLock(x)
    <2>1. /\ call[x].pc = "lockOwner" /\ call[x].pc # "done" /\ call[x].outcome # "ok"
          /\ db' = db /\ role' = role /\ vault' = vault /\ faults' = faults
      BY <1>3 DEF RotateLock, catalogVars, At, LocalInv, PathInv
    <2>2. \/ Goes(x, "done", call[x].made, "busy")
          \/ Goes(x, "alterRole", call[x].made, call[x].outcome)
      BY <1>3, GotoMoves, AnswerMoves DEF RotateLock, Goes, Step, Outcome
    <2>3. GlobalInv'
      BY <2>1, <2>2, QuietStep
    <2> QED BY <2>1, <2>3 DEF CatalogTypeOK
  <1>4. CASE RotateAlter(x)
    <2> DEFINE r == call[x].owner
    <2>1. /\ At(x, "alterRole") /\ call[x].pc # "done" /\ call[x].outcome # "ok"
          /\ r \in Role /\ db' = db /\ vault' = vault
      BY <1>4 DEF RotateAlter, At, LocalInv, PathInv, NameInv, RotateStep
    <2>2. CASE Answer(x, "unavailable") /\ UNCHANGED <<role, faults>>
      <3>1. Goes(x, "done", call[x].made, "unavailable") /\ role' = role /\ faults' = faults
        BY <2>2, AnswerMoves DEF Goes, Outcome
      <3>2. GlobalInv'
        BY <2>1, <3>1, QuietStep
      <3> QED BY <2>1, <2>2, <3>2 DEF CatalogTypeOK
    <2>3. ASSUME RoleExists(r), NEW reply \in Reply, Charge(reply),
                 role' = IF Took(reply) THEN AlterRolePassword(r, x) ELSE role,
                 IF reply = "ok" THEN Goto(x, "upsert") ELSE Answer(x, "unavailable")
          PROVE  CatalogTypeOK' /\ GlobalInv'
      <3>1. faults' \in 0 .. MaxFaults /\ (faults' = 0 => faults = 0)
        BY <2>3, ChargeCounts
      <3>2. CatalogTypeOK'
        BY <2>1, <2>3, <3>1, RoleStatements DEF CatalogTypeOK
      <3>3. /\ reply = "ok" => Goes(x, "upsert", call[x].made, call[x].outcome)
            /\ reply # "ok" => Goes(x, "done", call[x].made, "unavailable")
        BY <2>3, GotoMoves, AnswerMoves DEF Goes, Step, Outcome
      <3>4. CASE Took(reply)
        <4>1. role' = AlterRolePassword(r, x)
          BY <2>3, <3>4
        <4> QED BY <2>1, <2>3, <3>1, <3>2, <3>3, <4>1, AlterGlobal
      <3>5. CASE ~Took(reply)
        <4>1. role' = role /\ Goes(x, "done", call[x].made, "unavailable")
          BY <2>3, <3>3, <3>5 DEF Took
        <4>2. GlobalInv'
          <5>1. x \notin Creates
            BY Kinds
          <5>2. "unavailable" # "ok" /\ "done" # "upsert"
            OBVIOUS
          <5> QED BY <1>1, <2>1, <3>1, <4>1, <5>1, <5>2, QuietStep
        <4> QED BY <3>2, <4>2
      <3> QED BY <3>4, <3>5
    <2> QED BY <1>4, <2>2, <2>3 DEF RotateAlter
  <1>5. CASE RotateUpsert(x)
    <2> DEFINE r == call[x].owner
    <2>1. At(x, "upsert") /\ call[x].pc # "done" /\ r \in Role /\ db' = db /\ role' = role
      BY <1>5 DEF RotateUpsert, At, LocalInv, NameInv, RotateStep
    <2>2. PICK reply \in Reply :
             /\ Charge(reply)
             /\ vault' = IF Took(reply) THEN PutCredential(r, x) ELSE vault
             /\ Answer(x, IF reply = "ok" THEN "ok" ELSE "vaultUnsynced")
      BY <1>5 DEF RotateUpsert
    <2>3. faults' \in 0 .. MaxFaults /\ (faults' = 0 => faults = 0)
      BY <2>2, ChargeCounts
    <2>4. CatalogTypeOK'
      BY <2>1, <2>2, <2>3, VaultStatements DEF CatalogTypeOK
    <2>5. \/ Goes(x, "done", call[x].made, "ok") /\ reply = "ok"
          \/ Goes(x, "done", call[x].made, "vaultUnsynced")
      BY <2>2, AnswerMoves DEF Goes, Outcome
    <2>6. CASE Took(reply)
      <3>1. vault' = PutCredential(r, x)
        BY <2>2, <2>6
      <3> QED BY <2>1, <2>3, <2>4, <2>5, <3>1, UpsertGlobal
    <2>7. CASE ~Took(reply)
      <3>1. vault' = vault /\ Goes(x, "done", call[x].made, "vaultUnsynced")
        BY <2>2, <2>5, <2>7 DEF Took
      <3>2. GlobalInv'
        BY <2>1, <2>3, <3>1, QuietStep
      <3> QED BY <2>4, <3>2
    <2> QED BY <2>6, <2>7
  <1> QED BY <1>2, <1>3, <1>4, <1>5 DEF RotateNext

\* The steps of a Drop that change nothing in the catalog.
LEMMA QuietDrop ==
    ASSUME CatalogTypeOK, LocalInv, GlobalInv, NEW x \in Drops, DropNext(x),
           db' = db, role' = role, vault' = vault, faults' = 0 => faults = 0
    PROVE  GlobalInv'
  <1>1. x \in Caller /\ x \notin Creates /\ x \notin Rotates
    BY Kinds
  <1>2. At(x, "idle") => /\ call[x].owner = None /\ call[x].database = None /\ call[x].made = {}
                         /\ call[x].pc # "done"
    BY <1>1 DEF LocalInv, PathInv, IdleCall, At
  <1>3. call[x].pc = "gate" => call[x].owner = None
    BY <1>1 DEF LocalInv, PathInv
  <1>4. PICK p, d, o, m, out :
           /\ p \in DropStep \cup {"done"}
           /\ Moved(x, p, d, o, m, out)
           /\ call[x].owner \in {None, o} /\ call[x].database \in {None, d} /\ call[x].made \subseteq m
           /\ call[x].pc # "done"
    BY <1>2, <1>3, DropMoves DEF Goes, At, DropStep
  <1> QED BY <1>1, <1>4, QuietGlobal DEF DropStep

\* The steps of a Drop.
LEMMA DropGlobal ==
    ASSUME RequestsInv, NEW x \in Drops, DropNext(x)
    PROVE  CatalogTypeOK' /\ GlobalInv'
  <1>1. /\ x \in Caller /\ CatalogTypeOK /\ LocalInv /\ GlobalInv /\ RequestTypeOK
        /\ x \notin Creates /\ x \notin Rotates
    BY Kinds DEF RequestsInv, LocalInv
  <1> USE <1>1
  <1>2. ASSUME NEW o \in Outcome, DropEnds(x, o) PROVE Goes(x, "done", call[x].made, o)
    BY <1>2, AnswerMoves DEF DropEnds, Goes
  <1>3. CASE /\ db' = db /\ role' = role /\ vault' = vault
            /\ faults' \in 0 .. MaxFaults /\ (faults' = 0 => faults = 0)
    BY <1>3, QuietDrop DEF CatalogTypeOK
  <1>4. CASE DropLock(x) \/ DropLookup(x) \/ DropGate(x)
    <2>1. db' = db /\ role' = role /\ vault' = vault
      BY <1>4 DEF DropLock, DropLookup, DropGate, catalogVars
    <2>2. faults' = faults \/ Charge("error")
      BY <1>4 DEF DropLock, DropLookup, DropGate, catalogVars, ReadFails
    <2>3. faults' \in 0 .. MaxFaults /\ (faults' = 0 => faults = 0)
      BY <2>2, ChargeCounts DEF Reply, CatalogTypeOK
    <2> QED BY <1>3, <2>1, <2>3
  <1>5. CASE DropDatabaseStep(x)
    <2> DEFINE d == call[x].database
    <2>1. call[x].pc # "done" /\ d \in Database /\ role' = role /\ vault' = vault
      BY <1>5 DEF DropDatabaseStep, At, LocalInv, NameInv
    <2>2. CASE UNCHANGED <<db, faults>>
      BY <1>3, <2>1, <2>2 DEF CatalogTypeOK
    <2>3. ASSUME NEW reply \in Reply, Charge(reply),
                 db' = IF Took(reply) THEN DropDatabase(d) ELSE db,
                 IF reply = "ok" THEN Goto(x, "dropRole") ELSE DropEnds(x, "unavailable")
          PROVE  CatalogTypeOK' /\ GlobalInv'
      <3>1. faults' \in 0 .. MaxFaults /\ (faults' = 0 => faults = 0)
        BY <2>3, ChargeCounts
      <3>2. \/ Goes(x, "dropRole", call[x].made, call[x].outcome)
            \/ Goes(x, "done", call[x].made, "unavailable")
        BY <1>2, <2>3, GotoMoves DEF Goes, Step, Outcome
      <3>3. CASE Took(reply)
        <4>1. db' = DropDatabase(d)
          BY <2>3, <3>3
        <4>2. GlobalInv'
          BY <2>1, <3>1, <3>2, <4>1, DropDatabaseGlobal
        <4>3. DropDatabase(d) \in [Database -> DatabaseRow \cup {None}]
          BY <2>1 DEF DropDatabase, CatalogTypeOK
        <4> QED BY <2>1, <3>1, <4>1, <4>2, <4>3 DEF CatalogTypeOK
      <3>4. CASE ~Took(reply)
        BY <1>3, <2>1, <2>3, <3>1, <3>4
      <3> QED BY <3>3, <3>4
    <2> QED BY <1>5, <2>2, <2>3 DEF DropDatabaseStep
  <1>6. CASE DropRoleStep(x)
    <2> DEFINE r == call[x].owner
    <2>1. call[x].pc # "done" /\ r \in Role /\ db' = db /\ vault' = vault
      BY <1>6 DEF DropRoleStep, At, LocalInv, NameInv
    <2>2. CASE UNCHANGED role /\ (UNCHANGED faults \/ ReadFails)
      <3>1. faults' \in 0 .. MaxFaults /\ (faults' = 0 => faults = 0)
        BY <2>2, ChargeCounts DEF ReadFails, Reply, CatalogTypeOK
      <3> QED BY <1>3, <2>1, <2>2, <3>1
    <2>3. ASSUME RoleUnowned(r), NEW reply \in Reply, Charge(reply),
                 role' = IF Took(reply) THEN DropRole(r) ELSE role,
                 IF reply = "ok" THEN Goto(x, "deleteCredential") ELSE DropEnds(x, "roleDropFailed")
          PROVE  CatalogTypeOK' /\ GlobalInv'
      <3>1. faults' \in 0 .. MaxFaults /\ (faults' = 0 => faults = 0)
        BY <2>3, ChargeCounts
      <3>2. \/ Goes(x, "deleteCredential", call[x].made, call[x].outcome)
            \/ Goes(x, "done", call[x].made, "roleDropFailed")
        BY <1>2, <2>3, GotoMoves DEF Goes, Step, Outcome
      <3>3. CASE Took(reply)
        <4>1. role' = DropRole(r)
          BY <2>3, <3>3
        <4>2. GlobalInv'
          BY <2>1, <2>3, <3>1, <3>2, <4>1, DropRoleGlobal
        <4>3. DropRole(r) \in [Role -> RoleRow \cup {None}]
          BY <2>1 DEF DropRole, CatalogTypeOK
        <4> QED BY <2>1, <3>1, <4>1, <4>2, <4>3 DEF CatalogTypeOK
      <3>4. CASE ~Took(reply)
        BY <1>3, <2>1, <2>3, <3>1, <3>4
      <3> QED BY <3>3, <3>4
    <2> QED BY <1>6, <2>2, <2>3 DEF DropRoleStep
  <1>7. CASE DropCredentialStep(x)
    <2> DEFINE r == call[x].owner
    <2>1. r \in Role /\ db' = db /\ role' = role
      BY <1>7 DEF DropCredentialStep, At, LocalInv, NameInv
    <2>2. PICK reply \in Reply :
             /\ Charge(reply)
             /\ vault' = IF Took(reply) THEN DeleteCredential(r) ELSE vault
             /\ DropEnds(x, IF reply = "ok" THEN "ok" ELSE "vaultDeleteFailed")
      BY <1>7 DEF DropCredentialStep
    <2>3. faults' \in 0 .. MaxFaults /\ (faults' = 0 => faults = 0)
      BY <2>2, ChargeCounts
    <2>4. Goes(x, "done", call[x].made, "ok") \/ Goes(x, "done", call[x].made, "vaultDeleteFailed")
      BY <1>2, <2>2 DEF Outcome
    <2>5. CASE Took(reply)
      <3>1. vault' = DeleteCredential(r)
        BY <2>2, <2>5
      <3>2. GlobalInv'
        BY <2>1, <2>3, <2>4, <3>1, DeleteGlobal
      <3>3. DeleteCredential(r) \in [Role -> Maker \cup {None}]
        BY <2>1 DEF DeleteCredential, CatalogTypeOK
      <3> QED BY <2>1, <2>3, <3>1, <3>2, <3>3 DEF CatalogTypeOK
    <2>6. CASE ~Took(reply)
      BY <1>3, <2>1, <2>2, <2>3, <2>6
    <2> QED BY <2>5, <2>6
  <1> QED BY <1>4, <1>5, <1>6, <1>7 DEF DropNext

\* The steps of a Truncate change nothing in the catalog.
LEMMA TruncateGlobal ==
    ASSUME RequestsInv, NEW x \in Truncates, TruncateNext(x)
    PROVE  CatalogTypeOK' /\ GlobalInv'
  <1>1. /\ x \in Caller /\ CatalogTypeOK /\ LocalInv /\ GlobalInv
        /\ x \notin Creates /\ x \notin Rotates
    BY Kinds DEF RequestsInv
  <1>2. db' = db /\ role' = role /\ vault' = vault /\ faults' = faults
    BY <1>1, TruncateMoves DEF catalogVars
  <1>3. At(x, "idle") => /\ call[x].owner = None /\ call[x].database = None /\ call[x].made = {}
                         /\ call[x].pc # "done"
    BY <1>1 DEF LocalInv, PathInv, IdleCall, At
  <1>4. PICK p, d, o, m, out :
           /\ p \in {"truncate", "done"}
           /\ Moved(x, p, d, o, m, out)
           /\ call[x].owner \in {None, o} /\ call[x].database \in {None, d} /\ call[x].made \subseteq m
           /\ call[x].pc # "done"
    BY <1>1, <1>3, TruncateMoves DEF Goes, At
  <1>5. GlobalInv'
    BY <1>1, <1>2, <1>4, QuietGlobal
  <1> QED BY <1>1, <1>2, <1>5 DEF CatalogTypeOK

\* A dying process: what its calls wrote stays theirs, and none answers "ok".
LEMMA KilledGlobal ==
    ASSUME RequestsInv, RequestsKilled, UNCHANGED catalogVars
    PROVE  CatalogTypeOK' /\ GlobalInv'
  <1> USE DEF At, RoleExists, DatabaseExists
  <1>1. db' = db /\ role' = role /\ vault' = vault /\ faults' = faults
    BY DEF catalogVars
  <1>2. \A x \in Caller : /\ call'[x].owner = call[x].owner
                          /\ call'[x].database = call[x].database
                          /\ call'[x].made = call[x].made
                          /\ call'[x].pc \in {"idle", "done"}
                          /\ \/ call'[x] = call[x] /\ call[x].pc \in {"idle", "done"}
                             \/ call'[x].outcome = "killed" /\ call[x].pc # "done"
    BY KilledCalls DEF RequestsInv, LocalInv
  <1>3. \A r \in Role : OneLife(r)' = OneLife(r)
    BY <1>2, Kinds DEF OneLife
  <1>4. PasswordInv' /\ OwnerInv'
    BY <1>1, <1>2, Kinds DEF RequestsInv, GlobalInv, PasswordInv, OwnerInv
  <1>5. DatabaseTrace'
    BY <1>1, <1>2, Kinds DEF RequestsInv, GlobalInv, DatabaseTrace, Kept
  <1>6. RoleTrace'
    BY <1>1, <1>2, <1>3, Kinds DEF RequestsInv, GlobalInv, RoleTrace, Kept
  <1>7. VaultTrace'
    BY <1>1, <1>2, Kinds DEF RequestsInv, GlobalInv, VaultTrace, Kept
  <1>8. VaultCurrent'
    BY <1>1, <1>2, <1>3 DEF RequestsInv, GlobalInv, VaultCurrent, Answered
  <1> QED BY <1>1, <1>4, <1>5, <1>6, <1>7, <1>8 DEF RequestsInv, GlobalInv, CatalogTypeOK

\* The roles that own something at the start are there.
LEMMA InitRolesThere ==
    ASSUME CatalogInit, NEW d \in DOMAIN InitOwner
    PROVE  /\ InitOwner[d] \in Role /\ role[InitOwner[d]] # None
           /\ \A x \in InitObjects[d] : x.owner \in Role /\ role[x.owner] # None
  <1>1. None # [by |-> Initial, pw |-> Initial]
    BY CatalogAssumption DEF RoleRow, Maker
  <1>2. /\ InitOwner[d] \in Role /\ InitOwner[d] \in InitRoles
        /\ \A x \in InitObjects[d] : x.owner \in Role /\ x.owner \in InitRoles
    <2>1. InitOwner[d] \in Role /\ InitObjects[d] \subseteq Object
      BY CatalogAssumption
    <2>2. \A x \in InitObjects[d] : x.owner \in Role
      BY <2>1 DEF Object
    <2>3. {InitOwner[d]} \cup {x.owner : x \in InitObjects[d]} \subseteq InitRoles
      BY DEF InitRoles
    <2> QED BY <2>1, <2>2, <2>3
  <1>3. \A r \in Role : r \in InitRoles => role[r] = [by |-> Initial, pw |-> Initial]
    BY DEF CatalogInit
  <1> QED BY <1>1, <1>2, <1>3

\* At the start everything was made by nobody's call, and owners exist.
LEMMA GlobalInit == RequestsInit => CatalogTypeOK /\ GlobalInv
  <1> SUFFICES ASSUME RequestsInit PROVE CatalogTypeOK /\ GlobalInv
    OBVIOUS
  <1> USE DEF RoleExists, DatabaseExists
  <1>1. \A d \in Database : db[d] # None =>
           /\ d \in DOMAIN InitOwner /\ db[d].owner = InitOwner[d]
           /\ db[d].objects = InitObjects[d] /\ db[d].by = Initial
    BY DEF RequestsInit, CatalogInit
  <1>2. \A r \in Role : role[r] # None => role[r].by = Initial /\ role[r].pw = Initial
    BY DEF RequestsInit, CatalogInit
  <1>3. \A d \in DOMAIN InitOwner :
           /\ InitOwner[d] \in Role /\ role[InitOwner[d]] # None
           /\ \A x \in InitObjects[d] : x.owner \in Role /\ role[x.owner] # None
    BY InitRolesThere DEF RequestsInit
  <1>4. \A r \in Role : vault[r] \in {Initial, None}
    BY DEF RequestsInit, CatalogInit
  <1>5. Initial \notin Caller /\ None \notin Caller /\ Creates \subseteq Caller
    BY CatalogAssumption, Kinds
  <1>6. \A x \in Caller : call[x].pc = "idle"
    BY DEF RequestsInit, RequestInit, IdleCall
  <1>7. CatalogTypeOK
    <2>1. \A d \in DOMAIN InitOwner :
             [owner |-> InitOwner[d], objects |-> InitObjects[d], by |-> Initial] \in DatabaseRow
      BY CatalogAssumption DEF DatabaseRow, Maker
    <2>2. db \in [Database -> DatabaseRow \cup {None}]
      BY <2>1 DEF RequestsInit, CatalogInit
    <2> QED BY <2>2, CatalogAssumption DEF RequestsInit, CatalogInit, CatalogTypeOK, RoleRow, Maker
  <1>8. PasswordInv /\ OwnerInv
    BY <1>1, <1>2, <1>3, <1>5, <1>6, Kinds DEF PasswordInv, OwnerInv, At
  <1>9. DatabaseTrace /\ RoleTrace /\ VaultTrace
    BY <1>1, <1>2, <1>4, <1>5 DEF DatabaseTrace, RoleTrace, VaultTrace
  <1>10. VaultCurrent
    BY <1>2, <1>5 DEF VaultCurrent
  <1> QED BY <1>7, <1>8, <1>9, <1>10 DEF GlobalInv

\* Every step preserves the invariant, one kind of call after the other.
LEMMA RequestsStep ==
    ASSUME RequestsInv, [RequestsNext]_<<catalogVars, requestVars>>
    PROVE  RequestsInv'
  <1>1. ASSUME NEW c \in Creates, CreateNext(c) PROVE RequestsInv'
    BY <1>1, CreateLocal, CreateForward, CreateBackward DEF RequestsInv, CreateNext
  <1>2. ASSUME NEW x \in Rotates, RotateNext(x) PROVE RequestsInv'
    BY <1>2, RotateLocal, RotateGlobal DEF RequestsInv
  <1>3. ASSUME NEW x \in Drops, DropNext(x) PROVE RequestsInv'
    BY <1>3, DropLocal, DropGlobal DEF RequestsInv
  <1>4. ASSUME NEW x \in Truncates, TruncateNext(x) PROVE RequestsInv'
    BY <1>4, TruncateLocal, TruncateGlobal DEF RequestsInv
  <1>5. CASE RequestsKilled /\ UNCHANGED catalogVars
    BY <1>5, KilledLocal, KilledGlobal DEF RequestsInv
  <1>6. CASE UNCHANGED <<catalogVars, requestVars>>
    <2> USE <1>6 DEF catalogVars, requestVars, At, RoleExists, DatabaseExists
    <2>1. LocalInv'
      BY DEF RequestsInv, LocalInv, RequestTypeOK, PathInv, NameInv, LockInv
    <2>2. GlobalInv'
      BY DEF RequestsInv, GlobalInv, PasswordInv, OwnerInv, DatabaseTrace, RoleTrace, VaultTrace,
             VaultCurrent, OneLife, Kept, Answered
    <2>3. CatalogTypeOK'
      BY DEF RequestsInv, CatalogTypeOK
    <2> QED BY <2>1, <2>2, <2>3 DEF RequestsInv
  <1> QED BY <1>1, <1>2, <1>3, <1>4, <1>5, <1>6 DEF RequestsNext, RequestNext

\* The invariant holds in every state the four services can reach together.
THEOREM RequestsInvariant == RequestsSpec => []RequestsInv
  <1>1. RequestsInit => RequestsInv
    BY LocalInit, GlobalInit DEF RequestsInit, RequestsInv
  <1>2. RequestsInv /\ [RequestsNext]_<<catalogVars, requestVars>> => RequestsInv'
    BY RequestsStep
  <1> QED BY <1>1, <1>2, PTL DEF RequestsSpec

\* Every call of Create, Rotate, Drop and Truncate and every row they write
\* keeps its type.
THEOREM RequestsTypeCorrect == RequestsSpec => []RequestsTypeOK
  <1>1. RequestsInv => RequestsTypeOK
    BY DEF RequestsInv, LocalInv, RequestsTypeOK
  <1> QED BY <1>1, RequestsInvariant, PTL

\* lockDrop and lockTruncate exclude each other: no database is dropped while
\* a TRUNCATE of it runs.
THEOREM DropAndTruncateExclude == RequestsSpec => []DropTruncateExclusive
  <1>1. RequestsInv => DropTruncateExclusive
    BY Kinds DEF RequestsInv, LocalInv, LockInv, DropTruncateExclusive, DropStep, At
  <1> QED BY <1>1, RequestsInvariant, PTL

\* Reveal shows a password that works: a Create or Rotate answered with success
\* whose password a role has left that password in the vault.
THEOREM VaultIsCurrent == RequestsSpec => []VaultCurrent
  <1>1. RequestsInv => VaultCurrent
    BY DEF RequestsInv, GlobalInv
  <1> QED BY <1>1, RequestsInvariant, PTL

\* compensateCreate is enough: as long as no statement failed, a refused Create
\* has left no database, no vault row and no role of its own.
THEOREM RefusedCreateIsUndone == RequestsSpec => []RefusedCreateLeavesNothing
  <1>1. RequestsInv => RefusedCreateLeavesNothing
    BY DEF RequestsInv, GlobalInv, DatabaseTrace, RoleTrace, VaultTrace, Kept,
           RefusedCreateLeavesNothing
  <1> QED BY <1>1, RequestsInvariant, PTL

\* A step of a call writes the database and the owner it names, and no other.
LEMMA WritesItsOwn ==
    ASSUME CatalogTypeOK, NEW x \in Caller,
           \/ CreateNext(x) \/ RotateNext(x) \/ DropNext(x) \/ TruncateNext(x)
    PROVE  /\ db' # db => call[x].pc \in {"createDatabase", "undoDatabase", "dropDatabase"}
           /\ role' # role => call[x].pc \in {"createRole", "undoRole", "alterRole", "dropRole"}
           /\ vault' # vault =>
                 call[x].pc \in {"insertCredential", "undoCredential", "upsert", "deleteCredential"}
           /\ \A d \in Database : d # call[x].database => db'[d] = db[d]
           /\ \A r \in Role : r # call[x].owner => role'[r] = role[r] /\ vault'[r] = vault[r]
  <1> USE DEF At, catalogVars, CatalogTypeOK, CreateRole, AlterRolePassword, DropRole,
              CreateDatabase, DropDatabase, PutCredential, DeleteCredential
  <1>1. CASE CreateNext(x)
    BY <1>1 DEF CreateNext, CreateCheck, CreateRoleStep, CreateDatabaseStep, LockConnectStep,
         InsertCredentialStep, UndoCredentialStep, UndoDatabaseStep, UndoRoleStep
  <1>2. CASE RotateNext(x)
    BY <1>2 DEF RotateNext, RotateLookup, RotateLock, RotateAlter, RotateUpsert
  <1>3. CASE DropNext(x)
    BY <1>3 DEF DropNext, DropLock, DropLookup, DropGate, DropDatabaseStep, DropRoleStep,
         DropCredentialStep
  <1>4. CASE TruncateNext(x)
    BY <1>4 DEF TruncateNext, TruncateLock, TruncateStep
  <1> QED BY <1>1, <1>2, <1>3, <1>4

\* A step of a request leaves alone what the policy protects.
LEMMA RequestUntouched ==
    ASSUME CatalogTypeOK, NameInv, NEW x \in Requester,
           CreateNext(x) \/ RotateNext(x) \/ DropNext(x) \/ TruncateNext(x)
    PROVE  /\ \A d \in DeniedDb : db'[d] = db[d]
           /\ \A r \in DeniedRole : role'[r] = role[r] /\ vault'[r] = vault[r]
  <1>1. x \in Caller /\ DeniedDb \subseteq Database /\ DeniedRole \subseteq Role
    BY Kinds, CatalogAssumption
  <1>2. db' # db => call[x].database \notin DeniedDb
    BY <1>1, WritesItsOwn DEF NameInv, CreateStep
  <1>3. call[x].owner \notin DeniedRole
    BY DEF NameInv
  <1> QED BY <1>1, <1>2, <1>3, WritesItsOwn

\* The policy holds at the time of the write, not only when the request is
\* checked: no protected database, role or vault row ever changes.
THEOREM ProtectedStayUntouched == RequestsSpec => ProtectedUntouched
  <1> DEFINE Untouched == /\ \A d \in DeniedDb : db'[d] = db[d]
                          /\ \A r \in DeniedRole : role'[r] = role[r] /\ vault'[r] = vault[r]
  <1>1. ASSUME RequestsInv, RequestsNext PROVE Untouched
    <2>1. ASSUME NEW x \in Requester,
                 CreateNext(x) \/ RotateNext(x) \/ DropNext(x) \/ TruncateNext(x)
          PROVE  Untouched
      BY <1>1, <2>1, RequestUntouched DEF RequestsInv, LocalInv
    <2>2. CASE UNCHANGED catalogVars
      BY <2>2 DEF catalogVars
    <2> QED BY <1>1, <2>1, <2>2 DEF RequestsNext, RequestNext
  <1>2. RequestsInv /\ [RequestsNext]_<<catalogVars, requestVars>>
           => [Untouched]_<<catalogVars, requestVars>>
    BY <1>1
  <1> QED BY <1>2, RequestsInvariant, PTL DEF RequestsSpec, ProtectedUntouched
=============================================================================

--------------------------- MODULE PostgresCatalog ---------------------------
(***************************************************************************)
(* The PostgreSQL cluster as internal/postgresadmin sees it through its     *)
(* Catalog interface: the databases, the login roles, and the rows of the   *)
(* credential vault public.project_credentials, which is a table of another *)
(* database and shares no transaction with the first two.                   *)
(*                                                                          *)
(* Every statement runs alone (CREATE DATABASE and DROP DATABASE cannot run *)
(* in a transaction block). A statement is answered "ok", answered "error"  *)
(* without effect, or "lost": it took effect, but the caller saw an error   *)
(* (a timeout or a broken connection after the server executed it).         *)
(***************************************************************************)
EXTENDS Naturals, FiniteSets

CONSTANTS
    Database,     \* database names
    Role,         \* role names
    DeniedDb,     \* the policy's protected databases
    DeniedRole,   \* the policy's protected roles
    Superuser,    \* the superusers
    Caller,       \* identities of the service calls that may run
    Initial,      \* stands for whoever made what is there at the start
    None,         \* no such database, role or vault row
    InitOwner,    \* the databases that exist at the start, with their owner
    InitObjects,  \* and with what is in them
    InitSaved,    \* the roles that have a vault row at the start
    MaxFaults     \* bound on the statements that fail

Maker == Caller \cup {Initial}

\* Objects in a database differ in who owns them, and in whether they are
\* SECURITY DEFINER routines or members of an extension (fixed).
Object == [owner : Role, fixed : BOOLEAN]
DatabaseRow == [owner : Role, objects : SUBSET Object, by : Maker]
RoleRow == [by : Maker, pw : Maker]

ASSUME CatalogAssumption ==
    /\ DeniedDb \subseteq Database
    /\ DeniedRole \subseteq Role /\ Superuser \subseteq Role
    /\ DOMAIN InitOwner \subseteq Database
    \* a superuser owns objects and no database
    /\ \A d \in DOMAIN InitOwner : InitOwner[d] \in Role \ Superuser
    /\ InitObjects \in [DOMAIN InitOwner -> SUBSET Object]
    /\ InitSaved \subseteq Role
    /\ Initial \notin Caller /\ None \notin Caller \cup {Initial}
    /\ None \notin Database \cup Role \cup DatabaseRow \cup RoleRow
    /\ MaxFaults \in Nat

VARIABLES
    db,      \* pg_database: owner, the objects inside, creator
    role,    \* pg_roles: who created it, whose generated password it has
    vault,   \* project_credentials: whose generated password is stored
    faults   \* statements that failed so far

catalogVars == <<db, role, vault, faults>>

CatalogTypeOK ==
    /\ db \in [Database -> DatabaseRow \cup {None}]
    /\ role \in [Role -> RoleRow \cup {None}]
    /\ vault \in [Role -> Maker \cup {None}]
    /\ faults \in 0 .. MaxFaults

InitRoles ==
    UNION {{InitOwner[d]} \cup {x.owner : x \in InitObjects[d]} : d \in DOMAIN InitOwner}
        \cup DeniedRole \cup Superuser

CatalogInit ==
    /\ db = [d \in Database |->
                IF d \in DOMAIN InitOwner
                THEN [owner |-> InitOwner[d], objects |-> InitObjects[d], by |-> Initial]
                ELSE None]
    /\ role = [r \in Role |->
                IF r \in InitRoles THEN [by |-> Initial, pw |-> Initial] ELSE None]
    /\ vault = [r \in Role |-> IF r \in InitSaved THEN Initial ELSE None]
    /\ faults = 0

----------------------------------------------------------------------------
(***************************************************************************)
(* How a statement is answered.                                             *)
(***************************************************************************)
Reply == {"ok", "error", "lost"}

\* A failing statement uses up one fault.
Charge(reply) ==
    /\ reply # "ok" => faults < MaxFaults
    /\ faults' = IF reply = "ok" THEN faults ELSE faults + 1

Took(reply) == reply # "error"

\* A call that only reads either answers or fails.
ReadFails == Charge("error")

(***************************************************************************)
(* What the catalog answers, and what its statements do.                    *)
(***************************************************************************)
DatabaseExists(d) == db[d] # None
RoleExists(r)     == role[r] # None
Saved(r)          == vault[r] # None

OwnedDatabaseCount(r) ==
    Cardinality({d \in Database : DatabaseExists(d) /\ db[d].owner = r})

\* Mutant of Manageable: the policy is not asked.
AnyDatabase(d) == DatabaseExists(d)

\* Lookup finds d and the policy lets it be managed.
Manageable(d) ==
    /\ DatabaseExists(d)
    /\ d \notin DeniedDb
    /\ db[d].owner \notin DeniedRole

CreateRole(r, x) == [role EXCEPT ![r] = [by |-> x, pw |-> x]]
AlterRolePassword(r, x) == [role EXCEPT ![r].pw = x]
DropRole(r) == [role EXCEPT ![r] = None]

\* DROP ROLE is refused while the role owns a database or objects in one.
RoleUnowned(r) ==
    \A d \in Database : DatabaseExists(d) =>
        db[d].owner # r /\ \A x \in db[d].objects : x.owner # r

\* What a project makes in a database of its own.
ProjectObjects(r) == {[owner |-> r, fixed |-> FALSE]}

\* Mutant of CreateDatabase: two arguments swapped.
CreateDatabaseSwapped(d, r, x) ==
    [db EXCEPT ![d] = [owner |-> x, objects |-> ProjectObjects(r), by |-> r]]

CreateDatabase(d, r, x) ==
    [db EXCEPT ![d] = [owner |-> r, objects |-> ProjectObjects(r), by |-> x]]

\* Mutant of CreateDatabaseTemplate: source and owner swapped.
TemplateSwapped(d, src, r, x) ==
    [db EXCEPT ![d] = [owner |-> src, objects |-> db[src].objects, by |-> x]]

\* The clone belongs to the new owner; the objects copied into it still
\* belong to whoever owns them in the source.
CreateDatabaseTemplate(d, src, r, x) ==
    [db EXCEPT ![d] = [owner |-> r, objects |-> db[src].objects, by |-> x]]

skipCloneTransferOwner(r) == r \in DeniedRole \cup Superuser

\* What the queries of the transfer pass over keeps its cloned owner.
Retained(x) == x.fixed \/ skipCloneTransferOwner(x.owner)

Transferred(x, r) == IF Retained(x) THEN x ELSE [x EXCEPT !.owner = r]

TransferCloneOwnership(d, r) ==
    [db EXCEPT ![d].objects = {Transferred(x, r) : x \in db[d].objects}]

DropDatabase(d) == [db EXCEPT ![d] = None]

PutCredential(r, x) == [vault EXCEPT ![r] = x]
DeleteCredential(r) == [vault EXCEPT ![r] = None]
=============================================================================

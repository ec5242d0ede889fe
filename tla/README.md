# Redgres: formal models, checks and proofs

Redgres is a Go control plane for one PostgreSQL cluster and one Redis server. A
single process serves an HTTP API and an embedded React interface, keeps its own
state in SQLite, and changes PostgreSQL, Redis, Cloudflare and the host through
administrative connections. None of those share a transaction with SQLite, so most
of what can go wrong is a sequence of steps cut short, or two sequences interleaved.

This directory models those sequences: the project databases and the durable ledger
behind duplication with the recovery of a restarted process; who is let in (owner,
lockout, sessions, tool gates); the Redis users; the domain wizard with Cloudflare, the
certificate helper and the bootstrap port; and the control database with its migrations,
backup and retention. Paths below are relative to `src/`.

## 1. Inventory

| Component | State | Operations | Interacts with | Hard behaviour | What makes it correct |
|---|---|---|---|---|---|
| Operations ledger, `internal/operations` | tables `operations`, `operation_locks` | InsertQueued, Transition, Reconcile, pruneTerminal, ListQueued | HTTP handler, worker, start-up | concurrent inserts, crash between transitions, retention at its cap | locks exclusive and held exactly while needed; outcomes final |
| Duplicate worker, `internal/postgresadmin/worker.go`, `duplicate.go`, `probe.go` | rows in hand, created flags | poll, claim, clone, transfer, compensate, probe | ledger, PostgreSQL | crash anywhere, lost replies, cleanup that fails | failed leaves no access, succeeded is whole, every row settles |
| PostgreSQL calls, `create.go`, `rotate.go`, `drop.go`, `truncate.go` | three TryLock maps | Create, Rotate, Drop, Truncate | PostgreSQL, vault, backup gate | check then act, two systems without a transaction | vault holds the current password; losers clean up; protected names untouched |
| Catalog adapter, `adapter.go`, `policy.go` | PostgreSQL itself | SQL statements | PostgreSQL | statement took effect but the answer was lost | each statement does one thing |
| Auth, `internal/auth`, `httpapi/auth_routes.go` | `owners`, `sessions`, `login_attempts` | login, logout, password change, CSRF rotation, lockout, replace owner | every handler | concurrent logins, attempts counted before a slow hash, rows read and used later | guesses bounded, sessions end and stay ended |
| Tool gates, `internal/toolgate` | tickets, tool sessions in memory | issue, consume, validate | launch handler, browser | one ticket presented twice, restart | one use, one tool, before expiry |
| Redis users, `internal/redisadmin`, `httpapi/redis_users_routes.go` | the ACL of the Redis server | create, update, enable, disable, rotate, delete | Redis | ACL LIST, then SETUSER; retries and late commands | retired passwords stay dead; grants are one request's; system users untouched |
| Domain wizard, `httpapi/domain_*.go`, `internal/cloudflare` | deployment row, secret files, Cloudflare resources | token, apply, access policy, confirm, certificate, disconnect, manual mode, OAuth | Cloudflare, TLS helper, bootstrap | remote steps that fail one by one, retries, timeouts | nothing forgotten at Cloudflare; disconnect can be resumed |
| TLS, `internal/tlsops`, `deploy/systemd/issue-tls.sh` | request, claim and result files, root copy of the DNS token | queue, claim, issue, clean up | handlers, Certbot | claim racing a newer request, kill between two files | no request it can see is swallowed |
| Bootstrap listener, `internal/bootstrap` | port, timer, marker, environment file | start, TTL, confirm, shutdown | server, wizard | restart while it closes | closed stays closed |
| Control database, `internal/database` | the SQLite file | open, migrate, write | server, create-owner | two builds migrate at once | one lineage of migrations |
| Control backup, `cmd/redgres/backup.go`, `internal/backupops`, `sqlite_backup.go`, `sqlite_restore.go` | snapshot directories | copy, hash, restore check, prune | control database | commits during the copy, damage, clock steps, kills | a backup holds one real state; the last good one is never pruned |
| Drop gate, `internal/backup` | manifest, artifacts | evaluate, verify | Drop | | nothing is dropped without a fresh verified backup |
| HTTP server, audit, config, secure files, secrets, installer, web | | | | | see `PROJECT.json` for why each is left out |

`PROJECT.json` lists every component with its status and, under `hazards`, what is
hard to test, at the line where it bites.

## 2. The modules

    OperationStore --------- OperationStoreProofs ---\
           \                                          \
            DuplicateJob --------------------------- DuplicateJobProofs
           /                                          /
    PostgresCatalog --- PostgresRequests --- PostgresRequestsProofs

    ToolGate --- OwnerAccess --- OwnerAccessProofs
        \                         /
         ToolGateProofs ---------/           RedisUsers --- RedisUsersProofs

    TLSHelper ---------\
                        DomainWizard --- DomainWizardProofs
    BootstrapListener -/

    ControlState --- ControlBackup --- ControlBackupProofs
                         |  implements
                    BackupPromise

**OperationStore** is the ledger. `status`, `claim` (the resources a row names), `held`
(its lock rows) and `finishedAt` are columns; `InsertQueued`, `Transition` and
`pruneTerminal` are the three transactions of `store.go`. The pool has one connection,
so a transaction is a step. Any caller may call anything, so what holds here holds for
every caller.

**PostgresCatalog** is the environment: databases (owner, the objects inside with their
owners, creator), roles (creator and whose generated password they have) and vault rows. A
statement is answered `ok`, fails (`error`), or takes effect while the caller sees an
error (`lost`). Passwords are the identity of the call that generated them. An object is
told by its owner and by whether the transfer passes over it (`fixed`: a SECURITY DEFINER
routine or an extension's member); `TransferCloneOwnership` also leaves what a superuser or
a protected role owns (`skipCloneTransferOwner`), so those keep their cloned owner.

**PostgresRequests** holds the calls that run within a request. A step is one statement
with the reads before it. `call[x]` is the stack frame of call `x`: program counter,
arguments, the `createdRole`/`createdDB`/`insertedVault` flags (`made`) and the answer.
`rotating`, `dropping` and `truncating` are the maps of `Service`. A refused request
leaves no trace and is not a step. Rotate's repeated vault writes store the same token
and are one step. Audit records and HTTP answers are left out.

**DuplicateJob** composes them: the handler (two steps, because `PrepareDuplicate` and
`InsertQueued` are apart), the worker goroutine, `Service.Duplicate` statement by
statement (it shares role creation, the CONNECT lock, the vault insert and
`compensateCreate` with Create, as in the code), `CompensateDuplicate`, and `Reconcile`
as three listed phases and the prune. `mode` says what the process does, `todo` is the
list a loop works through, `cur` and `job` where it stands. `Crash` forgets everything
but SQLite and PostgreSQL; `LedgerFailure` is an SQLite error met by the worker (which
gives up the round and leaves the row) or by Reconcile (which ends the process).
Reconcile reads the clock once, so `Clock` stands still during it.

**ToolGate** is the mutex-protected store of launch tickets and tool sessions; `issued`
and `opened` are history. **OwnerAccess** composes it with `internal/auth`: a request is
an element of `Req`, `req[r].pc` the statement it is about to send, and what it read
stays in `req[r]` as in the handler's local variables (`at`, `hash`, `csrf`). `owner`,
`attempts` and `sessions` are the tables. A login is seven steps (address limit, lookup,
`ReserveFailure`, verify with `RecordSuccess`, delete, insert, audit), a request behind a
cookie starts with lookup and touch. A session row has an id beside its token (`login`): the
lookup goes by token, and touch, rotation of the CSRF hash, logout and the deletions of an
expired or unaudited session go by the id that was read before, each as a statement of its
own. `LoginInsert` gives the row the largest id plus one, as SQLite does without
AUTOINCREMENT, so an id is given again as soon as a login has deleted the sessions.
`Abandon` ends a handler anywhere, `Restart` ends all.

**RedisUsers** has the server's ACL entries (`acl`: on/off, passwords, keys, commands,
`wide` for channels and categories, and `selectors`, which only a user made outside Redgres
has and no rule of an update clears), and for every request a look and a later write. What
ACL SETUSER does with the rules is external; the rules are those of `service.go`.
`ConnectionLost` is the client's retry of a command that may have run; `late` holds
commands of requests that gave up. `since` and `past` are history.

**TLSHelper** is the shell script, one action per file it changes, and the files. The claim is
three steps: copy, `os.stat` of the request file, `os.unlink`. `held` says what the file has
become since the helper read it: its own, another one the comparison can tell from it, or one
it cannot (renamed into place after the comparison, or given the freed inode number).
**BootstrapListener** is the port, its timer and the two files a start looks at; outside
production the environment file may be missing, and then only the marker is written.
**DomainWizard** composes them with the handlers: `row` is `domain_deployment`, `cloud` maps a
resource of the plan to the deployment it belongs to, `policies` are the applications with an
allow policy, `op` the handler that holds the mutation flag with what it has made, `admitted`
the requests that passed the checks of `serializeDomainMutation` and have not taken the flag.
Its checks, and apply's look for a deployment, refuse only what they can read: `misreads`
counts the requests that a failing read let through, and `unread` the deployments an apply went
over in this way. `lost` and `strays` record what a failed call or a crash is known to have
left. Any remote call may fail before or after it took effect, and any deletion of a
compensation may fail.

**ControlState** has the recorded migrations and processes that migrate and write.
**ControlBackup** adds the command: a file is the set of database states its pages were
read from, its pages and whether its bytes are as written; a hash is the file itself. The
faults are `Damage` (the bytes change between the first and the last hash), errors at
every step and kills. **BackupPromise** says what the command is for, without files:
`Take` stores one state the database was in since the command began, `Prune` never takes
the latest, `AnswerOK` needs the backup to be there.

The `MC*` modules give TLC its instances. Definitions marked "Mutant" are used by no
specification: each is a plausible mistake that some property has to notice.

## 3. What is checked

| Run | Instance | Shows |
|---|---|---|
| `store` | 3 operations, 2 resources, cap 1, retention 1 | ledger invariants, final outcomes, justified pruning under any caller |
| `requests` | one create, two rotations, a drop, a truncate; one failing statement; kills | `VaultCurrent`, `DropTruncateExclusive`, `ProtectedUntouched` |
| `jobs` | three duplicates, one of them of another's copy, of a source with objects the transfer leaves alone; two failures, SQLite's included; a crash; a clock tick | what worker, compensation and Reconcile promise together (1.7 million states) |
| `jobs_live` | two duplicates of the same names, a create; one failure, two crashes; fairness | every accepted duplicate settles; a create that loses is undone |
| `access` | 3 requests of any kind, 2 user names, 2 passwords, 2 tools, 3 times, 1 upset | lockout, sessions and tickets under interleaving (2.0 million states) |
| `redis` | 3 requests of any kind, one free name, the administrator in two spellings, 2 prefixes, an allowed and a forbidden command, one lost connection | passwords, revived users, grants, system users (0.2 million states) |
| `domain` | two deployments, one record and one application, one request at the flag, one misread, the environment file open, closed or missing at first, unbounded failures, kills and crashes | `NothingForgotten`, `RowMatchesCloud`, `CleanupNotSwallowed`, `BootstrapStaysClosed` (4.5 million states) |
| `sqlite` | 2 processes, 2 builds that part at version 2, one write, 2 names, 2 times, 2 pages, `-keep 1` | `OneLineage`, and the refinement `KeepsPromise` (1.6 million states) |
| `dup_cleanup`, `dup_leftover` | one duplicate and at most one create | sentences the code does not keep |
| `domain_policy`, `domain_snapshot` | one deployment with three applications; two deployments with one | sentences the code does not keep |

*Bounds.* Names: the source, one or two copies and one or two owners are enough for every
collision (same copy, same owner, copy of a copy, own source). Two operations compete for
a lock and a third is needed to copy from a copy or to order pruning. `MaxFaults` is the
number of statements that fail: one breaks any single step, two a step and its cleanup.
`MaxCrashes` 1 interrupts every step once, 2 also interrupts the recovery. `MaxTime` and
`Retention` of one or two ticks expire a row. In `access` three requests are a login, a
second login or a use of its session, and a change of the password; the threshold of 2 is
passed by the third; lifetimes and a lockout window of one tick expire within `MaxTime`.
In `redis` three requests are a delete, and two that looked before it; no two of update,
enable and rotation revive a user, and the three together need a fourth request, so that
case is not reached. In `domain` a second deployment meets the leftovers of the first, or is
applied over it after a misread; the number of requests before the flag matters only as none
or some. The constraint `OneThingAtATime` keeps that run small: a second deployment and a
misread are explored only while the environment file keeps the port shut, since the port
shares no more than confirm and the restart with the rest. In `sqlite` two names with
`-keep 1` make every second backup prune, two times put the new directory before, level with
and after the old one, two pages let a commit fall inside the copy. Deadlock is checked in
`store`, `domain` and `sqlite`; elsewhere requests end and bounds are used up, and the
system may stop.

*Fairness.* `FairSpec` assumes weak fairness of the worker (a goroutine with a one second
ticker, `cmd/redgres/main.go:152`) and of start-up with Reconcile (`Restart=on-failure` in
`deploy/systemd/redgres.service`; after a clean stop it is the operator who starts it).
No request is assumed to be sent or to continue. `jobs_live` has no SQLite failures: an
error on the final write leaves the row running until the next restart, and nothing in
the code forces one. The other modules claim no liveness: nobody has to repeat a
disconnect or a backup that failed.

*Findings.* Each violation run states one sentence of the repository and TLC refutes it:
- `CleanupTouchesOwnOnly` (`docs/PRD.md`, PG-010): compensation goes by name and Create
  takes no operation lock, so a duplicate that created nothing can drop what a create made.
- `FailedLeavesNothing` (`worker.go:19`): with the role gone and the vault row not,
  `CompensateDuplicate` stops early and the row is failed with the vault row left.
- `PolicyFailureUndone` (`docs/API.md:377`): with three Access applications a failure at the
  third, or of the save, leaves the policy of the second although the deployment is reported
  as `deny_by_default`.
- `DisconnectRemovesSnapshot` (`docs/SECURITY.md:91`, `docs/API.md:379`): the handler tells an
  acknowledgement only by its time. A cleanup that ran twice, because the helper was killed
  before it unlinked the request, is acknowledged again after the next disconnect noted the
  time; that disconnect's own request is renamed into place between the helper's stat and
  unlink of an issuance and removed unread. The row is cleared and the copy of the token stays.

*Limits of the claims.*
- `VaultCurrent` is claimed for a role that is not dropped and made again meanwhile: nothing
  orders Rotate against Drop, and a rotation may write the vault row of a role that is gone.
- `SucceededIsWhole` says of the objects in a clone that each belongs to the new owner or is
  one the transfer leaves alone, with the owner it has in the source. The model assumes that a
  superuser owns no database. It is about the worker's answer. The probe of Reconcile sees
  three names: a crash between the vault insert and the ownership transfer is recovered as
  succeeded with the objects untransferred, and so is a duplicate that created nothing when a
  create made the same names.
- `RefusedCreateLeavesNothing` speaks of the role only while its name has had one life: when
  two drops remove it under two creates, the role the refused create made serves the other
  one's database and cannot be dropped with it.
- `FailedLeavesNoAccess` is checked with two failures (`jobs`), and proved for any number of
  failures when no create, rotation or drop runs meanwhile, and for any rotations and drops as
  long as no statement has failed. Both provisos are needed. The worker skips its compensation
  for errors it takes for harmless, and a request can cause one after the duplicate has
  created something: a source that is dropped meanwhile (`ErrNotFound`), a create of the same
  names, or a rotation of the clone's owner that saves its password before the duplicate's
  vault insert (a conflict). If then the cleanup within `Duplicate` fails, the row is failed
  and the clone or the role is left. Operations are not isolated from each other either: a
  duplicate validated before another of the same names succeeded, and inserted after it,
  whose first read then fails, compensates by name and drops the other's clone.
- `GuessesBounded` is about the requests of one user and address that started at one time
  (the time a handler reads first), and about the limit per user and address; the limit per
  address is read outside the transaction. It is claimed while that time is in the window,
  until as many attempts were inserted as the table holds, and unless a request that started
  later has succeeded: the row of that success makes `lockoutRemaining` pass over every
  earlier failure, so that requests that started before it and were stalled are counted from
  zero. The code compares the times as RFC 3339 text; a tick stands for at least a second,
  the grain at which that order is the order of time. The doubling is exact in the model; in
  the code the product in nanoseconds would overflow at 34 failures above the threshold in
  one window, which the delays do not admit.
- `EarlierSessionsEnd` and `ChangeRevokes` name exactly the logins that can
  slip through: two that delete before either inserts, and one that read the owner row
  before the change. The owner keeps one name in the run.
- `RevokedStaysOut` does not say that a request of an ended session does nothing: it may touch,
  rotate or delete the session that was given its row id. It says that the ended session does
  not come back and that the other one keeps its token, password and absolute deadline. So a
  `GET /session` that read a row which a login has since deleted rotates the CSRF hash of the
  new session, whose first token is then refused until it asks for `/session` itself.
- `GrantsWhole` is about root keys, commands, channels and categories. The selectors of a user
  made outside Redgres stay through every update; the property says only that nobody else has
  any, and that a deletion ends them.
- `GhostIsPowerless` does not say that a deleted user stays away: one racing request brings
  it back, off or without password or grants.
- `NothingForgotten` and `RowMatchesCloud` except deployments whose row an apply could not
  read: such an apply replaces the row and, if it fails, deletes what the row names.
- `CleanupNotSwallowed` excepts a cleanup that was renamed into place between the helper's
  look and its unlink, and one that was given the inode number of the file it replaced.
- `BootstrapStaysClosed` counts a closing as promised when confirm reported it with the
  environment file rewritten, or the marker was written. Without either, which is possible
  where that file is missing and the marker fails, a restart opens the port again.
- `ProtectedUntouched` is about protected names only; nothing is claimed of a database that is
  remade or re-owned while the backup gate hashes. `DropTruncateExclusive` is about drops and
  truncates that hold the lock maps: compensations drop without them.
- In the wizard a disconnect whose credentials are gone stays pending; a crash after `Clear`
  leaves the secret files; and a failure of confirm between truncating and rewriting leaves a
  torn environment file, with which the next start does not open the port.
- `KeepsPromise` assumes that two `redgres backup` commands do not overlap and that damage
  happens between the first and the last hash. Retention counts half-made and unverified
  directories among the kept ones; a backup taken during a migration fails its check and
  stays; a running server may go on under a schema a newer build has extended.

## 4. What is proved

For all constants (any number of operations, requests, names, processes, faults and crashes),
by TLAPS. Each module states one inductive invariant as a conjunction of named parts, proves
it step by step (one lemma per action, or per group of actions with the same effect), and
draws the theorems from it.

- `OperationStoreProofs`. `StoreInv` (types, `LiveHoldsItsClaim`, `NoStrayLock`,
  `LocksExclusive`) is inductive. Disjointness of live claims is not inductive by itself:
  it follows from the locks being exclusive *and* being exactly the claim of a live row,
  and the latter survives a terminal transition only because locks are tracked by status.
  Theorems: `StoreTypeCorrect`, `LiveOperationHoldsItsClaim`, `LocksAreTracked`,
  `LiveOperationsDisjoint`, `OutcomeNeverChanges`, and `PruningIsJustified`, which compares
  cardinalities and therefore first shows that the table has finitely many rows (`FiniteRows`).
- `PostgresRequestsProofs`. `RequestsInv` has a local half, about the calls (each on the path
  of its kind, with the names and locks of its place: `PathInv`, `NameInv`, `LockInv`), and a
  global half that relates them to the catalog. `VaultCurrent` needs `PasswordInv`: between
  ALTER ROLE and the vault write a rotation finds its password still in place, which the
  rotate lock guarantees against other rotations and one life against drops. What a refused
  create has undone needs the three traces: as long as nothing failed, what a create made and
  is still there is in its flags, and the step that undoes it is still to come. An undo of the
  role is refused by PostgreSQL when the role owns a database; `OwnerInv` and the last line of
  `RoleTrace` show that this database can only be the create's own. The local half speaks of
  the calls of requests (`Requester`) and of nothing else, so that it also holds where the
  worker runs beside them. Theorems:
  `DropAndTruncateExclude`, `VaultIsCurrent`, `RefusedCreateIsUndone`,
  `ProtectedStayUntouched`, `RequestsTypeCorrect`.
- `DuplicateJobProofs`. `JobInv` says that the row in hand has the status its step needs,
  that the list of the resume phase holds only compensating rows, and that every live row
  names a request and claims its three locks. `JobInvariant` proves `JobInv` and `StoreInv`
  together; the lemma `StepIsStoreStep` shows that every step of the system is a step of the
  ledger or leaves it alone, hence `LedgerIsImplemented` (`Spec => StoreSpec`), a refinement
  through which everything proved of the ledger holds of the running system.
  `WorkAlwaysLocked` and `NamesNeverChange` follow; the second needs that the source of a
  request differs from its copy, which the handler checks, since the source is recovered as
  "the database lock that is not the copy". `RestartSettlesAll` needs `PhaseInv`: what a phase
  of Reconcile has left behind does not come back in a later one. `JobTypeCorrect` needs
  `CallMatches`: the arguments of a call are the names of the row it works for.
  `SourcesSurvive` combines the two lock facts of the ledger: the worker drops only the copy
  its row has locked, and a locked copy is no unfinished operation's source.
  `ExclusionSurvivesRestart` and `NobodyTouchesProtected` carry two results about requests over
  to the whole system: the worker leaves the calls of requests alone, so `LocalInv` stays
  inductive beside it, and it writes under the names of its row only, which the handler has
  checked against the policy.
  `FailedIsClean`, `FailedIsCleanBesideDrops` and `SuccessIsWhole` rest on `LeavesInv`, which
  follows the marks an operation leaves in the catalog: who made what (`OwnersMatch`), which
  rows can have left something (`MarksInv`), what is there at every step of a run (`RunInv`,
  `WholeInv`) and of a compensation (`CompInv`), with lost answers, ledger errors and crashes in
  between. It is inductive under `NoCreates`: a create can put a database under the role of an
  operation, which then cannot be dropped, or make the operation's names itself, while rotations
  and drops only take away (`Shrinks`). Its parts about what is still there assume
  `WorkerAlone`, those about what is gone `Calm` (the worker alone, or no failure yet): an
  error caused by a drop or a rotation, which the worker does not compensate, comes only when
  role and clone are both made, and as long as nothing fails the in-line compensation removes
  them. Truncates and any number of duplicates, also of each other's copies, are allowed
  throughout. `jobs` is an instance of the first theorem; the second has no run of its own.
- `ToolGateProofs`. `OneLaunchPerTicket` speaks of the past only; `GateInv` adds what makes
  it inductive: a ticket in the store was issued once, `TicketTTL` before it expires, and
  has not been used. Theorems: `TicketsAreOneTime`, `GateTypeCorrect`, of the store under
  every caller (`GateSpec`).
- `OwnerAccessProofs`. `AccessInv` says what a request carries at each place (`Standing`), that
  the logins a login found inserted are gone before it inserts its own (`PriorInv`), that a
  hash read before a change is the owner's or known to be old (`HashInv`), and that the
  absolute end of a session is counted from its login, which the requests behind its cookie
  inherit (`BirthInv`). `RowsTyped` keeps the table finite, so that the largest id plus one,
  which a login's row is given, is no other row's. The lockout needs three more. `RowsInv`: ids
  are keys and the table stays below its cap, for which the newest `MaxStored` rows are counted
  from the oldest of them. `CountInv`: the table has no more rows than attempts were counted,
  so that below the cap nothing in the window is evicted, and in a stream every failure has a
  larger id than every success. `GuessInv`: every guess since the last success still has its
  row, so the next transaction of `ReserveFailure` sees it, and a success that removes them
  pays with one threshold. Theorems: `AccessTypeCorrect`, `GuessesAreBounded`,
  `LoginEndsEarlier`, `ChangeEndsSessions`, `SessionsHaveAnEnd`, `RevokedForGood`.
  `AccessImplementsGate` shows that `AccessSpec => GateSpec`, so that `LaunchOnce` carries over
  what is proved of the gate alone.
- `RedisUsersProofs`. `RedisInv` keeps what a request was let in with (`AskInv`), which request
  the grants of a user come from (`GrantInv`), and which kinds of request must have written
  each part of a revived user (`GhostInv`). The hard one is `RetireInv`: a password on the list
  a rotation retires belongs to a request that has been answered, and a request that was
  answered with success has no command left that could arrive late; that is why
  neither a retry nor a late command brings it back. Theorems: `RetiredStaysDead`,
  `GhostsArePowerless` (also for the combinations of requests the run is too small for),
  `GrantsAreWhole`, `SystemUsersSafe`, `RedisTypeCorrect`.
- `DomainWizardProofs`. The handler that holds the flag works on a copy of the row, so
  `WizardInv` says that the copy is the row (`CopyInv`), that deployment numbers are fresh
  (`IdInv`), and what an apply has made or a disconnect has seen deleted (`MadeInv`,
  `GoneInv`); `NothingForgotten` and `RowMatchesCloud` are inductive together with these, once
  the deployments an apply went over unread are set apart.
  `ClosedInv` (once closing is promised, the environment file or the marker keeps the port shut)
  gives `BootstrapClosedForGood`, `ClaimInv` (a request file the helper takes for its own is
  the one it read, or one it cannot tell from it) gives `CleanupsSurvive`. Also `WizardTypeCorrect`.
- `ControlBackupProofs`. `BackupKeepsPromise` is the refinement: a backup of the abstract
  specification is a directory that passed every check and still has its file, and its value
  the one database state its pages come from. The inductive invariant `IInv` follows the
  copy: while it is made its pages come from one state of the run (`CopyIsOne`), once hashed
  the file or its digest is whole (`HashedIsWhole`; the file itself may be damaged, which is
  why the last comparison is needed), and what passed is there until the answer
  (`PassedStays`). `SchemaHasOneLineage` needs `LineageInv`: what a process has gone through
  agrees with what is recorded, so the next version it appends continues it.
  `BackupTypeCorrect` needs `Bounded`: a copy that goes on lacks a page, and only existing
  directories are doomed.

Assumptions are the named `ASSUME`s of the modules: ids and names are numbers where the code
sorts by them, constants have their types, the handler's validation of a request
(`JobAssumption`), a call is of one kind (`RequestAssumption`), lifetimes are
natural numbers (`AccessAssumption`), thresholds and delays are positive (`LockoutAssumption`,
which also states that powers of two are positive numbers, because the provers know nothing of
`^`), and `None` is neither an identity nor a row. TLC evaluates them in every run. `WorkerAlone`
and `NoCreates` are not among them but hypotheses of the theorems that need them.

Only model-checked:
- liveness and everything that needs `ENABLED` (`EveryDuplicateSettles`): the prover does not
  do temporal reasoning beyond propositional steps;
- `RefusedCreateLeavesNothing` together with duplicates (`jobs_live`); the theorem is about
  requests alone.

Every other invariant and action property of the passing runs is stated by a theorem.

## 5. Not modelled

Row deletion and reads of the PostgreSQL API, SQL text and quoting, ACL fingerprints (the
snapshot of the source is its owner), the contents of the backup gate (it may refuse at any
time), the OAuth sign-in with its state cookie and token exchange, the check of manual DNS
records, Certbot and its rate limit, path pinning and permissions of the backup, audit,
HTTP, cryptography, configuration parsing, the installer scripts, the web interface, and the
test doubles of the adapters. What is left is reads, text, cryptography or other programs.

## 6. Plan

1. Proofs: `VaultCurrent` and `RefusedCreateLeavesNothing` for the composition with
   duplicates, which needs the global half of `RequestsInv` beside the worker; creates beside
   `FailedLeavesNoAccess`, with the exact cases in which a create keeps a role alive.
2. An abstract copy job (asked, working, done or undone) implemented by DuplicateJob under
   `WorkerAlone`; `LeavesInv` is the refinement's invariant.
3. The drop gate as operators against a reference definition, and the OAuth sign-in.

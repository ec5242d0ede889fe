---------------------------- MODULE ControlState ----------------------------
(***************************************************************************)
(* The SQLite control database (internal/database) and the processes that  *)
(* open it: the server and `redgres create-owner` migrate it first and     *)
(* then write.  Nothing keeps two of them, or two builds during an         *)
(* upgrade, from migrating the same file at once.                          *)
(***************************************************************************)
EXTENDS Naturals, Sequences

CONSTANTS Procs,        \* processes that may run at once
          Builds,       \* builds: the checksums of the migrations each embeds, in order
          MaxWrites     \* bound: transactions committed after migration

ASSUME StateAssumption ==
    /\ Builds # {} /\ MaxWrites \in Nat
    /\ \A b \in Builds : b \in Seq(STRING) /\ Len(b) > 0

VARIABLES db,           \* what is committed: recorded migrations, count of writes
          proc          \* per process: where it is, its build, migrations it has gone through

svars == <<db, proc>>

IsPrefixOf(s, t) == Len(s) <= Len(t) /\ \A i \in 1..Len(s) : s[i] = t[i]

NoBuild == <<>>
Idle == [pc |-> "idle", build |-> NoBuild, done |-> 0]

\* A recorded version the build does not embed, or embeds with another checksum,
\* is refused.
validateApplied(applied, b) == IsPrefixOf(applied, b)

\* main.run and create-owner: Open, then Migrate, which creates schema_migrations if
\* needed and reads it once (loadApplied); a build that may not run ends here.
Migrate(p, b) ==
    /\ proc[p].pc = "idle" /\ validateApplied(db.schema, b)
    /\ proc' = [proc EXCEPT ![p] = [pc |-> "apply", build |-> b, done |-> Len(db.schema)]]
    /\ UNCHANGED db

\* Mutant: a migration that fails is passed over.
ApplyAndGoOn(p) ==
    LET v == proc[p].done + 1
    IN  /\ proc[p].pc = "apply" /\ v <= Len(proc[p].build)
        /\ proc' = [proc EXCEPT ![p].done = v]
        /\ db' = IF v <= Len(db.schema) THEN db
                 ELSE [db EXCEPT !.schema = Append(@, proc[p].build[v])]

\* One transaction: the statements and the row of the version.  A version that
\* another process recorded meanwhile violates the key (or its tables exist): the
\* transaction rolls back and Migrate ends.
applyMigration(p) ==
    LET v == proc[p].done + 1
    IN  /\ proc[p].pc = "apply" /\ v <= Len(proc[p].build)
        /\ IF v <= Len(db.schema)
           THEN /\ proc' = [proc EXCEPT ![p] = Idle]
                /\ UNCHANGED db
           ELSE /\ proc' = [proc EXCEPT ![p].done = v]
                /\ db' = [db EXCEPT !.schema = Append(@, proc[p].build[v])]

Migrated(p) ==
    /\ proc[p].pc = "apply" /\ proc[p].done = Len(proc[p].build)
    /\ proc' = [proc EXCEPT ![p].pc = "serve"]
    /\ UNCHANGED db

\* Any transaction of a process that has started.
Write(p) ==
    /\ proc[p].pc = "serve" /\ db.rows < MaxWrites
    /\ db' = [db EXCEPT !.rows = @ + 1]
    /\ UNCHANGED proc

\* The process ends: an error, the end of the command, a kill.  What is not
\* committed is rolled back.
Stop(p) ==
    /\ proc[p].pc # "idle"
    /\ proc' = [proc EXCEPT ![p] = Idle]
    /\ UNCHANGED db

StateInit ==
    /\ db = [schema |-> <<>>, rows |-> 0]
    /\ proc = [p \in Procs |-> Idle]

StateNext ==
    \E p \in Procs :
        \/ \E b \in Builds : Migrate(p, b)
        \/ applyMigration(p) \/ Migrated(p)
        \/ Write(p) \/ Stop(p)

\* OneLineage: the recorded migrations are always the beginning of what one single
\* build embeds, however the migrations of two builds interleave and wherever they
\* are killed (Migrate reads the table once and applies in separate transactions).
OneLineage == \E b \in Builds : IsPrefixOf(db.schema, b)
=============================================================================

---------------------------- MODULE BackupPromise ----------------------------
(***************************************************************************)
(* What `redgres backup` promises, without files, pages, hashes or         *)
(* directories: a backup that is taken holds one state the database was    *)
(* really in while the command ran, pruning never removes the last one     *)
(* taken, and only a command whose backup is still there answers "ok".     *)
(* ControlBackup is shown to implement this specification.                 *)
(***************************************************************************)
EXTENDS Naturals

CONSTANTS Names,        \* the names a backup can get
          None          \* no name

VARIABLES state,        \* what the database holds (committed)
          since,        \* the states it was in since the command started; {} when none runs
          vault,        \* the backups taken and not pruned: name -> state
          latest,       \* the last one taken
          taken,        \* the command that runs has taken its backup
          answered      \* the last backup a command answered "ok" for

pvars == <<state, since, vault, latest, taken, answered>>

PromiseInit ==
    /\ since = {} /\ vault = [n \in {} |-> state]
    /\ latest = None /\ ~taken /\ answered = None

\* Some process commits a transaction.
Commit ==
    /\ state' # state
    /\ since' = IF since = {} THEN {} ELSE since \union {state'}
    /\ UNCHANGED <<vault, latest, taken, answered>>

Begin ==
    /\ since = {} /\ since' = {state}
    /\ UNCHANGED <<state, vault, latest, taken, answered>>

Take ==
    /\ ~taken /\ taken'
    /\ \E n \in Names \ DOMAIN vault, s \in since :
         /\ vault' = [m \in DOMAIN vault \union {n} |-> IF m = n THEN s ELSE vault[m]]
         /\ latest' = n
    /\ UNCHANGED <<state, since, answered>>

Prune ==
    /\ taken
    /\ \E n \in DOMAIN vault \ {latest} : vault' = [m \in DOMAIN vault \ {n} |-> vault[m]]
    /\ UNCHANGED <<state, since, latest, taken, answered>>

\* The command ends: "ok" for the backup it took, or a failure or its death.
AnswerOK ==
    /\ taken /\ latest \in DOMAIN vault
    /\ answered' = latest /\ since' = {} /\ ~taken'
    /\ UNCHANGED <<state, vault, latest>>

Abort ==
    /\ since # {} /\ since' = {} /\ ~taken'
    /\ UNCHANGED <<state, vault, latest, answered>>

PromiseNext == Commit \/ Begin \/ Take \/ Prune \/ AnswerOK \/ Abort

PromiseSpec == PromiseInit /\ [][PromiseNext]_pvars
=============================================================================

--------------------------- MODULE OperationStore ---------------------------
(***************************************************************************)
(* The durable operations ledger: the SQLite tables operations and          *)
(* operation_locks behind internal/operations/store.go.                     *)
(*                                                                          *)
(* Every exported mutation of the store is one SQLite transaction (the pool *)
(* has a single connection), so each is one action here: InsertQueued,      *)
(* Transition and the pruneTerminal step of Reconcile. A call that returns  *)
(* an error, or that finds the row already in the wanted status, commits or *)
(* rolls back without a change and is a stuttering step. Who calls what,    *)
(* and when, is the subject of DuplicateJob; here any caller may call any   *)
(* operation, so what is proved here holds for every caller.                *)
(***************************************************************************)
EXTENDS Naturals, FiniteSets

CONSTANTS
    OpId,         \* operation ids: 32 lowercase hex digits, ordered as numbers
    Resource,     \* values of the lock table's key (resource_kind, resource_name)
    Retention,    \* TerminalRetention, in clock ticks
    MaxTerminal,  \* MaxTerminalOperations
    MaxTime       \* bound on the clock

ASSUME StoreAssumption ==
    /\ OpId \subseteq Nat
    /\ Retention \in Nat
    /\ MaxTerminal \in Nat
    /\ MaxTime \in Nat

VARIABLES
    status,      \* operations.status of every id; "absent" when there is no row
    claim,       \* the resources the row names, as passed to InsertQueued
    held,        \* the rows of operation_locks, grouped by operation_id
    finishedAt,  \* operations.finished_at of every row
    clock        \* the wall clock

storeVars == <<status, claim, held, finishedAt, clock>>

Terminal == {"succeeded", "failed", "canceled", "indeterminate"}
Live     == {"queued", "running", "compensating", "interrupted"}
Status   == Terminal \cup Live
Unsettled == {"running", "compensating", "interrupted"}

\* Mutant of legalEdge: a later attempt may settle an indeterminate row.
ReopenedEdge(from, to) ==
    \/ from = "queued"       /\ to \in {"running", "canceled"}
    \/ from = "running"      /\ to \in {"succeeded", "failed", "compensating", "interrupted"}
    \/ from \in {"compensating", "indeterminate"} /\ to = "failed"
    \/ from = "interrupted"  /\ to \in {"succeeded", "failed", "compensating", "indeterminate"}

\* The transitions a row may make.
legalEdge(from, to) ==
    \/ from = "queued"       /\ to \in {"running", "canceled"}
    \/ from = "running"      /\ to \in {"succeeded", "failed", "compensating", "interrupted"}
    \/ from = "compensating" /\ to \in {"failed", "indeterminate"}
    \/ from = "interrupted"  /\ to \in {"succeeded", "failed", "compensating", "indeterminate"}

terminalStatus(s) == s \in Terminal

StoreInit ==
    /\ status = [o \in OpId |-> "absent"]
    /\ claim = [o \in OpId |-> {}]
    /\ held = [o \in OpId |-> {}]
    /\ finishedAt = [o \in OpId |-> 0]
    /\ clock = 0

----------------------------------------------------------------------------
(***************************************************************************)
(* The operations of the store.                                             *)
(***************************************************************************)

\* The insert of one lock row meets the primary key (resource_kind,
\* resource_name): no row of any operation may hold that resource.
LockFree(r) == \A p \in OpId : r \notin held[p]

\* One transaction: the queued row, then one lock row per resource. A key
\* that is taken (ErrConflict for the row, ErrLockHeld for a lock) rolls the
\* whole transaction back.
InsertQueued(o, locks) ==
    /\ status[o] = "absent"
    /\ \A r \in locks : LockFree(r)
    /\ status' = [status EXCEPT ![o] = "queued"]
    /\ claim' = [claim EXCEPT ![o] = locks]
    /\ held' = [held EXCEPT ![o] = locks]
    /\ UNCHANGED <<finishedAt, clock>>

\* Mutants of LocksAfter: the locks go when compensation begins, or never.
LocksReleasedEarly(o, s, keepLocks) ==
    IF s = "compensating" \/ (terminalStatus(s) /\ ~keepLocks) THEN {} ELSE held[o]
LocksForgotten(o, s, keepLocks) == held[o]

\* The lock rows of o after it moved to status s.
LocksAfter(o, s, keepLocks) ==
    IF terminalStatus(s) /\ ~keepLocks THEN {} ELSE held[o]

\* A compare-and-set of the status that deletes the locks of a row that
\* becomes terminal in the same transaction, unless KeepLocks is set.
Transition(o, from, to, keepLocks) ==
    /\ legalEdge(from, to)
    /\ keepLocks => to = "indeterminate"
    /\ status[o] = from
    /\ status' = [status EXCEPT ![o] = to]
    /\ finishedAt' = [finishedAt EXCEPT ![o] = IF terminalStatus(to) THEN clock ELSE @]
    /\ held' = [held EXCEPT ![o] = LocksAfter(o, to, keepLocks)]
    /\ UNCHANGED <<claim, clock>>

TerminalRows == {o \in OpId : terminalStatus(status[o])}

\* First pass of pruneTerminal: finished_at < now - TerminalRetention.
Expired == {o \in TerminalRows : finishedAt[o] + Retention < clock}

\* Mutant of FinishedBefore: ORDER BY finished_at DESC.
FinishedAfter(o, p) ==
    \/ finishedAt[o] > finishedAt[p]
    \/ finishedAt[o] = finishedAt[p] /\ o < p

\* ORDER BY finished_at ASC, id ASC.
FinishedBefore(o, p) ==
    \/ finishedAt[o] < finishedAt[p]
    \/ finishedAt[o] = finishedAt[p] /\ o < p

\* Second pass: the oldest rows above the cap of MaxTerminal.
Overflow ==
    {o \in TerminalRows \ Expired :
        Cardinality({p \in TerminalRows \ Expired : FinishedBefore(o, p)}) >= MaxTerminal}

Pruned == Expired \cup Overflow

\* Mutant of pruneTerminal: a soft delete.
PruneMarks ==
    /\ status' = [o \in OpId |-> IF o \in Pruned THEN "pruned" ELSE status[o]]
    /\ UNCHANGED <<claim, held, finishedAt, clock>>

pruneTerminal ==
    /\ status' = [o \in OpId |-> IF o \in Pruned THEN "absent" ELSE status[o]]
    /\ claim' = [o \in OpId |-> IF o \in Pruned THEN {} ELSE claim[o]]
    /\ held' = [o \in OpId |-> IF o \in Pruned THEN {} ELSE held[o]]
    /\ finishedAt' = [o \in OpId |-> IF o \in Pruned THEN 0 ELSE finishedAt[o]]
    /\ UNCHANGED clock

\* Time passes.
Tick ==
    /\ clock < MaxTime
    /\ clock' = clock + 1
    /\ UNCHANGED <<status, claim, held, finishedAt>>

StoreNext ==
    \/ \E o \in OpId, locks \in SUBSET Resource : InsertQueued(o, locks)
    \/ \E o \in OpId, from, to \in Status, keepLocks \in BOOLEAN :
          Transition(o, from, to, keepLocks)
    \/ pruneTerminal
    \/ Tick

StoreSpec == StoreInit /\ [][StoreNext]_storeVars

----------------------------------------------------------------------------
(***************************************************************************)
(* Properties.                                                              *)
(***************************************************************************)

\* Every column of the two tables holds a value of its type.
StoreTypeOK ==
    /\ status \in [OpId -> Status \cup {"absent"}]
    /\ claim \in [OpId -> SUBSET Resource]
    /\ held \in [OpId -> SUBSET Resource]
    /\ finishedAt \in [OpId -> Nat]
    /\ clock \in Nat

\* An operation that is queued, running, compensating or interrupted owns
\* the lock of every resource it names, through every transition, however
\* it got there (store.go Transition deletes locks on terminal rows only).
LiveHoldsItsClaim ==
    \A o \in OpId : status[o] \in Live => held[o] = claim[o]

\* Two operations that are both unfinished never name the same resource:
\* what the worker does for one cannot touch what the other works on.
LiveClaimsDisjoint ==
    \A o, p \in OpId :
        o # p /\ status[o] \in Live /\ status[p] \in Live => claim[o] \cap claim[p] = {}

\* No lock outlives its operation: a lock row belongs to an unfinished
\* operation or to an indeterminate one that kept it, never to a row that is
\* gone, succeeded, failed or canceled. Otherwise a name stays blocked for ever.
NoStrayLock ==
    \A o \in OpId : held[o] # {} => status[o] \in Live \cup {"indeterminate"}

\* One row of operation_locks per resource, whoever holds it.
LocksExclusive ==
    \A o, p \in OpId : o # p => held[o] \cap held[p] = {}

\* A terminal outcome is final: the row may be pruned, but a client that
\* polls GET /operations/{id} never sees it change to another outcome.
OutcomeIsFinal ==
    [][\A o \in OpId : terminalStatus(status[o]) => status'[o] \in {status[o], "absent"}]_storeVars

\* A row disappears only when it is terminal and it is either past its
\* retention or older than MaxTerminal other terminal rows: retention never
\* deletes unfinished work and never deletes a newer row before an older one.
PruneIsJustified ==
    [][\A o \in OpId :
          status[o] # "absent" /\ status'[o] = "absent" =>
              /\ terminalStatus(status[o])
              /\ \/ clock > finishedAt[o] + Retention
                 \/ Cardinality({p \in TerminalRows \ {o} : finishedAt[p] >= finishedAt[o]})
                        >= MaxTerminal
      ]_storeVars

\* The inductive invariant behind the four lock properties.
StoreInv ==
    /\ StoreTypeOK
    /\ LiveHoldsItsClaim
    /\ NoStrayLock
    /\ LocksExclusive
=============================================================================

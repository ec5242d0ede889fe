-------------------------- MODULE DuplicateJobProofs --------------------------
(***************************************************************************)
(* Machine-checked proofs about the duplicate operation, for every set of   *)
(* names, requests and operations and any number of faults and crashes.     *)
(* First, the composition implements the ledger specification, so that all  *)
(* that is proved of the ledger holds of it; then JobInv is shown to be     *)
(* inductive relative to the invariant of the ledger. The calls of requests *)
(* that run beside the worker keep LocalInv, and LeavesInv follows what an  *)
(* operation has made until it is whole or gone again.                      *)
(***************************************************************************)
EXTENDS DuplicateJob, OperationStoreProofs, PostgresRequestsProofs, FiniteSetTheorems

\* The three locks of a request are resources of the ledger.
LEMMA LocksAreResources ==
    ASSUME NEW q \in Requests
    PROVE  LocksOf(q) \in SUBSET Resource
  BY JobAssumption DEF LocksOf, JobResource, Request

\* An operation id is never the absent value.
LEMMA NoneIsNoOperation == None \notin OpId
  BY JobAssumption, CatalogAssumption

\* The names read back from the lock rows of a request are its names.
LEMMA NamesFromLocks ==
    ASSUME NEW o \in OpId, row[o] \in Requests, held[o] = LocksOf(row[o])
    PROVE  resultFrom(o) = row[o]
  <1> DEFINE q == row[o]
  <1>1. q \in Request /\ q.source # q.database
    BY JobAssumption
  <1>2. q.source \in Database /\ q.database \in Database /\ q.owner \in Role
        /\ q = [source |-> q.source, database |-> q.database, owner |-> q.owner]
    BY <1>1 DEF Request
  <1>3. \A r \in Role : RoleLock(r) \in held[o] <=> r = q.owner
    BY DEF LocksOf, RoleLock, DatabaseLock
  <1>4. \A d \in Database \ {q.database} : DatabaseLock(d) \in held[o] <=> d = q.source
    BY <1>1, <1>2 DEF LocksOf, RoleLock, DatabaseLock
  <1>5. (CHOOSE r \in Role : RoleLock(r) \in held[o]) = q.owner
    BY <1>2, <1>3
  <1>6. (CHOOSE d \in Database \ {q.database} : DatabaseLock(d) \in held[o]) = q.source
    BY <1>1, <1>2, <1>4
  <1> QED BY <1>2, <1>5, <1>6 DEF resultFrom

\* Every step of the composition is a step of the ledger, or leaves it alone.
LEMMA StepIsStoreStep ==
    ASSUME JobInv, [Next]_vars
    PROVE  [StoreNext]_storeVars
  <1> USE DEF Status, Live, Terminal
  <1>1. ASSUME NEW o \in OpId, EnqueueInsert(o) PROVE [StoreNext]_storeVars
    <2>1. asked[o] \in Requests
      BY <1>1 DEF EnqueueInsert, JobInv
    <2>2. LocksOf(asked[o]) \in SUBSET Resource
      BY <2>1, LocksAreResources
    <2> QED BY <1>1, <2>2 DEF EnqueueInsert, StoreNext
  <1>2. ASSUME NEW o \in OpId, Claim(o) \/ DuplicateReturns(o) \/ CompensationEnds(o)
        PROVE  [StoreNext]_storeVars
    BY <1>2 DEF Claim, DuplicateReturns, CompensationEnds, StoreNext
  <1>3. ASSUME NEW o \in OpId, ReconcileInterrupt(o) \/ ReconcileResolve(o)
        PROVE  [StoreNext]_storeVars
    BY <1>3 DEF ReconcileInterrupt, ReconcileResolve, StoreNext
  <1>4. ASSUME NEW o \in OpId,
               EnqueuePrepare(o) \/ DuplicateStep(o) \/ CompensateStep(o) \/ ReconcileResume(o)
        PROVE  [StoreNext]_storeVars
    BY <1>4 DEF EnqueuePrepare, DuplicateStep, Running, CompensateStep, CompensateDatabase,
                CompensateCredential, CompensateRole, Compensating, ReconcileResume
  <1>5. ASSUME ReconcilePrune PROVE [StoreNext]_storeVars
    BY <1>5 DEF ReconcilePrune, StoreNext
  <1>6. ASSUME Poll \/ Boot \/ ReconcileNextPhase \/ LedgerFailure \/ Crash \/ OtherRequest
        PROVE  [StoreNext]_storeVars
    BY <1>6 DEF Poll, Boot, ReconcileNextPhase, LedgerFailure, Crash, OtherRequest
  <1>7. ASSUME Clock PROVE [StoreNext]_storeVars
    BY <1>7 DEF Clock, StoreNext
  <1>8. ASSUME UNCHANGED vars PROVE [StoreNext]_storeVars
    BY <1>8 DEF vars
  <1> QED BY <1>1, <1>2, <1>3, <1>4, <1>5, <1>6, <1>7, <1>8 DEF Next, WorkerStep, ReconcileStep

\* The composition starts with nothing in hand.
LEMMA JobInitInv == Init => JobInv
  BY NoneIsNoOperation DEF Init, StoreInit, JobInv, RowsMatch, Live

\* The handlers: a queued row names the request whose locks it took.
LEMMA EnqueueJobInv ==
    ASSUME JobInv, StoreInv, NEW o \in OpId, EnqueuePrepare(o) \/ EnqueueInsert(o)
    PROVE  JobInv'
  <1>1. CASE EnqueuePrepare(o)
    BY <1>1 DEF EnqueuePrepare, JobInv, RowsMatch, storeVars
  <1>2. CASE EnqueueInsert(o) /\ UNCHANGED <<storeVars, row>>
    BY <1>2 DEF EnqueueInsert, JobInv, RowsMatch, storeVars
  <1>3. CASE /\ EnqueueInsert(o) /\ InsertQueued(o, LocksOf(asked[o]))
             /\ row' = [row EXCEPT ![o] = asked[o]]
    <2>1. /\ status' = [status EXCEPT ![o] = "queued"] /\ status[o] = "absent"
          /\ claim' = [claim EXCEPT ![o] = LocksOf(asked[o])]
          /\ asked' = [asked EXCEPT ![o] = None] /\ asked[o] # None
          /\ UNCHANGED <<mode, todo, cur, job>>
      BY <1>3 DEF EnqueueInsert, InsertQueued
    <2>2. asked' \in [OpId -> Requests \cup {None}] /\ row' \in [OpId -> Requests \cup {None}]
      BY <1>3, <2>1 DEF JobInv
    <2>3. RowsMatch'
      BY <1>3, <2>1 DEF JobInv, RowsMatch, StoreInv, StoreTypeOK, Live
    <2>4. mode' = "resume" => \A p \in todo' : status'[p] = "compensating" /\ p # cur'
      BY <2>1 DEF JobInv, StoreInv, StoreTypeOK
    <2>5. cur' # None => status'[cur'] = IF job' = "run" THEN "running" ELSE "compensating"
      BY <2>1 DEF JobInv, StoreInv, StoreTypeOK
    <2> QED BY <2>1, <2>2, <2>3, <2>4, <2>5 DEF JobInv
  <1> QED BY <1>1, <1>2, <1>3 DEF EnqueueInsert

\* A ledger transition of one operation, seen from the others and from its row.
LEMMA TransitionEffect ==
    ASSUME JobInv, StoreInv, NEW o \in OpId, NEW from, NEW to, NEW keep,
           Transition(o, from, to, keep), UNCHANGED row
    PROVE  /\ status[o] = from /\ status' = [status EXCEPT ![o] = to]
           /\ RowsMatch'
  <1>1. /\ status[o] = from /\ status' = [status EXCEPT ![o] = to] /\ claim' = claim
        /\ from \in Live /\ to # "absent"
    BY DEF Transition, legalEdge, Live
  <1> QED BY <1>1 DEF JobInv, RowsMatch, StoreInv, StoreTypeOK

\* The worker takes a row only to put it in hand, and writes to the row it has.
LEMMA WorkerJobInv ==
    ASSUME JobInv, StoreInv, NEW o \in OpId,
           Claim(o) \/ DuplicateReturns(o) \/ CompensationEnds(o)
    PROVE  JobInv'
  <1> USE NoneIsNoOperation
  <1>1. CASE Claim(o)
    <2>1. Transition(o, "queued", "running", FALSE) /\ UNCHANGED <<row, asked, mode>>
          /\ mode = "serve" /\ todo' = todo \ {o} /\ cur' = o /\ job' = "run"
      BY <1>1 DEF Claim
    <2>2. status' = [status EXCEPT ![o] = "running"]
          /\ RowsMatch'
      BY <2>1, TransitionEffect
    <2>3. status'[o] = "running"
      BY <2>2 DEF StoreInv, StoreTypeOK
    <2> QED BY <2>1, <2>2, <2>3 DEF JobInv
  <1>2. CASE DuplicateReturns(o) /\ call[o].outcome = "ok"
    <2>1. Transition(o, "running", "succeeded", FALSE) /\ UNCHANGED <<row, asked, mode, todo>>
          /\ mode = "serve" /\ cur' = None /\ job' = "idle"
      BY <1>2 DEF DuplicateReturns
    <2> QED BY <2>1, TransitionEffect DEF JobInv, StoreInv, StoreTypeOK
  <1>3. CASE DuplicateReturns(o) /\ call[o].outcome # "ok"
    <2>1. Transition(o, "running", "compensating", FALSE) /\ UNCHANGED <<row, asked, mode, todo, cur>>
          /\ mode = "serve" /\ cur = o /\ job' \in {"failed", "compDatabase"}
      BY <1>3 DEF DuplicateReturns
    <2>2. status' = [status EXCEPT ![o] = "compensating"]
          /\ RowsMatch'
      BY <2>1, TransitionEffect
    <2>3. status'[o] = "compensating"
      BY <2>2 DEF StoreInv, StoreTypeOK
    <2> QED BY <2>1, <2>2, <2>3 DEF JobInv
  <1>4. CASE CompensationEnds(o)
    <2>1. PICK to \in {"failed", "indeterminate"}, keep \in BOOLEAN :
            Transition(o, "compensating", to, keep)
      BY <1>4 DEF CompensationEnds
    <2>2. UNCHANGED <<row, asked, mode, todo>> /\ cur = o /\ cur' = None /\ job' = "idle"
      BY <1>4 DEF CompensationEnds
    <2>3. status' = [status EXCEPT ![o] = to]
          /\ RowsMatch'
      BY <2>1, <2>2, TransitionEffect
    <2> QED BY <2>2, <2>3 DEF JobInv, StoreInv, StoreTypeOK
  <1> QED BY <1>1, <1>2, <1>3, <1>4

\* Steps that change neither the ledger nor the operation in hand.
LEMMA QuietJobInv ==
    ASSUME JobInv, NEW o \in OpId, DuplicateStep(o) \/ CompensateStep(o)
    PROVE  JobInv'
  <1>1. CASE DuplicateStep(o)
    BY <1>1 DEF DuplicateStep, Running, jobVars, storeVars, JobInv, RowsMatch
  <1>2. CASE CompensateStep(o)
    <2>1. /\ UNCHANGED <<status, claim, row, asked, mode, todo, cur>> /\ cur = o
          /\ job \in {"compDatabase", "compCredential", "compRole"}
          /\ job' \in {"compCredential", "compRole", "failed", "giveUp"}
      BY <1>2 DEF CompensateStep, CompensateDatabase, CompensateCredential, CompensateRole,
                  Compensating, storeVars
    <2> QED BY <2>1, NoneIsNoOperation DEF JobInv, RowsMatch
  <1> QED BY <1>1, <1>2

\* Reconcile: it resumes only rows that are compensating, and a recovered row
\* keeps its names.
LEMMA ReconcileJobInv ==
    ASSUME JobInv, StoreInv, NEW o \in OpId,
           ReconcileInterrupt(o) \/ ReconcileResume(o) \/ ReconcileResolve(o)
    PROVE  JobInv' /\ row' = row
  <1> USE NoneIsNoOperation
  <1>1. CASE ReconcileInterrupt(o)
    <2>1. Transition(o, "running", "interrupted", FALSE) /\ UNCHANGED <<row, asked, mode, cur, job>>
          /\ mode = "interrupt" /\ todo' = todo \ {o}
      BY <1>1 DEF ReconcileInterrupt
    <2>2. RowsMatch'
      BY <2>1, TransitionEffect
    <2> QED BY <2>1, <2>2 DEF JobInv
  <1>2. CASE ReconcileResume(o)
    <2>1. UNCHANGED <<status, claim, row, asked, mode>> /\ mode = "resume" /\ o \in todo
          /\ todo' = todo \ {o} /\ cur' = o /\ job' = "compDatabase"
      BY <1>2 DEF ReconcileResume, storeVars
    <2> QED BY <2>1 DEF JobInv, RowsMatch
  <1>3. CASE ReconcileResolve(o)
    <2>1. /\ UNCHANGED <<asked, mode>> /\ mode = "resolve" /\ todo' = todo \ {o}
          /\ job = "idle" /\ cur = None
      BY <1>3 DEF ReconcileResolve, JobInv
    <2>2. PICK to \in Status :
            /\ Transition(o, "interrupted", to, FALSE)
            /\ row' = row \/ row' = [row EXCEPT ![o] = resultFrom(o)]
            /\ \/ UNCHANGED <<cur, job>>
               \/ to = "compensating" /\ cur' = o /\ job' = "compDatabase"
      BY <1>3 DEF ReconcileResolve, Status, Live, Terminal
    <2>3. status[o] = "interrupted"
      BY <2>2 DEF Transition
    <2>4. row[o] \in Requests /\ held[o] = LocksOf(row[o])
      BY <2>3 DEF JobInv, RowsMatch, StoreInv, LiveHoldsItsClaim, Live
    <2>5. row' = row
      BY <2>2, <2>4, NamesFromLocks DEF JobInv
    <2>6. status' = [status EXCEPT ![o] = to]
          /\ RowsMatch'
      BY <2>2, <2>5, TransitionEffect
    <2>7. status'[o] = to
      BY <2>6 DEF StoreInv, StoreTypeOK
    <2> QED BY <2>1, <2>2, <2>5, <2>6, <2>7 DEF JobInv
  <1> QED BY <1>1, <1>2, <1>3

\* The steps that concern no operation in particular.
LEMMA ProcessJobInv ==
    ASSUME JobInv, StoreInv,
           \/ Poll \/ Boot \/ ReconcileNextPhase \/ ReconcilePrune \/ LedgerFailure
           \/ Crash \/ OtherRequest \/ Clock \/ UNCHANGED vars
    PROVE  JobInv'
  <1>1. CASE Poll
    BY <1>1 DEF Poll, JobInv, RowsMatch, storeVars, WithStatus
  <1>2. CASE Boot
    BY <1>2 DEF Boot, JobInv, RowsMatch, storeVars, WithStatus
  <1>3. CASE ReconcileNextPhase
    BY <1>3, NoneIsNoOperation DEF ReconcileNextPhase, JobInv, RowsMatch, storeVars, WithStatus
  <1>4. CASE ReconcilePrune
    <2>1. /\ UNCHANGED <<asked, todo, cur, job>> /\ mode = "resolve" /\ mode' = "serve"
          /\ job = "idle" /\ pruneTerminal
          /\ row' = [p \in OpId |-> IF p \in Pruned THEN None ELSE row[p]]
      BY <1>4 DEF ReconcilePrune
    <2>2. RowsMatch'
      BY <2>1 DEF pruneTerminal, JobInv, RowsMatch, Live
    <2> QED BY <2>1, <2>2 DEF JobInv
  <1>5. CASE LedgerFailure
    BY <1>5 DEF LedgerFailure, JobInv, RowsMatch, storeVars
  <1>6. CASE Crash
    BY <1>6 DEF Crash, JobInv, RowsMatch, storeVars
  <1>7. CASE OtherRequest
    BY <1>7 DEF OtherRequest, JobInv, RowsMatch, storeVars, jobVars
  <1>8. CASE Clock
    BY <1>8 DEF Clock, Tick, JobInv, RowsMatch, jobVars
  <1>9. CASE UNCHANGED vars
    BY <1>9 DEF vars, JobInv, RowsMatch, storeVars, jobVars
  <1> QED BY <1>1, <1>2, <1>3, <1>4, <1>5, <1>6, <1>7, <1>8, <1>9

\* JobInv is inductive, given the invariant of the ledger.
LEMMA JobNextInv == JobInv /\ StoreInv /\ [Next]_vars => JobInv'
  <1> SUFFICES ASSUME JobInv, StoreInv, [Next]_vars PROVE JobInv'
    OBVIOUS
  <1>1. ASSUME NEW o \in OpId, EnqueuePrepare(o) \/ EnqueueInsert(o) PROVE JobInv'
    BY <1>1, EnqueueJobInv
  <1>2. ASSUME NEW o \in OpId, Claim(o) \/ DuplicateReturns(o) \/ CompensationEnds(o)
        PROVE  JobInv'
    BY <1>2, WorkerJobInv
  <1>3. ASSUME NEW o \in OpId, DuplicateStep(o) \/ CompensateStep(o) PROVE JobInv'
    BY <1>3, QuietJobInv
  <1>4. ASSUME NEW o \in OpId,
               ReconcileInterrupt(o) \/ ReconcileResume(o) \/ ReconcileResolve(o)
        PROVE  JobInv'
    BY <1>4, ReconcileJobInv
  <1>5. ASSUME \/ Poll \/ Boot \/ ReconcileNextPhase \/ ReconcilePrune \/ LedgerFailure
               \/ Crash \/ OtherRequest \/ Clock \/ UNCHANGED vars
        PROVE  JobInv'
    BY <1>5, ProcessJobInv
  <1> QED BY <1>1, <1>2, <1>3, <1>4, <1>5 DEF Next, WorkerStep, ReconcileStep

\* Both invariants hold in every reachable state: the ledger of the running
\* system obeys StoreInv because every step of it is a step of the store.
THEOREM JobInvariant == Spec => [](JobInv /\ StoreInv)
  <1>1. Init => JobInv /\ StoreInv
    BY JobInitInv, StoreInitInv DEF Init
  <1>2. JobInv /\ StoreInv /\ [Next]_vars => (JobInv /\ StoreInv)'
    BY JobNextInv, StepIsStoreStep, StoreNextInv
  <1> QED BY <1>1, <1>2, PTL DEF Spec

\* The detailed system implements the ledger specification, so everything
\* proved of the ledger on its own holds of the worker, the handlers, the
\* compensation and Reconcile together.
THEOREM LedgerIsImplemented == Spec => StoreSpec
  <1>1. Init => StoreInit
    BY DEF Init
  <1>2. JobInv /\ [Next]_vars => [StoreNext]_storeVars
    BY StepIsStoreStep
  <1> QED BY <1>1, <1>2, JobInvariant, PTL DEF Spec, StoreSpec

\* The worker and Reconcile only work for an operation whose row is running
\* or compensating and holds its three locks.
THEOREM WorkAlwaysLocked == Spec => []WorkIsLocked
  <1>1. JobInv /\ StoreInv => WorkIsLocked
    BY NoneIsNoOperation
    DEF JobInv, RowsMatch, StoreInv, LiveHoldsItsClaim, WorkIsLocked, Live
  <1> QED BY <1>1, JobInvariant, PTL

\* No step, the recovery of an interrupted operation from its lock rows
\* included, changes the names an operation was accepted with.
THEOREM NamesNeverChange == Spec => NamesAreKept
  <1> DEFINE SameNames == \A o \in OpId : row[o] # None /\ row'[o] # None => row'[o] = row[o]
  <1>1. JobInv /\ StoreInv /\ [Next]_vars => [SameNames]_vars
    <2> SUFFICES ASSUME JobInv, StoreInv, Next PROVE SameNames
      BY DEF SameNames
    <2>1. ASSUME NEW o \in OpId, EnqueueInsert(o) PROVE SameNames
      BY <2>1 DEF EnqueueInsert, InsertQueued, JobInv, RowsMatch
    <2>2. ASSUME NEW o \in OpId,
                 ReconcileInterrupt(o) \/ ReconcileResume(o) \/ ReconcileResolve(o)
          PROVE  SameNames
      BY <2>2, ReconcileJobInv
    <2>3. ASSUME ReconcilePrune PROVE SameNames
      BY <2>3 DEF ReconcilePrune
    <2>4. ASSUME NEW o \in OpId, \/ EnqueuePrepare(o) \/ Claim(o) \/ DuplicateStep(o)
                                 \/ DuplicateReturns(o) \/ CompensateStep(o) \/ CompensationEnds(o)
          PROVE  SameNames
      <3>1. row' = row
        BY <2>4 DEF EnqueuePrepare, Claim, DuplicateStep, Running, DuplicateReturns,
                    CompensateStep, CompensateDatabase, CompensateCredential, CompensateRole,
                    Compensating, CompensationEnds, jobVars
      <3> QED BY <3>1
    <2>5. ASSUME \/ Poll \/ Boot \/ ReconcileNextPhase \/ LedgerFailure \/ Crash
                 \/ OtherRequest \/ Clock
          PROVE  SameNames
      BY <2>5 DEF Poll, Boot, ReconcileNextPhase, LedgerFailure, Crash, OtherRequest,
                  Clock, jobVars
    <2> QED BY <2>1, <2>2, <2>3, <2>4, <2>5 DEF Next, WorkerStep, ReconcileStep
  <1> QED BY <1>1, JobInvariant, PTL DEF Spec, NamesAreKept

----------------------------------------------------------------------------
(***************************************************************************)
(* The phases of Reconcile.                                                 *)
(***************************************************************************)

\* What a phase has left to settle is on its list or in hand, and what the
\* phases before it settle is gone.
PhaseInv ==
    \A o \in OpId :
        /\ mode = "interrupt" => (status[o] = "running" => o \in todo)
        /\ mode \in {"resume", "resolve"} => status[o] # "running"
        /\ mode = "resume" => (status[o] = "compensating" => o \in todo \cup {cur})
        /\ mode = "resolve" => /\ status[o] = "interrupted" => o \in todo
                               /\ status[o] = "compensating" => o = cur

\* A step that writes nothing to the ledger.
LEMMA QuietPhase ==
    ASSUME PhaseInv, status' = status, mode' = mode, todo' = todo, cur' = cur
    PROVE  PhaseInv'
  BY DEF PhaseInv

\* In a process that serves there is nothing to show.
LEMMA OtherPhase == ASSUME mode' \in {"serve", "down"} PROVE PhaseInv'
  BY DEF PhaseInv

\* A row is written on the way of its phase.
LEMMA WritePhase ==
    ASSUME JobInv, StoreInv, PhaseInv, NEW o \in OpId,
           CompensationEnds(o) \/ ReconcileInterrupt(o) \/ ReconcileResolve(o) \/ ReconcileResume(o)
    PROVE  PhaseInv'
  <1> USE NoneIsNoOperation
  <1>0. status \in [OpId -> Status \cup {"absent"}]
    BY DEF StoreInv, StoreTypeOK
  <1>1. CASE CompensationEnds(o)
    <2>1. PICK to \in {"failed", "indeterminate"} :
             status[o] = "compensating" /\ status' = [status EXCEPT ![o] = to]
      BY <1>1 DEF CompensationEnds, Transition
    <2>2. UNCHANGED <<mode, todo>> /\ cur = o
      BY <1>1 DEF CompensationEnds
    <2> QED BY <1>0, <2>1, <2>2 DEF PhaseInv
  <1>2. CASE ReconcileInterrupt(o)
    <2>1. /\ status' = [status EXCEPT ![o] = "interrupted"] /\ mode = "interrupt"
          /\ mode' = mode /\ todo' = todo \ {o}
      BY <1>2 DEF ReconcileInterrupt, Transition
    <2> QED BY <1>0, <2>1 DEF PhaseInv
  <1>3. CASE ReconcileResolve(o)
    <2>1. PICK to \in {"failed", "succeeded", "compensating", "indeterminate"} :
             /\ status' = [status EXCEPT ![o] = to]
             /\ to = "compensating" => cur' = o
             /\ to # "compensating" => cur' = cur
      BY <1>3 DEF ReconcileResolve, Transition
    <2>2. mode = "resolve" /\ mode' = mode /\ todo' = todo \ {o} /\ cur = None
      BY <1>3 DEF ReconcileResolve, JobInv
    <2> QED BY <1>0, <2>1, <2>2 DEF PhaseInv
  <1>4. CASE ReconcileResume(o)
    <2>1. status' = status /\ mode = "resume" /\ mode' = mode /\ todo' = todo \ {o}
          /\ cur = None /\ cur' = o
      BY <1>4 DEF ReconcileResume, JobInv, storeVars
    <2> QED BY <2>1 DEF PhaseInv
  <1> QED BY <1>1, <1>2, <1>3, <1>4

\* A list is complete when it is read, and its phase is over when it is empty.
LEMMA NextPhase ==
    ASSUME JobInv, PhaseInv, Boot \/ ReconcileNextPhase
    PROVE  PhaseInv'
  <1>1. CASE Boot
    BY <1>1 DEF Boot, PhaseInv, WithStatus, storeVars
  <1>2. CASE ReconcileNextPhase
    <2>1. status' = status /\ cur' = cur /\ cur = None /\ todo = {}
      BY <1>2 DEF ReconcileNextPhase, storeVars, JobInv
    <2>2. \/ mode = "interrupt" /\ mode' = "resume" /\ todo' = WithStatus("compensating")
          \/ mode = "resume" /\ mode' = "resolve" /\ todo' = WithStatus("interrupted")
      BY <1>2 DEF ReconcileNextPhase
    <2> QED BY <2>1, <2>2, NoneIsNoOperation DEF PhaseInv, WithStatus
  <1> QED BY <1>1, <1>2

\* PhaseInv is inductive, given JobInv and the invariant of the ledger.
LEMMA PhaseNextInv ==
    ASSUME JobInv, StoreInv, PhaseInv, [Next]_vars
    PROVE  PhaseInv'
  <1>1. ASSUME NEW o \in OpId, EnqueueInsert(o) PROVE PhaseInv'
    <2>1. UNCHANGED <<mode, todo, cur>>
      BY <1>1 DEF EnqueueInsert
    <2>2. \/ status' = status
          \/ status' = [status EXCEPT ![o] = "queued"]
      BY <1>1 DEF EnqueueInsert, InsertQueued, storeVars
    <2> QED BY <2>1, <2>2 DEF PhaseInv, StoreInv, StoreTypeOK
  <1>2. ASSUME NEW o \in OpId,
               CompensationEnds(o) \/ ReconcileInterrupt(o) \/ ReconcileResolve(o) \/ ReconcileResume(o)
        PROVE  PhaseInv'
    BY <1>2, WritePhase
  <1>3. ASSUME Boot \/ ReconcileNextPhase PROVE PhaseInv'
    BY <1>3, NextPhase
  <1>4. ASSUME NEW o \in OpId, EnqueuePrepare(o) \/ DuplicateStep(o) \/ CompensateStep(o)
        PROVE  PhaseInv'
    <2>1. UNCHANGED <<status, mode, todo, cur>>
      BY <1>4 DEF EnqueuePrepare, DuplicateStep, Running, CompensateStep, CompensateDatabase,
                  CompensateCredential, CompensateRole, Compensating, storeVars, jobVars
    <2> QED BY <2>1, QuietPhase
  <1>5. ASSUME NEW o \in OpId, Claim(o) \/ DuplicateReturns(o) PROVE PhaseInv'
    <2>1. mode' = "serve"
      BY <1>5 DEF Claim, DuplicateReturns
    <2> QED BY <2>1, OtherPhase
  <1>6. ASSUME Poll \/ ReconcilePrune \/ LedgerFailure \/ Crash \/ OtherRequest \/ Clock
        PROVE  PhaseInv'
    <2>1. mode' \in {"serve", "down"}
      BY <1>6 DEF Poll, ReconcilePrune, LedgerFailure, Crash, OtherRequest, Clock, jobVars
    <2> QED BY <2>1, OtherPhase
  <1>7. ASSUME UNCHANGED vars PROVE PhaseInv'
    BY <1>7, QuietPhase DEF vars, storeVars, jobVars
  <1> QED BY <1>1, <1>2, <1>3, <1>4, <1>5, <1>6, <1>7 DEF Next, WorkerStep, ReconcileStep

\* Reconcile is complete: whatever faults and deaths interrupted it before, a
\* process serves only after every row that was running, interrupted or
\* compensating has been settled.
THEOREM RestartSettlesAll == Spec => ServesOnlySettled
  <1> DEFINE Settled == mode # "serve" /\ mode' = "serve" =>
                           \A o \in OpId : status'[o] \notin Unsettled
  <1>1. ASSUME JobInv, PhaseInv, Next, mode # "serve", mode' = "serve"
        PROVE  ReconcilePrune
    BY <1>1 DEF Next, WorkerStep, ReconcileStep, EnqueuePrepare, EnqueueInsert, Poll, Claim,
       DuplicateStep, Running, DuplicateReturns, CompensateStep, CompensateDatabase,
       CompensateCredential, CompensateRole, Compensating, CompensationEnds, Boot,
       ReconcileInterrupt, ReconcileResume, ReconcileResolve, ReconcileNextPhase,
       LedgerFailure, Crash, OtherRequest, Clock, jobVars
  <1>2. ASSUME JobInv, PhaseInv, ReconcilePrune
        PROVE  \A o \in OpId : status'[o] \notin Unsettled
    <2>1. /\ mode = "resolve" /\ todo = {} /\ cur = None
          /\ status' = [o \in OpId |-> IF o \in Pruned THEN "absent" ELSE status[o]]
      BY <1>2 DEF ReconcilePrune, pruneTerminal, JobInv
    <2> QED BY <1>2, <2>1, NoneIsNoOperation DEF PhaseInv, Unsettled
  <1>3. JobInv /\ PhaseInv /\ [Next]_vars => [Settled]_vars
    BY <1>1, <1>2 DEF Settled
  <1>4. Init => PhaseInv
    BY DEF Init, PhaseInv
  <1>5. JobInv /\ StoreInv /\ PhaseInv /\ [Next]_vars => PhaseInv'
    BY PhaseNextInv
  <1> QED BY <1>3, <1>4, <1>5, JobInvariant, PTL DEF Spec, ServesOnlySettled

----------------------------------------------------------------------------
(***************************************************************************)
(* Types. The duplicate shares the steps of Create; a step is typed because *)
(* the call that takes it has the names it works on.                        *)
(***************************************************************************)

\* A call in flight has a database, and an owner once it works on one.
CallsNamed ==
    \A x \in Caller :
        /\ call[x].pc \notin {"idle", "done"} => call[x].database \in Database
        /\ call[x].pc \notin {"idle", "done", "lookup", "gate", "truncate"} => call[x].owner \in Role

CallsTyped == RequestsTypeOK /\ CallsNamed

\* The call has both names.
Working(x) == call[x].pc \notin {"idle", "done", "lookup", "gate", "truncate"}

\* The call moves on, and keeps its names.
Acts(x) ==
    \/ \E p \in Step : Goto(x, p)
    \/ \E out \in Outcome : Answer(x, out) \/ Undo(x, out)
    \/ \E w \in {"role", "database", "vault"}, p \in Step : Made(x, w, p)

\* The step moves no other call.
Alone(x) == \A y \in Caller : y # x => call'[y] = call[y]

\* At most one statement failed.
Counts == faults' = faults \/ \E reply \in Reply : Charge(reply)

\* The catalog is typed when what the statement wrote is.
LEMMA CatalogKeeps ==
    ASSUME CatalogTypeOK, Counts, db' \in [Database -> DatabaseRow \cup {None}],
           role' \in [Role -> RoleRow \cup {None}], vault' \in [Role -> Maker \cup {None}]
    PROVE  CatalogTypeOK'
  BY ChargeCounts DEF Counts, CatalogTypeOK

\* A call that has its names, or gets them, is typed afterwards.
LEMMA MovedTyped ==
    ASSUME CallsTyped, NEW x \in Caller, NEW p, NEW d, NEW o, NEW m, NEW out,
           Moved(x, p, d, o, m, out), CatalogTypeOK',
           p \notin {"idle", "done"} => d \in Database,
           p \notin {"idle", "done", "lookup", "gate", "truncate"} => o \in Role,
           rotating' \subseteq Role, dropping' \subseteq Database, truncating' \subseteq Database
    PROVE  CallsTyped' /\ Alone(x)
  BY DEF CallsTyped, CallsNamed, RequestsTypeOK, RequestTypeOK, Moved, CallRow, Alone

\* A call that goes on keeps its names, and so its type.
LEMMA ActsTyped ==
    ASSUME CallsTyped, NEW x \in Caller, Working(x), Acts(x), CatalogTypeOK',
           rotating' \subseteq Role, dropping' \subseteq Database, truncating' \subseteq Database
    PROVE  CallsTyped' /\ Alone(x)
  <1>1. /\ RequestTypeOK /\ call[x].database \in Database /\ call[x].owner \in Role
    BY DEF CallsTyped, CallsNamed, RequestsTypeOK, Working
  <1>2. \E p, m, out : Moved(x, p, call[x].database, call[x].owner, m, out)
    BY <1>1, GotoMoves, AnswerMoves, MadeMoves, UndoMoves DEF Acts
  <1> QED BY <1>1, <1>2, MovedTyped

\* The statements of Create and Duplicate.
LEMMA CreateEffects ==
    ASSUME NEW x \in Caller,
           \/ CreateRoleStep(x) \/ CreateDatabaseStep(x) \/ DuplicateDatabaseStep(x)
           \/ LockConnectStep(x) \/ AssertSource(x) \/ InsertCredentialStep(x)
           \/ DuplicateTransfer(x)
    PROVE  /\ Working(x) /\ NoLocks /\ Counts /\ Acts(x)
           /\ role' \in {role, CreateRole(call[x].owner, x)}
           /\ vault' \in {vault, PutCredential(call[x].owner, x)}
           /\ \/ db' = db
              \/ db' = CreateDatabase(call[x].database, call[x].owner, x)
              \/ /\ DatabaseExists(call[x].source)
                 /\ db' = CreateDatabaseTemplate(call[x].database, call[x].source, call[x].owner, x)
              \/ /\ DatabaseExists(call[x].database)
                 /\ db' = TransferCloneOwnership(call[x].database, call[x].owner)
  <1> USE DEF At, Working, Counts
  <1>0. /\ \A p : Goto(x, p) /\ p \in Step => Acts(x)
        /\ \A out : (Answer(x, out) \/ Undo(x, out)) /\ out \in Outcome => Acts(x)
        /\ \A w, p : Made(x, w, p) /\ w \in {"role", "database", "vault"} /\ p \in Step => Acts(x)
    BY DEF Acts
  <1>1. /\ {"createDatabase", "lockConnect", "insertCredential", "assertFirst", "transfer",
            "assertLast"} \subseteq Step
        /\ {"ok", "conflict", "unavailable", "notFound", "isolation"} \subseteq Outcome
    BY DEF Step, Outcome
  <1>2. Charge("error") => \E reply \in Reply : Charge(reply)
    BY DEF Reply
  <1>3. CASE CreateRoleStep(x)
    BY <1>0, <1>1, <1>3 DEF CreateRoleStep
  <1>4. CASE CreateDatabaseStep(x)
    BY <1>0, <1>1, <1>4 DEF CreateDatabaseStep
  <1>5. CASE DuplicateDatabaseStep(x)
    BY <1>0, <1>1, <1>5 DEF DuplicateDatabaseStep
  <1>6. CASE LockConnectStep(x)
    BY <1>0, <1>1, <1>2, <1>6 DEF LockConnectStep, ReadFails
  <1>7. CASE AssertSource(x)
    BY <1>0, <1>1, <1>2, <1>7 DEF AssertSource, ReadFails
  <1>8. CASE InsertCredentialStep(x)
    BY <1>0, <1>1, <1>8 DEF InsertCredentialStep
  <1>9. CASE DuplicateTransfer(x)
    BY <1>0, <1>1, <1>9 DEF DuplicateTransfer
  <1> QED BY <1>3, <1>4, <1>5, <1>6, <1>7, <1>8, <1>9

\* The statements of compensateCreate.
LEMMA UndoEffects ==
    ASSUME RequestTypeOK, NEW x \in Caller,
           UndoCredentialStep(x) \/ UndoDatabaseStep(x) \/ UndoRoleStep(x)
    PROVE  /\ Working(x) /\ NoLocks /\ Counts /\ Acts(x)
           /\ db' \in {db, DropDatabase(call[x].database)}
           /\ role' \in {role, DropRole(call[x].owner)}
           /\ vault' \in {vault, DeleteCredential(call[x].owner)}
  <1> USE DEF At, Working, Counts
  <1>0. /\ \A p : Goto(x, p) /\ p \in Step => Acts(x)
        /\ \A out : Answer(x, out) /\ out \in Outcome => Acts(x)
    BY DEF Acts
  <1>1. {"undoDatabase", "undoRole"} \subseteq Step /\ call[x].outcome \in Outcome
    BY DEF Step, RequestTypeOK
  <1>2. CASE UndoCredentialStep(x)
    BY <1>0, <1>1, <1>2 DEF UndoCredentialStep
  <1>3. CASE UndoDatabaseStep(x)
    BY <1>0, <1>1, <1>3 DEF UndoDatabaseStep
  <1>4. CASE UndoRoleStep(x)
    BY <1>0, <1>1, <1>4 DEF UndoRoleStep
  <1> QED BY <1>2, <1>3, <1>4

\* The row of a clone after the transfer.
LEMMA TransferredRow ==
    ASSUME CatalogTypeOK, NEW d \in Database, NEW r \in Role, DatabaseExists(d)
    PROVE  [db[d] EXCEPT !.objects = {Transferred(x, r) : x \in @}] \in DatabaseRow
  <1>1. db[d] \in DatabaseRow
    BY DEF CatalogTypeOK, DatabaseExists
  <1>2. \A x \in Object : Transferred(x, r) \in Object
    BY DEF Transferred, Object
  <1>3. {Transferred(x, r) : x \in db[d].objects} \subseteq Object
    BY <1>1, <1>2 DEF DatabaseRow
  <1> QED BY <1>1, <1>3 DEF DatabaseRow

\* The clone of a source that is there, and the transfer of what is in it.
LEMMA CloneStatements ==
    ASSUME CatalogTypeOK, NEW d \in Database, NEW s \in Database, NEW r \in Role, NEW x \in Caller
    PROVE  /\ DatabaseExists(s) =>
                 CreateDatabaseTemplate(d, s, r, x) \in [Database -> DatabaseRow \cup {None}]
           /\ DatabaseExists(d) =>
                 TransferCloneOwnership(d, r) \in [Database -> DatabaseRow \cup {None}]
  <1>1. DatabaseExists(s) =>
           CreateDatabaseTemplate(d, s, r, x) \in [Database -> DatabaseRow \cup {None}]
    BY DEF CatalogTypeOK, CreateDatabaseTemplate, DatabaseExists, DatabaseRow, Maker
  <1>2. ASSUME DatabaseExists(d)
        PROVE  TransferCloneOwnership(d, r) \in [Database -> DatabaseRow \cup {None}]
    BY <1>2, TransferredRow DEF TransferCloneOwnership, CatalogTypeOK
  <1> QED BY <1>1, <1>2

\* Create, Duplicate and their compensation keep the types.
LEMMA CreateTyped ==
    ASSUME CallsTyped, NEW x \in Caller,
           \/ CreateRoleStep(x) \/ CreateDatabaseStep(x)
           \/ DuplicateDatabaseStep(x) /\ call[x].source \in Database
           \/ LockConnectStep(x) \/ AssertSource(x) \/ InsertCredentialStep(x)
           \/ DuplicateTransfer(x)
           \/ UndoCredentialStep(x) \/ UndoDatabaseStep(x) \/ UndoRoleStep(x)
    PROVE  CallsTyped' /\ Alone(x)
  <1>1. RequestTypeOK /\ CatalogTypeOK
    BY DEF CallsTyped, RequestsTypeOK
  <1>2. Working(x) /\ NoLocks /\ Counts /\ Acts(x)
    BY <1>1, CreateEffects, UndoEffects
  <1>3. call[x].database \in Database /\ call[x].owner \in Role
    BY <1>2 DEF CallsTyped, CallsNamed, Working
  <1>4. /\ rotating' \subseteq Role /\ dropping' \subseteq Database /\ truncating' \subseteq Database
    BY <1>1, <1>2 DEF NoLocks, RequestTypeOK
  <1>5. /\ role' \in {role, CreateRole(call[x].owner, x), DropRole(call[x].owner)}
        /\ vault' \in {vault, PutCredential(call[x].owner, x), DeleteCredential(call[x].owner)}
    BY <1>1, CreateEffects, UndoEffects
  <1>6. /\ role' \in [Role -> RoleRow \cup {None}]
        /\ vault' \in [Role -> Maker \cup {None}]
    BY <1>1, <1>3, <1>5, RoleStatements, VaultStatements DEF CatalogTypeOK
  <1>7. db' \in [Database -> DatabaseRow \cup {None}]
    <2>1. CASE DuplicateDatabaseStep(x) /\ call[x].source \in Database
      BY <1>1, <1>3, <2>1, CloneStatements DEF DuplicateDatabaseStep, CatalogTypeOK
    <2>2. CASE DuplicateTransfer(x)
      BY <1>1, <1>3, <2>2, CloneStatements DEF DuplicateTransfer, CatalogTypeOK
    <2>3. CASE CreateDatabaseStep(x)
      BY <1>1, <1>3, <2>3, DatabaseStatements DEF CreateDatabaseStep, CatalogTypeOK
    <2>4. CASE UndoDatabaseStep(x)
      BY <1>1, <1>3, <2>4, UndoEffects, DatabaseStatements DEF CatalogTypeOK
    <2>5. CASE \/ CreateRoleStep(x) \/ LockConnectStep(x) \/ AssertSource(x)
               \/ InsertCredentialStep(x) \/ UndoCredentialStep(x) \/ UndoRoleStep(x)
      <3>1. db' = db
        BY <2>5 DEF CreateRoleStep, LockConnectStep, AssertSource, InsertCredentialStep,
                    UndoCredentialStep, UndoRoleStep
      <3> QED BY <1>1, <3>1 DEF CatalogTypeOK
    <2> QED BY <2>1, <2>2, <2>3, <2>4, <2>5
  <1>8. CatalogTypeOK'
    BY <1>1, <1>2, <1>6, <1>7, CatalogKeeps
  <1> QED BY <1>2, <1>4, <1>8, ActsTyped

\* The steps at which a request learns its names.
LEMMA LookupTyped ==
    ASSUME CallsTyped, NEW x \in Caller,
           \/ CreateCheck(x) \/ RotateLookup(x) \/ DropLock(x) \/ DropLookup(x) \/ DropGate(x)
           \/ TruncateLock(x) \/ TruncateStep(x)
    PROVE  CallsTyped' /\ Alone(x)
  <1> USE DEF At
  <1>1. /\ RequestTypeOK /\ CatalogTypeOK /\ call \in [Caller -> CallRow] /\ call[x] \in CallRow
        /\ rotating \subseteq Role /\ dropping \subseteq Database /\ truncating \subseteq Database
    BY DEF CallsTyped, RequestsTypeOK, RequestTypeOK, CallRow
  <1>2. /\ {"createRole", "lockOwner", "lookup", "gate", "dropDatabase", "truncate", "done"} \subseteq Step
        /\ {"ok", "busy", "notFound", "unavailable", "gateDenied"} \subseteq Outcome
    BY DEF Step, Outcome
  <1>3. ASSUME NEW p \in Step, NEW d \in Database, NEW r \in Role,
               call' = [call EXCEPT ![x].pc = p, ![x].database = d, ![x].owner = r]
        PROVE  Moved(x, p, d, r, call[x].made, call[x].outcome)
    BY <1>1, <1>3 DEF Moved, CallRow
  <1>4. ASSUME NEW p \in Step, NEW d \in Database,
               call' = [call EXCEPT ![x].pc = p, ![x].database = d]
        PROVE  Moved(x, p, d, call[x].owner, call[x].made, call[x].outcome)
    BY <1>1, <1>4 DEF Moved, CallRow
  <1>5. ASSUME NEW p \in Step, NEW r \in Role,
               call' = [call EXCEPT ![x].pc = p, ![x].owner = r]
        PROVE  Moved(x, p, call[x].database, r, call[x].made, call[x].outcome)
    BY <1>1, <1>5 DEF Moved, CallRow
  <1>6. ASSUME faults' = faults \/ ReadFails, db' = db, role' = role, vault' = vault
        PROVE  CatalogTypeOK'
    <2>1. Counts
      BY <1>6 DEF Counts, ReadFails, Reply
    <2> QED BY <1>1, <1>6, <2>1, CatalogKeeps DEF CatalogTypeOK
  <1>7. CASE CreateCheck(x)
    <2>1. PICK d \in Database, r \in Role :
             call' = [call EXCEPT ![x].pc = "createRole", ![x].database = d, ![x].owner = r]
      BY <1>7 DEF CreateCheck
    <2>2. Moved(x, "createRole", d, r, call[x].made, call[x].outcome)
      BY <1>2, <1>3, <2>1
    <2>3. UNCHANGED <<rotating, dropping, truncating>> /\ CatalogTypeOK'
      BY <1>6, <1>7 DEF CreateCheck, NoLocks, catalogVars
    <2> QED BY <1>1, <2>2, <2>3, MovedTyped
  <1>8. CASE RotateLookup(x)
    <2>1. PICK d \in Database :
             /\ Manageable(d)
             /\ call' = [call EXCEPT ![x].pc = "lockOwner", ![x].database = d, ![x].owner = db[d].owner]
      BY <1>8 DEF RotateLookup
    <2>2. db[d].owner \in Role
      BY <1>1, <2>1, ManageableOwner
    <2>3. Moved(x, "lockOwner", d, db[d].owner, call[x].made, call[x].outcome)
      BY <1>2, <1>3, <2>1, <2>2
    <2>4. UNCHANGED <<rotating, dropping, truncating>> /\ CatalogTypeOK'
      BY <1>6, <1>8 DEF RotateLookup, NoLocks, catalogVars
    <2> QED BY <1>1, <2>2, <2>3, <2>4, MovedTyped
  <1>9. CASE DropLock(x) \/ TruncateLock(x)
    <2>1. PICK d \in Database, p \in {"lookup", "truncate"} :
             /\ \/ call' = [call EXCEPT ![x].pc = "done", ![x].database = d, ![x].outcome = "busy"]
                \/ call' = [call EXCEPT ![x].pc = p, ![x].database = d]
             /\ dropping' \subseteq dropping \cup {d} /\ truncating' \subseteq truncating \cup {d}
             /\ rotating' = rotating /\ UNCHANGED catalogVars
      BY <1>9 DEF DropLock, TruncateLock
    <2>2. CatalogTypeOK'
      BY <1>6, <2>1 DEF catalogVars
    <2>3. CASE call' = [call EXCEPT ![x].pc = p, ![x].database = d]
      <3>1. Moved(x, p, d, call[x].owner, call[x].made, call[x].outcome)
        BY <1>2, <1>4, <2>3
      <3> QED BY <1>1, <2>1, <2>2, <3>1, MovedTyped
    <2>4. CASE call' = [call EXCEPT ![x].pc = "done", ![x].database = d, ![x].outcome = "busy"]
      <3>1. Moved(x, "done", d, call[x].owner, call[x].made, "busy")
        BY <1>1, <1>2, <2>4, ThreeFieldsMove
      <3> QED BY <1>1, <2>1, <2>2, <3>1, MovedTyped
    <2> QED BY <2>1, <2>3, <2>4
  <1>10. CASE DropLookup(x) \/ TruncateStep(x)
    <2>1. /\ \/ Goto(x, "gate")
             \/ \E out \in {"ok", "notFound", "unavailable"} : Answer(x, out)
          /\ db' = db /\ role' = role /\ vault' = vault /\ (faults' = faults \/ ReadFails)
          /\ rotating' = rotating /\ dropping' \subseteq dropping /\ truncating' \subseteq truncating
      BY <1>10 DEF DropLookup, DropEnds, TruncateStep, catalogVars
    <2>2. CatalogTypeOK' /\ call[x].database \in Database
      BY <1>6, <1>10, <2>1 DEF DropLookup, TruncateStep, CallsTyped, CallsNamed
    <2>3. \E p \in {"gate", "done"} : \E out :
             Moved(x, p, call[x].database, call[x].owner, call[x].made, out)
      BY <1>1, <1>2, <2>1, GotoMoves, AnswerMoves
    <2> QED BY <1>1, <2>1, <2>2, <2>3, MovedTyped
  <1>11. CASE DropGate(x)
    <2>1. /\ \/ Answer(x, "gateDenied") \/ Answer(x, "notFound")
             \/ /\ Manageable(call[x].database)
                /\ call' = [call EXCEPT ![x].pc = "dropDatabase", ![x].owner = db[call[x].database].owner]
          /\ UNCHANGED <<catalogVars, rotating, truncating>> /\ dropping' \subseteq dropping
      BY <1>11 DEF DropGate, DropEnds
    <2>2. CatalogTypeOK' /\ call[x].database \in Database
      BY <1>6, <1>11, <2>1 DEF DropGate, CallsTyped, CallsNamed, catalogVars
    <2>3. CASE Answer(x, "gateDenied") \/ Answer(x, "notFound")
      <3>1. \E out : Moved(x, "done", call[x].database, call[x].owner, call[x].made, out)
        BY <1>1, <1>2, <2>3, AnswerMoves
      <3> QED BY <1>1, <2>1, <2>2, <3>1, MovedTyped
    <2>4. CASE /\ Manageable(call[x].database)
               /\ call' = [call EXCEPT ![x].pc = "dropDatabase", ![x].owner = db[call[x].database].owner]
      <3>1. db[call[x].database].owner \in Role
        BY <1>1, <2>2, <2>4, ManageableOwner
      <3>2. Moved(x, "dropDatabase", call[x].database, db[call[x].database].owner,
                  call[x].made, call[x].outcome)
        BY <1>2, <1>5, <2>4, <3>1
      <3> QED BY <1>1, <2>1, <2>2, <3>1, <3>2, MovedTyped
    <2> QED BY <2>1, <2>3, <2>4
  <1> QED BY <1>7, <1>8, <1>9, <1>10, <1>11

\* The statements of Rotate and Drop.
LEMMA StatementTyped ==
    ASSUME CallsTyped, NEW x \in Caller,
           \/ RotateLock(x) \/ RotateAlter(x) \/ RotateUpsert(x)
           \/ DropDatabaseStep(x) \/ DropRoleStep(x) \/ DropCredentialStep(x)
    PROVE  CallsTyped' /\ Alone(x)
  <1> USE DEF At
  <1>1. /\ RequestTypeOK /\ CatalogTypeOK
        /\ rotating \subseteq Role /\ dropping \subseteq Database /\ truncating \subseteq Database
    BY DEF CallsTyped, RequestsTypeOK, RequestTypeOK
  <1>2. Working(x)
    BY DEF Working, RotateLock, RotateAlter, RotateUpsert, DropDatabaseStep, DropRoleStep,
           DropCredentialStep
  <1>3. call[x].database \in Database /\ call[x].owner \in Role
    BY <1>2 DEF CallsTyped, CallsNamed, Working
  <1>4. /\ {"alterRole", "upsert", "dropRole", "deleteCredential"} \subseteq Step
        /\ {"ok", "busy", "unavailable", "vaultUnsynced", "roleDropFailed", "vaultDeleteFailed"}
              \subseteq Outcome
    BY DEF Step, Outcome
  <1>5. /\ \A p : Goto(x, p) /\ p \in Step => Acts(x)
        /\ \A out : Answer(x, out) /\ out \in Outcome => Acts(x)
    BY DEF Acts
  <1>6. ReadFails => Counts
    BY DEF Counts, ReadFails, Reply
  <1>7. /\ Acts(x) /\ Counts
        /\ rotating' \subseteq rotating \cup {call[x].owner}
        /\ dropping' \subseteq dropping /\ truncating' = truncating
        /\ db' = db \/ db' = DropDatabase(call[x].database)
        /\ \/ role' = role \/ role' = DropRole(call[x].owner)
           \/ RoleExists(call[x].owner) /\ role' = AlterRolePassword(call[x].owner, x)
        /\ \/ vault' = vault \/ vault' = PutCredential(call[x].owner, x)
           \/ vault' = DeleteCredential(call[x].owner)
    <2>1. CASE RotateLock(x)
      BY <1>4, <1>5, <2>1 DEF RotateLock, catalogVars, Counts
    <2>2. CASE RotateAlter(x)
      BY <1>4, <1>5, <2>2 DEF RotateAlter, Counts
    <2>3. CASE RotateUpsert(x)
      BY <1>4, <1>5, <2>3 DEF RotateUpsert, Counts
    <2>4. CASE DropDatabaseStep(x)
      BY <1>4, <1>5, <2>4 DEF DropDatabaseStep, DropEnds, Counts
    <2>5. CASE DropRoleStep(x)
      BY <1>4, <1>5, <1>6, <2>5 DEF DropRoleStep, DropEnds, Counts
    <2>6. CASE DropCredentialStep(x)
      BY <1>4, <1>5, <2>6 DEF DropCredentialStep, DropEnds, Counts
    <2> QED BY <2>1, <2>2, <2>3, <2>4, <2>5, <2>6
  <1>8. /\ db' \in [Database -> DatabaseRow \cup {None}]
        /\ role' \in [Role -> RoleRow \cup {None}]
        /\ vault' \in [Role -> Maker \cup {None}]
    BY <1>1, <1>3, <1>7, DatabaseStatements, RoleStatements, VaultStatements DEF CatalogTypeOK
  <1>9. CatalogTypeOK'
    BY <1>1, <1>7, <1>8, CatalogKeeps
  <1>10. rotating' \subseteq Role /\ dropping' \subseteq Database /\ truncating' \subseteq Database
    BY <1>1, <1>3, <1>7
  <1> QED BY <1>2, <1>7, <1>9, <1>10, ActsTyped

\* Every in-request step keeps the types, and moves no call of the worker.
LEMMA RequestTyped ==
    ASSUME CallsTyped, RequestNext
    PROVE  CallsTyped' /\ \A o \in OpId : call'[o] = call[o]
  <1>1. PICK x \in Creates \cup Rotates \cup Drops \cup Truncates :
           CreateNext(x) \/ RotateNext(x) \/ DropNext(x) \/ TruncateNext(x)
    BY DEF RequestNext
  <1>2. x \in Caller /\ x \notin OpId /\ OpId \subseteq Caller
    BY <1>1, JobAssumption, RequestAssumption
  <1>3. CallsTyped' /\ Alone(x)
    BY <1>1, <1>2, CreateTyped, LookupTyped, StatementTyped
    DEF CreateNext, RotateNext, DropNext, TruncateNext
  <1> QED BY <1>2, <1>3 DEF Alone

----------------------------------------------------------------------------
\* The call the worker runs has the names of the row it runs for.
CallMatches ==
    job = "run" => /\ call[cur].source = row[cur].source
                   /\ call[cur].database = row[cur].database
                   /\ call[cur].owner = row[cur].owner

\* What JobTypeOK needs beyond JobInv and StoreInv.
JobTyped ==
    /\ CallsTyped
    /\ CallMatches
    /\ mode \in Mode
    /\ job \in JobStep
    /\ crashes \in 0 .. MaxCrashes

\* The names of the operation in hand.
LEMMA NamesInHand ==
    ASSUME JobInv, cur # None
    PROVE  /\ cur \in OpId /\ cur \in Caller /\ row[cur] \in Requests
           /\ row[cur].source \in Database /\ row[cur].database \in Database
           /\ row[cur].owner \in Role /\ row[cur].source # row[cur].database
           /\ row[cur].database \notin DeniedDb /\ row[cur].owner \notin DeniedRole
  <1>1. cur \in OpId /\ row[cur] \in Requests
    BY DEF JobInv, RowsMatch, Live
  <1> QED BY <1>1, JobAssumption DEF Request

\* A step of the worker's call keeps its names.
LEMMA ActsKeepNames ==
    ASSUME RequestTypeOK, NEW x \in Caller, Acts(x)
    PROVE  /\ call'[x].source = call[x].source
           /\ call'[x].database = call[x].database
           /\ call'[x].owner = call[x].owner
  BY DEF Acts, Goto, Answer, Undo, Made, RequestTypeOK

\* PrepareDuplicate inside the call.
LEMMA PrepareTyped ==
    ASSUME JobInv, CallsTyped, NEW o \in OpId, cur = o, DuplicatePrepare(o)
    PROVE  /\ CallsTyped'
           /\ call'[o].source = call[o].source
           /\ call'[o].database = call[o].database
           /\ call'[o].owner = call[o].owner
  <1> USE DEF At
  <1>1. /\ RequestTypeOK /\ CatalogTypeOK /\ o \in Caller /\ Working(o)
        /\ call \in [Caller -> CallRow]
        /\ rotating \subseteq Role /\ dropping \subseteq Database /\ truncating \subseteq Database
    BY JobAssumption DEF CallsTyped, RequestsTypeOK, RequestTypeOK, DuplicatePrepare, Working, CallRow
  <1>2. /\ row[o].source \in Database
        /\ call[o].database \in Database /\ call[o].owner \in Role
    BY <1>1, NamesInHand, NoneIsNoOperation DEF CallsTyped, CallsNamed, Working
  <1>3. UNCHANGED <<rotating, dropping, truncating>> /\ CatalogTypeOK'
    <2>1. Counts /\ db' = db /\ role' = role /\ vault' = vault
      BY DEF DuplicatePrepare, Counts, ReadFails, Reply
    <2> QED BY <1>1, <2>1, CatalogKeeps DEF CatalogTypeOK, DuplicatePrepare, NoLocks
  <1>4. CASE /\ PrepareAnswer(row[o]) = "ok"
             /\ call' = [call EXCEPT ![o].pc = "createRole", ![o].snapshot = db[row[o].source].owner]
    <2>1. db[row[o].source].owner \in Role
      BY <1>1, <1>2, <1>4 DEF PrepareAnswer, DatabaseExists, CatalogTypeOK, DatabaseRow
    <2>2. "createRole" \in Step
      BY DEF Step
    <2>3. Moved(o, "createRole", call[o].database, call[o].owner, call[o].made, call[o].outcome)
      BY <1>1, <1>4, <2>1, <2>2 DEF Moved, CallRow
    <2>4. CallsTyped'
      BY <1>1, <1>2, <1>3, <2>3, MovedTyped
    <2> QED BY <1>1, <1>4, <2>3, <2>4 DEF Moved, CallRow
  <1>5. CASE \E out \in {"notFound", "protected", "field", "conflict", "ok", "unavailable"} : Answer(o, out)
    <2>1. Acts(o)
      BY <1>5 DEF Acts, Outcome
    <2> QED BY <1>1, <1>3, <2>1, ActsTyped, ActsKeepNames
  <1> QED BY <1>4, <1>5 DEF DuplicatePrepare, PrepareAnswer

\* A statement of Service.Duplicate.
LEMMA DuplicateTyped ==
    ASSUME JobInv, JobTyped, NEW o \in OpId, DuplicateStep(o)
    PROVE  JobTyped'
  <1>1. /\ o \in Caller /\ RequestTypeOK /\ cur = o /\ job = "run"
        /\ UNCHANGED <<row, cur, job, mode, crashes>>
    BY JobAssumption DEF JobTyped, CallsTyped, RequestsTypeOK, DuplicateStep, Running, jobVars
  <1>2. call[o].source \in Database
    BY <1>1, NamesInHand, NoneIsNoOperation DEF JobTyped, CallMatches
  <1>3. /\ CallsTyped'
        /\ call'[o].source = call[o].source
        /\ call'[o].database = call[o].database
        /\ call'[o].owner = call[o].owner
    <2>1. CASE DuplicatePrepare(o)
      BY <1>1, <2>1, PrepareTyped DEF JobTyped
    <2>2. CASE ~DuplicatePrepare(o)
      <3>1. \/ CreateRoleStep(o) \/ DuplicateDatabaseStep(o) \/ LockConnectStep(o)
            \/ AssertSource(o) \/ InsertCredentialStep(o) \/ DuplicateTransfer(o)
            \/ UndoCredentialStep(o) \/ UndoDatabaseStep(o) \/ UndoRoleStep(o)
        BY <2>2 DEF DuplicateStep
      <3>2. Acts(o)
        BY <1>1, <3>1, CreateEffects, UndoEffects
      <3>3. CallsTyped'
        BY <1>1, <1>2, <3>1, CreateTyped DEF JobTyped
      <3> QED BY <1>1, <3>2, <3>3, ActsKeepNames
    <2> QED BY <2>1, <2>2
  <1> QED BY <1>1, <1>3 DEF JobTyped, CallMatches

\* A statement of CompensateDuplicate.
LEMMA CompensateTyped ==
    ASSUME JobInv, JobTyped, NEW o \in OpId, CompensateStep(o)
    PROVE  JobTyped'
  <1>1. /\ o \in Caller /\ cur = o /\ CatalogTypeOK
        /\ UNCHANGED <<requestVars, row, cur, mode, crashes>> /\ job' \in JobStep /\ job' # "run"
    BY JobAssumption
    DEF JobTyped, CallsTyped, RequestsTypeOK, JobStep, CompensateStep, CompensateDatabase,
        CompensateCredential, CompensateRole, Compensating
  <1>2. row[o].database \in Database /\ row[o].owner \in Role
    BY <1>1, NamesInHand, NoneIsNoOperation
  <1>3. /\ Counts
        /\ db' \in {db, DropDatabase(row[o].database)}
        /\ role' \in {role, DropRole(row[o].owner)}
        /\ vault' \in {vault, DeleteCredential(row[o].owner)}
    BY DEF CompensateStep, CompensateDatabase, CompensateCredential, CompensateRole, Counts,
           ReadFails, Reply
  <1>4. /\ db' \in [Database -> DatabaseRow \cup {None}]
        /\ role' \in [Role -> RoleRow \cup {None}]
        /\ vault' \in [Role -> Maker \cup {None}]
    BY <1>1, <1>2, <1>3, DatabaseStatements, RoleStatements, VaultStatements DEF CatalogTypeOK
  <1>5. CatalogTypeOK'
    BY <1>1, <1>3, <1>4, CatalogKeeps
  <1> QED BY <1>1, <1>5
          DEF JobTyped, CallMatches, CallsTyped, CallsNamed, RequestsTypeOK, RequestTypeOK, requestVars

\* The call of an operation is forgotten.
LEMMA ForgetTyped ==
    ASSUME CallsTyped, NEW x \in Caller, call' = [call EXCEPT ![x] = IdleCall],
           CatalogTypeOK', rotating' = rotating, dropping' = dropping, truncating' = truncating
    PROVE  CallsTyped'
  <1>1. IdleCall \in CallRow /\ IdleCall.pc = "idle"
    BY DEF IdleCall, CallRow, Step, Outcome
  <1>2. call \in [Caller -> CallRow]
    BY DEF CallsTyped, RequestsTypeOK, RequestTypeOK, CallRow
  <1>3. /\ call' \in [Caller -> CallRow] /\ call'[x].pc = "idle"
        /\ \A y \in Caller : y # x => call'[y] = call[y]
    BY <1>1, <1>2
  <1> QED BY <1>3 DEF CallsTyped, CallsNamed, RequestsTypeOK, RequestTypeOK, CallRow

\* The call of an operation begins.
LEMMA BeginTyped ==
    ASSUME CallsTyped, NEW x \in Caller, NEW c \in CallRow, call' = [call EXCEPT ![x] = c],
           CatalogTypeOK', rotating' = rotating, dropping' = dropping, truncating' = truncating,
           c.database \in Database, c.owner \in Role
    PROVE  CallsTyped'
  <1>1. call \in [Caller -> CallRow] /\ call' \in [Caller -> CallRow] /\ call'[x] = c
    BY DEF CallsTyped, RequestsTypeOK, RequestTypeOK, CallRow
  <1> QED BY <1>1 DEF CallsTyped, CallsNamed, RequestsTypeOK, RequestTypeOK, CallRow

\* Claim begins a call with the names of the row; the worker forgets it when it
\* has returned, or gives the round up.
LEMMA ClaimTyped ==
    ASSUME JobInv, StoreInv, JobTyped, NEW o \in OpId, Claim(o) \/ DuplicateReturns(o)
    PROVE  JobTyped'
  <1>0. /\ o \in Caller /\ CatalogTypeOK /\ RequestTypeOK
        /\ UNCHANGED <<db, role, vault, faults, rotating, dropping, truncating, row, mode, crashes>>
    BY JobAssumption
    DEF JobTyped, CallsTyped, RequestsTypeOK, Claim, DuplicateReturns, catalogVars
  <1>1. IdleCall \in CallRow /\ "prepare" \in Step
    BY DEF IdleCall, CallRow, Step, Outcome
  <1>2. CatalogTypeOK'
    BY <1>0 DEF CatalogTypeOK
  <1>3. CASE Claim(o)
    <2> DEFINE q == row[o]
               c == [IdleCall EXCEPT !.pc = "prepare", !.source = q.source,
                                     !.database = q.database, !.owner = q.owner]
    <2>1. status[o] = "queued" /\ cur' = o /\ job' = "run" /\ call' = [call EXCEPT ![o] = c]
      BY <1>3 DEF Claim, Transition
    <2>2. q \in Requests
      BY <2>1 DEF JobInv, RowsMatch, Live
    <2>3. q.source \in Database /\ q.database \in Database /\ q.owner \in Role
      BY <2>2, JobAssumption DEF Request
    <2>4. /\ c \in CallRow /\ c.source = q.source /\ c.database = q.database /\ c.owner = q.owner
      BY <1>1, <2>3 DEF CallRow, IdleCall
    <2> HIDE DEF c
    <2>5. CallsTyped'
      BY <1>0, <1>2, <2>1, <2>3, <2>4, BeginTyped DEF JobTyped
    <2>6. call'[o] = c
      BY <1>0, <2>1 DEF RequestTypeOK
    <2> QED BY <1>0, <2>1, <2>4, <2>5, <2>6 DEF JobTyped, CallMatches, JobStep
  <1>4. CASE DuplicateReturns(o)
    <2>1. call' = [call EXCEPT ![o] = IdleCall] /\ job' \in {"idle", "failed", "compDatabase"}
      BY <1>4 DEF DuplicateReturns
    <2>2. CallsTyped'
      BY <1>0, <1>2, <2>1, ForgetTyped DEF JobTyped
    <2> QED BY <1>0, <2>1, <2>2 DEF JobTyped, CallMatches, JobStep
  <1> QED BY <1>3, <1>4

\* Steps of the ledger and of Reconcile, which touch no call and no statement.
LEMMA LedgerTyped ==
    ASSUME JobInv, StoreInv, JobTyped,
           UNCHANGED <<db, role, vault, call, rotating, dropping, truncating>>, Counts,
           mode' \in Mode, job' \in JobStep, crashes' = crashes,
           job' = "run" => job = "run" /\ cur' = cur /\ row'[cur] = row[cur]
    PROVE  JobTyped'
  <1>1. CatalogTypeOK'
    BY CatalogKeeps DEF JobTyped, CallsTyped, RequestsTypeOK, CatalogTypeOK
  <1> QED BY <1>1 DEF JobTyped, CallMatches, CallsTyped, CallsNamed, RequestsTypeOK, RequestTypeOK

\* JobTyped is inductive, given JobInv and the invariant of the ledger.
LEMMA TypedNextInv ==
    ASSUME JobInv, StoreInv, JobTyped, [Next]_vars
    PROVE  JobTyped'
  <1> USE DEF catalogVars, requestVars, storeVars, jobVars
  <1>1. ASSUME NEW o \in OpId, EnqueuePrepare(o) \/ EnqueueInsert(o) PROVE JobTyped'
    <2>1. /\ UNCHANGED <<catalogVars, requestVars, mode, job, crashes, cur>>
          /\ \/ row' = row
             \/ status[o] = "absent" /\ row' = [row EXCEPT ![o] = asked[o]]
      BY <1>1 DEF EnqueuePrepare, EnqueueInsert, InsertQueued
    <2>2. job' = "run" => row'[cur] = row[cur]
      BY <2>1 DEF JobInv
    <2> QED BY <2>1, <2>2, LedgerTyped DEF Counts, JobTyped
  <1>2. ASSUME NEW o \in OpId, Claim(o) \/ DuplicateReturns(o) PROVE JobTyped'
    BY <1>2, ClaimTyped
  <1>3. ASSUME NEW o \in OpId, DuplicateStep(o) PROVE JobTyped'
    BY <1>3, DuplicateTyped
  <1>4. ASSUME NEW o \in OpId, CompensateStep(o) PROVE JobTyped'
    BY <1>4, CompensateTyped
  <1>5. ASSUME NEW o \in OpId, \/ CompensationEnds(o) \/ ReconcileInterrupt(o)
                               \/ ReconcileResume(o) \/ ReconcileResolve(o)
        PROVE  JobTyped'
    <2>1. /\ UNCHANGED <<db, role, vault, requestVars, mode, crashes>>
          /\ faults' = faults \/ ReadFails
          /\ job' \in {job, "idle", "compDatabase"}
          /\ job = "run" => job' # "run" \/ UNCHANGED <<cur, row>>
      BY <1>5 DEF CompensationEnds, ReconcileInterrupt, ReconcileResume, ReconcileResolve
    <2>2. Counts
      BY <2>1 DEF Counts, ReadFails, Reply
    <2>3. mode' \in Mode /\ job' \in JobStep
      BY <2>1 DEF JobTyped, JobStep
    <2>4. job' = "run" => job = "run"
      BY <2>1
    <2> QED BY <2>1, <2>2, <2>3, <2>4, LedgerTyped
  <1>6. ASSUME Poll \/ Boot \/ ReconcileNextPhase \/ ReconcilePrune \/ Clock PROVE JobTyped'
    <2>1. /\ UNCHANGED <<catalogVars, requestVars, job, crashes, cur>>
          /\ mode' \in Mode /\ (row' = row \/ job = "idle")
      BY <1>6 DEF Poll, Boot, ReconcileNextPhase, ReconcilePrune, Clock, Mode, JobTyped
    <2> QED BY <2>1, LedgerTyped DEF Counts, JobTyped
  <1>7. ASSUME LedgerFailure PROVE JobTyped'
    <2>1. /\ UNCHANGED <<db, role, vault, rotating, dropping, truncating, crashes>> /\ Charge("error")
          /\ mode' \in Mode /\ job' = "idle"
          /\ call' = IF cur \in OpId THEN [call EXCEPT ![cur] = IdleCall] ELSE call
      BY <1>7 DEF LedgerFailure, Mode
    <2>2. Counts
      BY <2>1 DEF Counts, Reply
    <2>3. CASE cur \notin OpId
      BY <2>1, <2>2, <2>3, LedgerTyped DEF JobStep
    <2>4. CASE cur \in OpId
      <3>1. cur \in Caller
        BY <2>4, JobAssumption
      <3>2. CatalogTypeOK'
        BY <2>1, <2>2, CatalogKeeps DEF JobTyped, CallsTyped, RequestsTypeOK, CatalogTypeOK
      <3>3. CallsTyped'
        BY <2>1, <2>4, <3>1, <3>2, ForgetTyped DEF JobTyped
      <3> QED BY <2>1, <3>3 DEF JobTyped, CallMatches, JobStep
    <2> QED BY <2>3, <2>4
  <1>8. ASSUME Crash PROVE JobTyped'
    <2>1. /\ RequestsKilled /\ UNCHANGED catalogVars /\ mode' = "down" /\ job' = "idle"
          /\ crashes < MaxCrashes /\ crashes' = crashes + 1
      BY <1>8 DEF Crash
    <2>2. /\ call' \in [Caller -> CallRow]
          /\ \A x \in Caller : call'[x].pc \in {"idle", "done"}
      BY <2>1, KilledCalls DEF JobTyped, CallsTyped, RequestsTypeOK
    <2>3. CallsTyped'
      BY <2>1, <2>2 DEF RequestsKilled, JobTyped, CallsTyped, CallsNamed, RequestsTypeOK,
                        RequestTypeOK, CatalogTypeOK, CallRow
    <2> QED BY <2>1, <2>3, JobAssumption DEF JobTyped, CallMatches, Mode, JobStep
  <1>9. ASSUME OtherRequest PROVE JobTyped'
    <2>1. RequestNext /\ UNCHANGED jobVars
      BY <1>9 DEF OtherRequest
    <2>2. CallsTyped' /\ \A o \in OpId : call'[o] = call[o]
      BY <2>1, RequestTyped DEF JobTyped
    <2>3. job = "run" => cur \in OpId
      BY DEF JobInv
    <2> QED BY <2>1, <2>2, <2>3 DEF JobTyped, CallMatches
  <1>10. ASSUME UNCHANGED vars PROVE JobTyped'
    BY <1>10, LedgerTyped DEF vars, JobTyped, Counts
  <1> QED BY <1>1, <1>2, <1>3, <1>4, <1>5, <1>6, <1>7, <1>8, <1>9, <1>10
          DEF Next, WorkerStep, ReconcileStep

\* All invariants of the composition together.
LEMMA TypedInvariant == Spec => [](JobInv /\ StoreInv /\ JobTyped)
  <1>1. Init => JobTyped
    <2> SUFFICES ASSUME Init PROVE JobTyped
      OBVIOUS
    <2>1. CatalogTypeOK /\ RequestTypeOK
      BY LocalInit, GlobalInit DEF Init, RequestsInit, LocalInv
    <2>2. \A x \in Caller : call[x].pc = "idle"
      BY DEF Init, RequestsInit, RequestInit, IdleCall
    <2> QED BY <2>1, <2>2, JobAssumption
            DEF Init, JobTyped, CallsTyped, CallsNamed, RequestsTypeOK, CallMatches, Mode, JobStep
  <1>2. JobInv /\ StoreInv /\ JobTyped /\ [Next]_vars => JobTyped'
    BY TypedNextInv
  <1> QED BY <1>1, <1>2, JobInvariant, PTL DEF Spec

\* Every variable of the composition keeps its type: no step of the worker, of
\* Reconcile or of a request works on a name it does not have.
THEOREM JobTypeCorrect == Spec => []JobTypeOK
  <1>1. JobInv /\ StoreInv /\ JobTyped => JobTypeOK
    BY JobAssumption DEF JobInv, StoreInv, JobTyped, CallsTyped, JobTypeOK
  <1> QED BY <1>1, TypedInvariant, PTL

----------------------------------------------------------------------------
\* Two unfinished operations share no name, so what one of them drops as its
\* copy no other one copies from, and it is not its own source either.
LEMMA CopyIsNoSource ==
    ASSUME JobInv, StoreInv, cur # None, NEW p \in OpId, status[p] \in Live
    PROVE  row[p].source # row[cur].database
  <1>1. /\ cur \in OpId /\ row[cur].source # row[cur].database
        /\ status[cur] \in Live
    BY NamesInHand DEF JobInv, Live
  <1>2. claim[p] = LocksOf(row[p]) /\ claim[cur] = LocksOf(row[cur])
    BY <1>1 DEF JobInv, RowsMatch
  <1>3. CASE p = cur
    BY <1>1, <1>3
  <1>4. CASE p # cur
    <2>1. claim[p] \cap claim[cur] = {}
      BY <1>1, <1>4 DEF StoreInv, LiveHoldsItsClaim, LocksExclusive
    <2>2. DatabaseLock(row[cur].database) \in claim[cur] /\ DatabaseLock(row[p].source) \in claim[p]
      BY <1>2 DEF LocksOf
    <2> QED BY <2>1, <2>2
  <1> QED BY <1>3, <1>4

\* An in-request step that writes a database moves its call.
LEMMA RequestDropsMove ==
    ASSUME CallsTyped, RequestNext, ByWorker
    PROVE  db' = db
  <1>1. PICK x \in Creates \cup Rotates \cup Drops \cup Truncates :
           CreateNext(x) \/ RotateNext(x) \/ DropNext(x) \/ TruncateNext(x)
    BY DEF RequestNext
  <1>2. /\ x \in Caller /\ call'[x] = call[x] /\ RequestTypeOK
    BY <1>1, JobAssumption, RequestAssumption DEF ByWorker, CallsTyped, RequestsTypeOK
  <1>3. ASSUME NEW p \in Step, NEW out \in Outcome, NEW w \in {"role", "database", "vault"},
               Goto(x, p) \/ Made(x, w, p) PROVE call[x].pc = p
    BY <1>2, <1>3 DEF Goto, Made, RequestTypeOK
  <1>4. ASSUME NEW out \in Outcome, Answer(x, out) PROVE call[x].pc = "done"
    BY <1>2, <1>4, AnswerMoves DEF Moved
  <1>5. ASSUME NEW out \in Outcome, Undo(x, out) PROVE call[x].pc = "undoCredential"
    BY <1>2, <1>5, UndoMoves DEF Moved
  <1>6. {"lockConnect", "undoRole", "dropRole"} \subseteq Step
        /\ {"unavailable", "conflict"} \subseteq Outcome
    BY DEF Step, Outcome
  <1>7. ~CreateDatabaseStep(x)
    BY <1>3, <1>5, <1>6 DEF CreateDatabaseStep, At
  <1>8. ~UndoDatabaseStep(x)
    BY <1>3, <1>6 DEF UndoDatabaseStep, At
  <1>9. ~DropDatabaseStep(x)
    BY <1>3, <1>4, <1>6 DEF DropDatabaseStep, DropEnds, At
  <1> QED BY <1>1, <1>7, <1>8, <1>9
          DEF CreateNext, RotateNext, DropNext, TruncateNext, CreateCheck, CreateRoleStep,
              LockConnectStep, InsertCredentialStep, UndoCredentialStep, UndoRoleStep, RotateLookup,
              RotateLock, RotateAlter, RotateUpsert, DropLock, DropLookup, DropGate, DropRoleStep,
              DropCredentialStep, TruncateLock, TruncateStep, catalogVars

\* The worker drops no database but the copy of the operation in hand.
LEMMA WorkerDropsCopy ==
    ASSUME JobInv, StoreInv, JobTyped, Next, ByWorker, NEW d \in Database,
           DatabaseExists(d), db'[d] = None
    PROVE  cur # None /\ d = row[cur].database
  <1> USE DEF DatabaseExists, catalogVars
  <1>0. CatalogTypeOK /\ RequestTypeOK /\ None \notin DatabaseRow
    BY CatalogAssumption DEF JobTyped, CallsTyped, RequestsTypeOK
  <1>1. ASSUME NEW o \in OpId, DuplicateStep(o) PROVE cur # None /\ d = row[cur].database
    <2>1. /\ o \in Caller /\ cur = o /\ cur # None /\ call[o].database = row[o].database
          /\ call[o].source \in Database
      BY <1>1, JobAssumption, NoneIsNoOperation, NamesInHand
      DEF DuplicateStep, Running, JobTyped, CallMatches
    <2>2. CASE UndoCredentialStep(o) \/ UndoDatabaseStep(o) \/ UndoRoleStep(o)
      BY <1>0, <2>1, <2>2, UndoEffects DEF DropDatabase, CatalogTypeOK
    <2>3. CASE DuplicatePrepare(o)
      BY <2>3 DEF DuplicatePrepare
    <2>4. CASE \/ CreateRoleStep(o) \/ DuplicateDatabaseStep(o) \/ LockConnectStep(o)
               \/ AssertSource(o) \/ InsertCredentialStep(o) \/ DuplicateTransfer(o)
      <3>1. Working(o) /\ call[o].database \in Database /\ call[o].owner \in Role
        BY <2>1, <2>4, CreateEffects DEF JobTyped, CallsTyped, CallsNamed, Working
      <3>2. \/ db' = db
            \/ \E v \in DatabaseRow : db' = [db EXCEPT ![call[o].database] = v]
        <4>1. CASE db' = CreateDatabase(call[o].database, call[o].owner, o)
          <5>1. ProjectObjects(call[o].owner) \subseteq Object
            BY <3>1 DEF ProjectObjects, Object
          <5>2. [owner |-> call[o].owner, objects |-> ProjectObjects(call[o].owner), by |-> o]
                   \in DatabaseRow
            BY <2>1, <3>1, <5>1 DEF DatabaseRow, Maker
          <5> QED BY <4>1, <5>2 DEF CreateDatabase
        <4>2. CASE /\ DatabaseExists(call[o].source)
                   /\ db' = CreateDatabaseTemplate(call[o].database, call[o].source, call[o].owner, o)
          BY <1>0, <2>1, <3>1, <4>2 DEF CreateDatabaseTemplate, DatabaseRow, Maker, CatalogTypeOK
        <4>3. CASE /\ DatabaseExists(call[o].database)
                   /\ db' = TransferCloneOwnership(call[o].database, call[o].owner)
          <5> DEFINE e == call[o].database
                     v == [db[e] EXCEPT !.objects = {Transferred(x, call[o].owner) : x \in @}]
          <5>1. v \in DatabaseRow
            BY <1>0, <3>1, <4>3, TransferredRow
          <5>2. db' = [db EXCEPT ![e] = v]
            BY <4>3 DEF TransferCloneOwnership
          <5> QED BY <5>1, <5>2
        <4> QED BY <2>1, <2>4, <4>1, <4>2, <4>3, CreateEffects
      <3> QED BY <1>0, <3>2 DEF CatalogTypeOK
    <2> QED BY <1>1, <2>2, <2>3, <2>4 DEF DuplicateStep
  <1>2. ASSUME NEW o \in OpId, CompensateStep(o) PROVE cur # None /\ d = row[cur].database
    <2>1. cur = o /\ cur # None /\ db' \in {db, DropDatabase(row[o].database)}
      BY <1>2, NoneIsNoOperation
      DEF CompensateStep, CompensateDatabase, CompensateCredential, CompensateRole, Compensating
    <2> QED BY <1>0, <2>1 DEF DropDatabase, CatalogTypeOK
  <1>3. ~OtherRequest
    BY RequestDropsMove DEF OtherRequest, JobTyped
  <1>4. ASSUME NEW o \in OpId, \/ EnqueuePrepare(o) \/ EnqueueInsert(o) \/ Claim(o)
                               \/ DuplicateReturns(o) \/ CompensationEnds(o) \/ ReconcileInterrupt(o)
                               \/ ReconcileResume(o) \/ ReconcileResolve(o)
        PROVE  db' = db
    BY <1>4 DEF EnqueuePrepare, EnqueueInsert, Claim, DuplicateReturns, CompensationEnds,
                ReconcileInterrupt, ReconcileResume, ReconcileResolve
  <1>5. ASSUME Poll \/ Boot \/ ReconcileNextPhase \/ ReconcilePrune \/ LedgerFailure \/ Crash \/ Clock
        PROVE  db' = db
    BY <1>5 DEF Poll, Boot, ReconcileNextPhase, ReconcilePrune, LedgerFailure, Crash, Clock
  <1> QED BY <1>1, <1>2, <1>3, <1>4, <1>5 DEF Next, WorkerStep, ReconcileStep

\* The lock on the source is respected by the worker and by Reconcile: neither
\* removes a database that an unfinished operation copies from, whatever other
\* operation it compensates.
THEOREM SourcesSurvive == Spec => SourceOutlivesCopy
  <1> DEFINE Survive == ByWorker => \A d \in Database :
                           DatabaseExists(d) /\ db'[d] = None =>
                               \A o \in OpId : status[o] \in Live => row[o].source # d
  <1>1. JobInv /\ StoreInv /\ JobTyped /\ [Next]_vars => [Survive]_vars
    BY WorkerDropsCopy, CopyIsNoSource DEF Survive
  <1> QED BY <1>1, TypedInvariant, PTL DEF Spec, SourceOutlivesCopy

----------------------------------------------------------------------------
(***************************************************************************)
(* The requests beside the worker. What PostgresRequestsProofs shows of the *)
(* calls in flight holds in the composition as well: the worker, Reconcile  *)
(* and the ledger touch no call of a request and none of the TryLock maps,  *)
(* and a crash only ends the calls.                                         *)
(***************************************************************************)

\* An operation is no request.
LEMMA OperationsAreNoRequests ==
    OpId \subseteq Caller /\ Requester \subseteq Caller /\ \A x \in Requester : x \notin OpId
  BY JobAssumption, RequestAssumption DEF Requester

\* No step of the worker, of Reconcile or of the ledger concerns a request.
LEMMA WorkerLeavesRequests ==
    ASSUME JobInv, JobTyped, [Next]_vars, ~OtherRequest, ~Crash
    PROVE  /\ \A x \in Requester : call'[x] = call[x]
           /\ UNCHANGED <<rotating, dropping, truncating>>
  <1> USE DEF requestVars
  <1>0. call \in [Caller -> CallRow] /\ RequestTypeOK
    BY DEF JobTyped, CallsTyped, RequestsTypeOK, RequestTypeOK, CallRow
  <1>1. ASSUME NEW o \in OpId, EnqueuePrepare(o) \/ EnqueueInsert(o)
        PROVE  UNCHANGED requestVars
    BY <1>1 DEF EnqueuePrepare, EnqueueInsert
  <1>2. ASSUME NEW o \in OpId, Claim(o) \/ DuplicateReturns(o)
        PROVE  /\ \A x \in Requester : call'[x] = call[x]
               /\ UNCHANGED <<rotating, dropping, truncating>>
    <2>1. /\ \E c : call' = [call EXCEPT ![o] = c]
          /\ UNCHANGED <<rotating, dropping, truncating>>
      BY <1>2 DEF Claim, DuplicateReturns
    <2> QED BY <1>0, <2>1, OperationsAreNoRequests
  <1>3. ASSUME NEW o \in OpId, DuplicateStep(o)
        PROVE  /\ \A x \in Requester : call'[x] = call[x]
               /\ UNCHANGED <<rotating, dropping, truncating>>
    <2>0. o \in Caller
      BY OperationsAreNoRequests
    <2>1. NoLocks /\ \A x \in Caller : x # o => call'[x] = call[x]
      <3>1. CASE DuplicatePrepare(o)
        BY <1>0, <3>1 DEF DuplicatePrepare, Answer
      <3>2. CASE ~DuplicatePrepare(o)
        <4>1. NoLocks /\ Acts(o)
          BY <1>0, <1>3, <2>0, <3>2, CreateEffects, UndoEffects DEF DuplicateStep
        <4> QED BY <1>0, <4>1 DEF Acts, Goto, Answer, Undo, Made
      <3> QED BY <3>1, <3>2
    <2> QED BY <2>1, OperationsAreNoRequests DEF NoLocks
  <1>4. ASSUME NEW o \in OpId, \/ CompensateStep(o) \/ CompensationEnds(o) \/ ReconcileInterrupt(o)
                               \/ ReconcileResume(o) \/ ReconcileResolve(o)
        PROVE  UNCHANGED requestVars
    BY <1>4 DEF CompensateStep, CompensateDatabase, CompensateCredential, CompensateRole,
                Compensating, CompensationEnds, ReconcileInterrupt, ReconcileResume, ReconcileResolve
  <1>5. ASSUME Poll \/ Boot \/ ReconcileNextPhase \/ ReconcilePrune \/ Clock \/ UNCHANGED vars
        PROVE  UNCHANGED requestVars
    BY <1>5 DEF Poll, Boot, ReconcileNextPhase, ReconcilePrune, Clock, vars
  <1>6. ASSUME LedgerFailure
        PROVE  /\ \A x \in Requester : call'[x] = call[x]
               /\ UNCHANGED <<rotating, dropping, truncating>>
    BY <1>0, <1>6, OperationsAreNoRequests DEF LedgerFailure
  <1> QED BY <1>1, <1>2, <1>3, <1>4, <1>5, <1>6 DEF Next, WorkerStep, ReconcileStep

\* So the locks and the paths of the requests stay what they are.
LEMMA LocalNextInv ==
    ASSUME JobInv, StoreInv, JobTyped, LocalInv, [Next]_vars
    PROVE  LocalInv'
  <1>1. CatalogTypeOK
    BY DEF JobTyped, CallsTyped, RequestsTypeOK
  <1>2. RequestTypeOK'
    BY TypedNextInv DEF JobTyped, CallsTyped, RequestsTypeOK
  <1>3. CASE OtherRequest
    <2>1. RequestNext
      BY <1>3 DEF OtherRequest
    <2> QED BY <1>1, <2>1, CreateLocal, RotateLocal, DropLocal, TruncateLocal DEF RequestNext
  <1>4. CASE Crash
    BY <1>4, KilledLocal DEF Crash
  <1>5. CASE ~OtherRequest /\ ~Crash
    <2>1. /\ \A x \in Requester : call'[x] = call[x]
          /\ rotating' = rotating /\ dropping' = dropping /\ truncating' = truncating
      BY <1>5, WorkerLeavesRequests
    <2>2. PathInv'
      BY <2>1 DEF LocalInv, PathInv, At
    <2>3. NameInv'
      BY <2>1 DEF LocalInv, NameInv
    <2>4. LockInv'
      BY <2>1 DEF LocalInv, LockInv, At
    <2> QED BY <1>2, <2>2, <2>3, <2>4 DEF LocalInv
  <1> QED BY <1>3, <1>4, <1>5

\* What is known of the calls, the ledger and the requests together.
LEMMA RequestsBesideWorker == Spec => [](JobInv /\ StoreInv /\ JobTyped /\ LocalInv)
  <1>1. Init => LocalInv
    BY LocalInit DEF Init, RequestsInit
  <1>2. JobInv /\ StoreInv /\ JobTyped /\ LocalInv /\ [Next]_vars => LocalInv'
    BY LocalNextInv
  <1> QED BY <1>1, <1>2, TypedInvariant, PTL DEF Spec

\* lockDrop and lockTruncate go on excluding each other while duplicates run
\* and the process dies and restarts: a restart empties both maps, but it ends
\* the calls that hold an entry as well.
THEOREM ExclusionSurvivesRestart == Spec => []DropTruncateExclusive
  <1>1. LocalInv => DropTruncateExclusive
    BY Kinds DEF LocalInv, LockInv, DropTruncateExclusive, DropStep, At, Requester
  <1> QED BY <1>1, RequestsBesideWorker, PTL

\* The worker and Reconcile write under the names of the row in hand, which the
\* handler has checked against the policy.
LEMMA WorkerUntouched ==
    ASSUME JobInv, JobTyped, NEW o \in OpId, DuplicateStep(o) \/ CompensateStep(o)
    PROVE  /\ \A d \in DeniedDb : db'[d] = db[d]
           /\ \A r \in DeniedRole : role'[r] = role[r] /\ vault'[r] = vault[r]
  <1>0. CatalogTypeOK /\ RequestTypeOK /\ o \in Caller
        /\ DeniedDb \subseteq Database /\ DeniedRole \subseteq Role
    BY OperationsAreNoRequests, CatalogAssumption DEF JobTyped, CallsTyped, RequestsTypeOK
  <1>1. /\ cur = o /\ row[o].database \in Database \ DeniedDb /\ row[o].owner \in Role \ DeniedRole
        /\ DuplicateStep(o) => call[o].database = row[o].database /\ call[o].owner = row[o].owner
    <2>1. cur = o /\ (DuplicateStep(o) => job = "run")
      BY DEF DuplicateStep, Running, CompensateStep, CompensateDatabase, CompensateCredential,
             CompensateRole, Compensating
    <2> QED BY <2>1, NoneIsNoOperation, NamesInHand DEF JobTyped, CallMatches
  <1>2. /\ \A d \in Database \ {row[o].database} : db'[d] = db[d]
        /\ \A r \in Role \ {row[o].owner} : role'[r] = role[r] /\ vault'[r] = vault[r]
    <2> USE DEF CatalogTypeOK, CreateDatabase, CreateDatabaseTemplate, TransferCloneOwnership,
                DropDatabase, CreateRole, DropRole, PutCredential, DeleteCredential
    <2>1. CASE CompensateStep(o)
      <3>1. /\ db' \in {db, DropDatabase(row[o].database)}
            /\ role' \in {role, DropRole(row[o].owner)}
            /\ vault' \in {vault, DeleteCredential(row[o].owner)}
        BY <2>1 DEF CompensateStep, CompensateDatabase, CompensateCredential, CompensateRole
      <3> QED BY <1>0, <3>1
    <2>2. CASE DuplicatePrepare(o)
      BY <2>2 DEF DuplicatePrepare
    <2>3. CASE DuplicateStep(o) /\ (UndoCredentialStep(o) \/ UndoDatabaseStep(o) \/ UndoRoleStep(o))
      BY <1>0, <1>1, <2>3, UndoEffects
    <2>4. CASE /\ DuplicateStep(o)
               /\ \/ CreateRoleStep(o) \/ DuplicateDatabaseStep(o) \/ LockConnectStep(o)
                  \/ AssertSource(o) \/ InsertCredentialStep(o) \/ DuplicateTransfer(o)
      <3>1. /\ role' \in {role, CreateRole(row[o].owner, o)}
            /\ vault' \in {vault, PutCredential(row[o].owner, o)}
            /\ \/ db' = db
               \/ db' = CreateDatabase(row[o].database, row[o].owner, o)
               \/ db' = CreateDatabaseTemplate(row[o].database, call[o].source, row[o].owner, o)
               \/ db' = TransferCloneOwnership(row[o].database, row[o].owner)
        <4> HIDE DEF CreateDatabase, CreateDatabaseTemplate, TransferCloneOwnership, CreateRole,
                     PutCredential
        <4> QED BY <1>0, <1>1, <2>4, CreateEffects
      <3>2. \A r \in Role \ {row[o].owner} : role'[r] = role[r] /\ vault'[r] = vault[r]
        BY <1>0, <3>1
      <3>3. \A d \in Database \ {row[o].database} : db'[d] = db[d]
        BY <1>0, <3>1
      <3> QED BY <3>2, <3>3
    <2> QED BY <2>1, <2>2, <2>3, <2>4 DEF DuplicateStep
  <1> QED BY <1>0, <1>1, <1>2

\* The policy holds for the whole system: no step of a request, of the worker,
\* of a compensation or of a restart ever changes a protected database, role or
\* vault row, although a compensation goes by the names it reads from a row
\* that was written before the crash.
THEOREM NobodyTouchesProtected == Spec => ProtectedUntouched
  <1> DEFINE Untouched == /\ \A d \in DeniedDb : db'[d] = db[d]
                          /\ \A r \in DeniedRole : role'[r] = role[r] /\ vault'[r] = vault[r]
  <1>1. ASSUME JobInv, StoreInv, JobTyped, LocalInv, [Next]_vars
        PROVE  [Untouched]_<<catalogVars, requestVars>>
    <2> USE DEF catalogVars
    <2>1. ASSUME NEW o \in OpId, DuplicateStep(o) \/ CompensateStep(o) PROVE Untouched
      BY <1>1, <2>1, WorkerUntouched
    <2>2. ASSUME OtherRequest PROVE Untouched
      <3>1. PICK x \in Requester : CreateNext(x) \/ RotateNext(x) \/ DropNext(x) \/ TruncateNext(x)
        BY <2>2 DEF OtherRequest, RequestNext, Requester
      <3> QED BY <1>1, <3>1, RequestUntouched DEF LocalInv, JobTyped, CallsTyped, RequestsTypeOK
    <2>3. ASSUME NEW o \in OpId, \/ EnqueuePrepare(o) \/ EnqueueInsert(o) \/ Claim(o)
                                 \/ DuplicateReturns(o) \/ CompensationEnds(o) \/ ReconcileInterrupt(o)
                                 \/ ReconcileResume(o) \/ ReconcileResolve(o)
          PROVE  Untouched
      BY <2>3 DEF EnqueuePrepare, EnqueueInsert, Claim, DuplicateReturns, CompensationEnds,
                  ReconcileInterrupt, ReconcileResume, ReconcileResolve
    <2>4. ASSUME \/ Poll \/ Boot \/ ReconcileNextPhase \/ ReconcilePrune \/ LedgerFailure \/ Crash
                 \/ Clock
          PROVE  Untouched
      BY <2>4 DEF Poll, Boot, ReconcileNextPhase, ReconcilePrune, LedgerFailure, Crash, Clock
    <2>5. ASSUME UNCHANGED vars PROVE Untouched
      BY <2>5 DEF vars
    <2> QED BY <1>1, <2>1, <2>2, <2>3, <2>4, <2>5 DEF Next, WorkerStep, ReconcileStep
  <1>2. JobInv /\ StoreInv /\ JobTyped /\ LocalInv /\ [Next]_vars
           => [Untouched]_<<catalogVars, requestVars>>
    BY <1>1
  <1> QED BY <1>2, RequestsBesideWorker, PTL DEF Spec, ProtectedUntouched

----------------------------------------------------------------------------
(***************************************************************************)
(* What an operation leaves behind. Creates are left out: they make roles   *)
(* and databases of the names of a duplicate, for they do not look at the   *)
(* ledger's locks. Rotations and drops do not look at them either, but only *)
(* take away.                                                               *)
(***************************************************************************)
\* No other request creates databases and roles; nothing but the worker writes
\* to the catalog at all.
NoCreates == Creates = {}
WorkerAlone == Creates = {} /\ Rotates = {} /\ Drops = {}

\* Either nobody interferes with the worker or no statement has failed yet.
Calm == WorkerAlone \/ faults = 0

\* Nothing that operation o created is there.
NoClone(o) == \A d \in Database : DatabaseExists(d) => db[d].by # o
Clean(o) == NoClone(o) /\ \A r \in Role : RoleExists(r) => role[r].by # o

\* A database's owner is there, and whoever made the one made the other; the
\* owners of the objects inside are there too.
OwnersMatch ==
    \A d \in Database : DatabaseExists(d) =>
        /\ RoleExists(db[d].owner) /\ role[db[d].owner].by = db[d].by
        /\ \A x \in db[d].objects : RoleExists(x.owner)

\* An operation that can have left something behind.
Marked(o) == asked[o] = None /\ status[o] # "queued" /\ (Calm => status[o] # "failed")

\* What an operation left is under the names of its row, as long as it has one.
MarksInv ==
    \A o \in OpId :
        /\ asked[o] # None => status[o] = "absent"
        /\ \A d \in Database : DatabaseExists(d) /\ db[d].by = o =>
              Marked(o) /\ (status[o] = "absent" \/ row[o].database = d)
        /\ \A r \in Role : RoleExists(r) /\ role[r].by = o =>
              Marked(o) /\ (status[o] = "absent" \/ row[o].owner = r)

\* The steps of a duplicate that goes well, and those that undo it.
Forward == {"createRole", "createDatabase", "lockConnect", "assertFirst", "insertCredential",
            "transfer", "assertLast"}
Backward == {"undoCredential", "undoDatabase", "undoRole"}
Cloned == Forward \ {"createRole", "createDatabase"}

\* What the role of operation o owns is the operation's.
OwnsOwn(o) ==
    LET r == row[o].owner IN
    RoleExists(r) /\ role[r].by = o =>
        \A d \in Database :
            DatabaseExists(d) /\ (db[d].owner = r \/ \E x \in db[d].objects : x.owner = r)
                => db[d].by = o

\* What the call in hand knows of what it has made, whatever a drop takes away
\* meanwhile. An error it compensates in line is one that the worker
\* compensates again, or it comes when role and clone are both made: then the
\* in-line compensation removes them, unless a statement fails.
RunInv ==
    job = "run" =>
        LET c == call[cur]
            skips == skipDuplicateCompensation(c.outcome) IN
        /\ c.pc \in Forward \cup Backward \cup {"prepare", "done"}
        /\ c.pc \in {"prepare", "createRole"} => Clean(cur)
        /\ c.pc \in {"createRole", "createDatabase"} => ~DatabaseExists(row[cur].database)
        /\ c.pc \in Forward \ {"createRole"} =>
              /\ "role" \in c.made
              /\ RoleExists(row[cur].owner) => role[row[cur].owner].by = cur
        /\ c.pc \in Cloned =>
              /\ "database" \in c.made
              /\ DatabaseExists(row[cur].database) =>
                    db[row[cur].database].by = cur /\ db[row[cur].database].owner = row[cur].owner
        /\ c.pc \in (Forward \cup Backward) \ {"createRole"} => OwnsOwn(cur)
        /\ c.pc \in Backward => c.outcome # "ok"
        /\ c.pc \in Backward /\ skips => {"role", "database"} \subseteq c.made /\ ~WorkerAlone
        /\ c.pc = "undoRole" /\ skips /\ faults = 0 => NoClone(cur)
        /\ c.pc = "done" /\ skips /\ Calm => Clean(cur)

\* With the worker alone nothing is taken away.
WholeInv ==
    WorkerAlone /\ job = "run" =>
        LET c == call[cur]
            q == row[cur] IN
        /\ c.pc \in Forward => DatabaseExists(q.source)
        /\ c.pc \in Forward \ {"createRole"} => role[q.owner] = [by |-> cur, pw |-> cur]
        /\ c.pc \in Cloned => DatabaseExists(q.database)
        /\ c.pc \in Cloned \ {"assertLast"} => db[q.database].objects = db[q.source].objects
        /\ c.pc = "assertLast" =>
              db[q.database].objects = {Transferred(x, q.owner) : x \in db[q.source].objects}
        /\ c.pc \in Forward \ {"transfer", "assertLast"} => ~Saved(q.owner)
        /\ c.pc \in {"transfer", "assertLast"} => vault[q.owner] = cur
        /\ c.pc = "done" /\ c.outcome = "ok" =>
              /\ CloneIsWhole(q, cur)
              /\ role[q.owner] = [by |-> cur, pw |-> cur]
              /\ vault[q.owner] = cur

\* How far a compensation has come.
CompInv ==
    /\ job \in {"compCredential", "compRole"} => NoClone(cur)
    /\ job = "failed" /\ Calm => Clean(cur)

LeavesInv == OwnersMatch /\ MarksInv /\ RunInv /\ WholeInv /\ CompInv

\* Everything that is known of a state.
Known == JobInv /\ StoreInv /\ JobTyped /\ LeavesInv

\* The step creates nothing, and drops no role that owns something.
Shrinks ==
    /\ \A d \in Database : db'[d] \in {db[d], None}
    /\ \A r \in Role :
          \/ role'[r] = None /\ (role[r] # None => RoleUnowned(r) /\ db' = db)
          \/ role'[r] # None /\ role[r] # None /\ role'[r].by = role[r].by

\* Failures are counted, never forgotten.
Later == faults' = 0 => faults = 0

\* Every statement is charged for.
LEMMA NextCounts ==
    ASSUME [Next]_vars
    PROVE  Counts
  <1> USE DEF catalogVars, Counts, ReadFails, Reply
  <1>1. ASSUME NEW o \in OpId, DuplicateStep(o) PROVE Counts
    BY <1>1 DEF DuplicateStep, DuplicatePrepare, CreateRoleStep, DuplicateDatabaseStep,
                LockConnectStep, AssertSource, InsertCredentialStep, DuplicateTransfer,
                UndoCredentialStep, UndoDatabaseStep, UndoRoleStep
  <1>2. ASSUME NEW o \in OpId, CompensateStep(o) PROVE Counts
    BY <1>2 DEF CompensateStep, CompensateDatabase, CompensateCredential, CompensateRole
  <1>3. ASSUME NEW o \in OpId, \/ EnqueuePrepare(o) \/ EnqueueInsert(o) \/ Claim(o)
                               \/ DuplicateReturns(o) \/ CompensationEnds(o) \/ ReconcileInterrupt(o)
                               \/ ReconcileResume(o) \/ ReconcileResolve(o)
        PROVE  Counts
    BY <1>3 DEF EnqueuePrepare, EnqueueInsert, Claim, DuplicateReturns, CompensationEnds,
                ReconcileInterrupt, ReconcileResume, ReconcileResolve
  <1>4. ASSUME \/ Poll \/ Boot \/ ReconcileNextPhase \/ ReconcilePrune \/ LedgerFailure \/ Crash
               \/ Clock \/ UNCHANGED vars
        PROVE  Counts
    BY <1>4 DEF Poll, Boot, ReconcileNextPhase, ReconcilePrune, LedgerFailure, Crash, Clock, vars
  <1>5. ASSUME OtherRequest PROVE Counts
    <2>1. ASSUME NEW x \in Creates, CreateNext(x) PROVE Counts
      BY <2>1 DEF CreateNext, CreateCheck, CreateRoleStep, CreateDatabaseStep, LockConnectStep,
                  InsertCredentialStep, UndoCredentialStep, UndoDatabaseStep, UndoRoleStep
    <2>2. ASSUME NEW x \in Rotates, RotateNext(x) PROVE Counts
      BY <2>2 DEF RotateNext, RotateLookup, RotateLock, RotateAlter, RotateUpsert
    <2>3. ASSUME NEW x \in Drops, DropNext(x) PROVE Counts
      BY <2>3 DEF DropNext, DropLock, DropLookup, DropGate, DropDatabaseStep, DropRoleStep,
                  DropCredentialStep
    <2>4. ASSUME NEW x \in Truncates, TruncateNext(x) PROVE Counts
      BY <2>4 DEF TruncateNext, TruncateLock, TruncateStep
    <2> QED BY <1>5, <2>1, <2>2, <2>3, <2>4 DEF OtherRequest, RequestNext
  <1> QED BY <1>1, <1>2, <1>3, <1>4, <1>5 DEF Next, WorkerStep, ReconcileStep

\* So a state without failures follows only on such a state.
LEMMA NextLater ==
    ASSUME CatalogTypeOK, [Next]_vars
    PROVE  Later
  BY NextCounts, ChargeCounts DEF Counts, Later

\* Rotations and drops take away, or change a password.
LEMMA RequestShrinks ==
    ASSUME NoCreates, CatalogTypeOK, RequestNext
    PROVE  Shrinks
  <1> USE DEF catalogVars, CatalogTypeOK
  <1>0. UNCHANGED <<db, role>> => Shrinks
    BY DEF Shrinks
  <1>1. ASSUME NEW x \in Rotates, RotateNext(x) PROVE Shrinks
    <2>1. CASE UNCHANGED <<db, role>>
      BY <1>0, <2>1
    <2>2. CASE db' = db /\ RoleExists(call[x].owner) /\ role' = AlterRolePassword(call[x].owner, x)
      <3> DEFINE r == call[x].owner
                 v == [role[r] EXCEPT !.pw = x]
      <3>1. /\ \A s \in Role : s # r => role'[s] = role[s]
            /\ r \in Role => role'[r] = v /\ role[r] \in RoleRow
        BY <2>2 DEF AlterRolePassword, RoleExists
      <3>2. r \in Role => v \in RoleRow /\ v.by = role[r].by
        BY <3>1, Kinds DEF RoleRow, Maker
      <3> HIDE DEF v
      <3> QED BY <2>2, <3>1, <3>2, CatalogAssumption DEF Shrinks, RoleExists
    <2> QED BY <1>1, <2>1, <2>2 DEF RotateNext, RotateLookup, RotateLock, RotateAlter, RotateUpsert
  <1>2. ASSUME NEW x \in Drops, DropNext(x) PROVE Shrinks
    <2>1. CASE UNCHANGED <<db, role>>
      BY <1>0, <2>1
    <2>2. CASE role' = role /\ db' = DropDatabase(call[x].database)
      BY <2>2 DEF DropDatabase, Shrinks
    <2>3. CASE db' = db /\ RoleUnowned(call[x].owner) /\ role' = DropRole(call[x].owner)
      BY <2>3 DEF DropRole, Shrinks
    <2> QED BY <1>2, <2>1, <2>2, <2>3
            DEF DropNext, DropLock, DropLookup, DropGate, DropDatabaseStep, DropRoleStep,
                DropCredentialStep
  <1>3. ASSUME NEW x \in Truncates, TruncateNext(x) PROVE Shrinks
    BY <1>0, <1>3 DEF TruncateNext, TruncateLock, TruncateStep
  <1> QED BY <1>1, <1>2, <1>3 DEF RequestNext, NoCreates

\* What is gone stays gone, and nothing changes hands.
LEMMA ShrinkKeeps ==
    ASSUME Shrinks, NEW o \in OpId
    PROVE  /\ NoClone(o) => NoClone(o)'
           /\ Clean(o) => Clean(o)'
           /\ row[o].owner \in Role /\ row'[o] = row[o] /\ OwnsOwn(o) => OwnsOwn(o)'
  BY DEF Shrinks, NoClone, Clean, OwnsOwn, DatabaseExists, RoleExists

\* The operation in hand is the same, and its call too.
LEMMA HandFrame ==
    ASSUME Known, Shrinks, Later, cur' = cur, job' = job,
           WorkerAlone => UNCHANGED <<db, role, vault>>,
           job = "run" => call'[cur] = call[cur] /\ row'[cur] = row[cur]
    PROVE  RunInv' /\ WholeInv' /\ CompInv'
  <1>1. CASE cur = None
    BY <1>1 DEF Known, JobInv, RunInv, WholeInv, CompInv
  <1>2. CASE cur # None
    <2>1. PICK o \in OpId : o = cur
      BY <1>2, NamesInHand DEF Known
    <2>2. row[o].database \in Database /\ row[o].owner \in Role
      BY <1>2, <2>1, NamesInHand DEF Known
    <2>3. /\ NoClone(o) => NoClone(o)'
          /\ Clean(o) => Clean(o)'
          /\ row'[o] = row[o] /\ OwnsOwn(o) => OwnsOwn(o)'
      BY <2>2, ShrinkKeeps
    <2>4. Calm' => Calm
      BY DEF Calm, Later
    <2>5. CompInv'
      BY <2>1, <2>3, <2>4 DEF Known, LeavesInv, CompInv, NoClone, Clean, DatabaseExists, RoleExists
    <2>6. ASSUME job = "run" PROVE RunInv' /\ WholeInv'
      <3>1. /\ DatabaseExists(row[o].database)' =>
                  DatabaseExists(row[o].database) /\ db'[row[o].database] = db[row[o].database]
            /\ RoleExists(row[o].owner)' =>
                  RoleExists(row[o].owner) /\ role'[row[o].owner].by = role[row[o].owner].by
        BY <2>1, <2>2, <2>6 DEF Shrinks, DatabaseExists, RoleExists
      <3>2. RunInv'
        BY <2>1, <2>3, <2>4, <2>6, <3>1
        DEF Known, LeavesInv, RunInv, Later, NoClone, Clean, OwnsOwn, DatabaseExists, RoleExists
      <3>3. WholeInv'
        BY <2>1, <2>6
        DEF Known, LeavesInv, WholeInv, DatabaseExists, Saved, WorkerAlone, CloneIsWhole
      <3> QED BY <3>2, <3>3
    <2> QED BY <2>5, <2>6 DEF RunInv, WholeInv
  <1> QED BY <1>1, <1>2

\* The operation in hand was put down, or its compensation begins.
LEMMA HandFree ==
    ASSUME job' \in {"idle", "compDatabase"}
    PROVE  RunInv' /\ WholeInv' /\ CompInv'
  BY DEF RunInv, WholeInv, CompInv

\* A row moves on, with its names, to a status that does not say it is clean.
LEMMA MarksFrame ==
    ASSUME Known, Shrinks, Later, UNCHANGED asked,
           \A o \in OpId :
              \/ status'[o] = status[o] /\ row'[o] = row[o]
              \/ status'[o] = "absent" /\ status[o] # "absent"
              \/ /\ status[o] # "absent" /\ row'[o] = row[o]
                 /\ status'[o] \notin {"absent", "queued"}
                 /\ status'[o] = "failed" /\ Calm => Clean(o)
    PROVE  MarksInv' /\ OwnersMatch'
  <1>1. Calm' => Calm
    BY DEF Calm, Later
  <1>2. MarksInv'
    BY <1>1 DEF Known, LeavesInv, MarksInv, Marked, Clean, NoClone, DatabaseExists, RoleExists, Shrinks
  <1>3. OwnersMatch'
    <2>1. ASSUME NEW d \in Database, DatabaseExists(d)'
          PROVE  /\ RoleExists(db[d].owner)' /\ (role[db[d].owner].by = db[d].by)'
                 /\ \A x \in db'[d].objects : RoleExists(x.owner)'
      <3>1. db'[d] = db[d] /\ DatabaseExists(d)
        BY <2>1 DEF Shrinks, DatabaseExists
      <3>2. db[d] \in DatabaseRow
        BY <3>1 DEF Known, JobTyped, CallsTyped, RequestsTypeOK, CatalogTypeOK, DatabaseExists
      <3>3. db[d].owner \in Role /\ \A x \in db[d].objects : x.owner \in Role
        BY <3>2 DEF DatabaseRow, Object
      <3>4. ASSUME NEW r \in Role, RoleExists(r),
                   r = db[d].owner \/ \E x \in db[d].objects : x.owner = r
            PROVE  RoleExists(r)' /\ (role[r].by)' = role[r].by
        <4>1. ~RoleUnowned(r)
          BY <3>1, <3>4 DEF RoleUnowned
        <4> QED BY <3>4, <4>1 DEF Shrinks, RoleExists
      <3> QED BY <3>1, <3>3, <3>4 DEF Known, LeavesInv, OwnersMatch
    <2> QED BY <2>1 DEF OwnersMatch
  <1> QED BY <1>2, <1>3

\* A step that touches neither the databases nor the roles.
LEMMA QuietShrinks == ASSUME UNCHANGED <<db, role>> PROVE Shrinks
  BY DEF Shrinks

\* The handlers. An id that is drawn has left nothing.
LEMMA EnqueueLeaves ==
    ASSUME Known, Later, NEW o \in OpId, EnqueuePrepare(o) \/ EnqueueInsert(o)
    PROVE  LeavesInv'
  <1> USE DEF catalogVars, requestVars, storeVars
  <1>1. UNCHANGED <<db, role, vault, faults, call, cur, job>>
    BY DEF EnqueuePrepare, EnqueueInsert
  <1>2. Shrinks /\ OwnersMatch'
    BY <1>1, QuietShrinks DEF Known, LeavesInv, OwnersMatch, DatabaseExists, RoleExists
  <1>3. CASE EnqueuePrepare(o)
    <2>1. UNCHANGED <<row, status>> /\ status[o] = "absent" /\ Clean(o)
          /\ \E q : asked' = [asked EXCEPT ![o] = q]
      BY <1>3 DEF EnqueuePrepare, FreshId, Clean, NoClone
    <2>2. MarksInv'
      BY <1>1, <2>1 DEF Known, LeavesInv, MarksInv, Marked, Calm, Clean, NoClone, DatabaseExists,
                        RoleExists, JobInv
    <2> QED BY <1>1, <1>2, <2>1, <2>2, HandFrame DEF LeavesInv
  <1>4. CASE EnqueueInsert(o)
    <2>1. asked[o] # None /\ asked' = [asked EXCEPT ![o] = None]
          /\ \/ UNCHANGED <<row, status>>
             \/ /\ status[o] = "absent" /\ status' = [status EXCEPT ![o] = "queued"]
                /\ row' = [row EXCEPT ![o] = asked[o]]
      BY <1>4 DEF EnqueueInsert, InsertQueued
    <2>2. Clean(o) /\ status[o] = "absent"
      BY <2>1 DEF Known, LeavesInv, MarksInv, Marked, Clean, NoClone
    <2>3. MarksInv'
      BY <1>1, <2>1, <2>2 DEF Known, LeavesInv, MarksInv, Marked, Calm, Clean, NoClone,
                              DatabaseExists, RoleExists, JobInv, StoreInv, StoreTypeOK
    <2>4. job = "run" => cur # o /\ cur \in OpId
      BY <2>2, NoneIsNoOperation DEF Known, JobInv
    <2>5. job = "run" => row'[cur] = row[cur]
      BY <2>1, <2>4 DEF Known, JobInv
    <2> QED BY <1>1, <1>2, <2>3, <2>5, HandFrame DEF LeavesInv
  <1> QED BY <1>3, <1>4

\* The worker's writes to the ledger.
LEMMA WorkerLeaves ==
    ASSUME Known, Later, NEW o \in OpId, Claim(o) \/ DuplicateReturns(o) \/ CompensationEnds(o)
    PROVE  LeavesInv'
  <1> USE DEF catalogVars, requestVars
  <1>1. /\ UNCHANGED <<db, role, vault, faults, row, asked>>
        /\ status \in [OpId -> Status \cup {"absent"}]
        /\ o \in Caller /\ call \in [Caller -> CallRow]
    BY JobAssumption DEF Claim, DuplicateReturns, CompensationEnds, Known, StoreInv, StoreTypeOK,
           JobTyped, CallsTyped, RequestsTypeOK, RequestTypeOK, CallRow
  <1>2. Shrinks
    BY <1>1, QuietShrinks
  <1>3. CASE Claim(o)
    <2>1. /\ status[o] = "queued" /\ status' = [status EXCEPT ![o] = "running"]
          /\ cur' = o /\ job' = "run" /\ call'[o].pc = "prepare"
      BY <1>1, <1>3 DEF Claim, Transition, IdleCall
    <2>2. MarksInv' /\ OwnersMatch'
      BY <1>1, <1>2, <2>1, MarksFrame
    <2>3. Clean(o)
      BY <2>1 DEF Known, LeavesInv, MarksInv, Marked, Clean, NoClone
    <2>4. RunInv' /\ WholeInv' /\ CompInv'
      BY <1>1, <2>1, <2>3 DEF RunInv, WholeInv, CompInv, Clean, NoClone, Forward, Backward, Cloned,
                              DatabaseExists, RoleExists
    <2> QED BY <2>2, <2>4 DEF LeavesInv
  <1>4. CASE DuplicateReturns(o)
    <2>1. /\ job = "run" /\ cur = o /\ call[o].pc = "done"
          /\ \/ /\ status' = [status EXCEPT ![o] = "succeeded"] /\ job' = "idle"
             \/ /\ status' = [status EXCEPT ![o] = "compensating"] /\ cur' = cur
                /\ job' = IF skipDuplicateCompensation(call[o].outcome) THEN "failed" ELSE "compDatabase"
          /\ status[o] = "running"
      BY <1>4 DEF DuplicateReturns, Transition, At
    <2>2. MarksInv' /\ OwnersMatch'
      BY <1>1, <1>2, <2>1, MarksFrame
    <2>3. CASE job' \in {"idle", "compDatabase"}
      BY <2>2, <2>3, HandFree DEF LeavesInv
    <2>4. CASE job' = "failed"
      <3>1. (Calm => Clean(o)) /\ cur' = o
        BY <2>1, <2>4 DEF Known, LeavesInv, RunInv
      <3>2. RunInv' /\ WholeInv' /\ CompInv'
        BY <1>1, <2>4, <3>1 DEF RunInv, WholeInv, CompInv, Calm, Clean, NoClone, DatabaseExists,
                                RoleExists
      <3> QED BY <2>2, <3>2 DEF LeavesInv
    <2> QED BY <2>1, <2>3, <2>4
  <1>5. CASE CompensationEnds(o)
    <2>1. /\ status[o] = "compensating" /\ job' = "idle" /\ cur = o
          /\ \/ job = "failed" /\ status' = [status EXCEPT ![o] = "failed"]
             \/ status' = [status EXCEPT ![o] = "indeterminate"]
      BY <1>5 DEF CompensationEnds, Transition
    <2>2. job = "failed" /\ Calm => Clean(o)
      BY <2>1 DEF Known, LeavesInv, CompInv
    <2>3. MarksInv' /\ OwnersMatch'
      BY <1>1, <1>2, <2>1, <2>2, MarksFrame
    <2> QED BY <2>1, <2>3, HandFree DEF LeavesInv
  <1> QED BY <1>3, <1>4, <1>5

\* Reconcile. A row is failed at once only when clone and role are missing.
LEMMA ReconcileLeaves ==
    ASSUME Known, Later, NEW o \in OpId,
           ReconcileInterrupt(o) \/ ReconcileResume(o) \/ ReconcileResolve(o)
    PROVE  LeavesInv'
  <1> USE DEF catalogVars, requestVars
  <1>0. UNCHANGED <<db, role, vault, asked, call>> /\ status \in [OpId -> Status \cup {"absent"}]
    BY DEF ReconcileInterrupt, ReconcileResume, ReconcileResolve, Known, StoreInv, StoreTypeOK
  <1>1. row' = row /\ Shrinks
    BY <1>0, ReconcileJobInv, QuietShrinks DEF Known
  <1>2. CASE ReconcileInterrupt(o)
    <2>1. /\ status[o] = "running" /\ status' = [status EXCEPT ![o] = "interrupted"]
          /\ UNCHANGED <<cur, job>>
      BY <1>2 DEF ReconcileInterrupt, Transition
    <2>2. MarksInv' /\ OwnersMatch'
      BY <1>0, <1>1, <2>1, MarksFrame
    <2> QED BY <1>0, <1>1, <2>1, <2>2, HandFrame DEF LeavesInv
  <1>3. CASE ReconcileResume(o)
    <2>1. status' = status /\ job' = "compDatabase"
      BY <1>3 DEF ReconcileResume, storeVars
    <2>2. MarksInv' /\ OwnersMatch'
      BY <1>0, <1>1, <2>1, MarksFrame
    <2> QED BY <2>1, <2>2, HandFree DEF LeavesInv
  <1>4. CASE ReconcileResolve(o)
    <2>1. /\ status[o] = "interrupted" /\ job = "idle"
          /\ \E to \in Status \ {"queued"} :
                /\ status' = [status EXCEPT ![o] = to]
                /\ to = "failed" => Found(row[o]) \in {{}, {"vault"}}
          /\ job' \in {"idle", "compDatabase"}
      BY <1>4 DEF ReconcileResolve, Transition, Status, Terminal, Live
    <2>2. Found(row[o]) \in {{}, {"vault"}} => Clean(o)
      <3>1. /\ Found(row[o]) \in {{}, {"vault"}} =>
                  ~DatabaseExists(row[o].database) /\ ~RoleExists(row[o].owner)
        BY DEF Found
      <3> QED BY <2>1, <3>1 DEF Known, LeavesInv, MarksInv, Clean, NoClone
    <2>3. MarksInv' /\ OwnersMatch'
      BY <1>0, <1>1, <2>1, <2>2, MarksFrame DEF Status, Terminal, Live
    <2> QED BY <2>1, <2>3, HandFree DEF LeavesInv
  <1> QED BY <1>2, <1>3, <1>4

\* The steps that concern no operation in particular, and those of the
\* rotations and drops beside the worker.
LEMMA ProcessLeaves ==
    ASSUME NoCreates, Known, Later,
           \/ Poll \/ Boot \/ ReconcileNextPhase \/ ReconcilePrune \/ LedgerFailure
           \/ Crash \/ OtherRequest \/ Clock \/ UNCHANGED vars
    PROVE  LeavesInv'
  <1> USE DEF catalogVars, requestVars, storeVars, jobVars
  <1>1. CASE Poll \/ Boot \/ ReconcileNextPhase \/ Clock \/ UNCHANGED vars
    <2>1. UNCHANGED <<db, role, vault, call, row, asked, status, cur, job>>
      BY <1>1 DEF Poll, Boot, ReconcileNextPhase, Clock, Tick, vars
    <2>2. MarksInv' /\ OwnersMatch'
      BY <2>1, QuietShrinks, MarksFrame
    <2> QED BY <2>1, <2>2, QuietShrinks, HandFrame DEF LeavesInv
  <1>2. CASE ReconcilePrune
    <2>1. /\ UNCHANGED <<db, role, vault, call, asked, cur, job>> /\ job = "idle"
          /\ status' = [o \in OpId |-> IF o \in Pruned THEN "absent" ELSE status[o]]
          /\ row' = [o \in OpId |-> IF o \in Pruned THEN None ELSE row[o]]
      BY <1>2 DEF ReconcilePrune, pruneTerminal
    <2>2. \A o \in Pruned : status[o] # "absent"
      BY DEF Pruned, Expired, Overflow, TerminalRows, terminalStatus, Terminal
    <2>3. MarksInv' /\ OwnersMatch'
      BY <2>1, <2>2, QuietShrinks, MarksFrame
    <2> QED BY <2>1, <2>3, HandFree DEF LeavesInv
  <1>3. CASE LedgerFailure
    <2>1. UNCHANGED <<db, role, vault, asked, status, row>> /\ job' = "idle"
      BY <1>3 DEF LedgerFailure
    <2>2. MarksInv' /\ OwnersMatch'
      BY <2>1, QuietShrinks, MarksFrame
    <2> QED BY <2>1, <2>2, HandFree DEF LeavesInv
  <1>4. CASE Crash
    <2>1. UNCHANGED <<db, role, vault, faults, status, row>> /\ job' = "idle"
          /\ asked' = [o \in OpId |-> None]
      BY <1>4 DEF Crash
    <2>2. MarksInv' /\ OwnersMatch'
      BY <2>1 DEF Known, LeavesInv, MarksInv, OwnersMatch, Marked, Calm, DatabaseExists, RoleExists
    <2> QED BY <2>1, <2>2, HandFree DEF LeavesInv
  <1>5. CASE OtherRequest
    <2>1. UNCHANGED <<asked, status, row, cur, job>> /\ Shrinks
      BY <1>5, RequestShrinks DEF OtherRequest, Known, JobTyped, CallsTyped, RequestsTypeOK
    <2>2. WorkerAlone => UNCHANGED <<db, role, vault>>
      BY <1>5 DEF OtherRequest, RequestNext, WorkerAlone, TruncateNext, TruncateLock, TruncateStep
    <2>3. job = "run" => call'[cur] = call[cur]
      BY <1>5, RequestTyped DEF OtherRequest, Known, JobTyped, JobInv
    <2>4. MarksInv' /\ OwnersMatch'
      BY <2>1, MarksFrame
    <2> QED BY <2>1, <2>2, <2>3, <2>4, HandFrame DEF LeavesInv
  <1> QED BY <1>1, <1>2, <1>3, <1>4, <1>5

\* A statement for the operation in hand: what is new in the catalog is its
\* own, and under its names.
LEMMA StatementMarks ==
    ASSUME Known, Later, cur # None, UNCHANGED <<status, row, asked>>,
           \A d \in Database : db'[d] # None =>
              \/ db[d] # None /\ db'[d].by = db[d].by
              \/ d = row[cur].database /\ db'[d].by = cur,
           \A r \in Role : role'[r] # None =>
              \/ role[r] # None /\ role'[r].by = role[r].by
              \/ r = row[cur].owner /\ role'[r].by = cur
    PROVE  MarksInv'
  <1>1. cur \in OpId /\ status[cur] \in {"running", "compensating"}
    BY DEF Known, JobInv
  <1>2. Marked(cur)
    BY <1>1 DEF Known, LeavesInv, MarksInv, Marked
  <1>3. Calm' => Calm
    BY DEF Calm, Later
  <1> QED BY <1>1, <1>2, <1>3 DEF Known, LeavesInv, MarksInv, Marked, DatabaseExists, RoleExists

\* The facts every statement of the worker's call starts from.
LEMMA AtWork ==
    ASSUME Known, NEW o \in OpId, DuplicateStep(o)
    PROVE  /\ cur = o /\ cur # None /\ job = "run" /\ job' = "run" /\ cur' = o
           /\ UNCHANGED <<status, row, asked>> /\ status[o] = "running"
           /\ o \in Caller /\ o \notin Creates
           /\ row[o].source \in Database /\ row[o].database \in Database /\ row[o].owner \in Role
           /\ row[o].source # row[o].database
           /\ call[o].source = row[o].source /\ call[o].database = row[o].database
           /\ call[o].owner = row[o].owner
           /\ RequestTypeOK /\ CatalogTypeOK
  <1>1. /\ cur = o /\ cur # None /\ job = "run" /\ job' = "run" /\ cur' = o
        /\ UNCHANGED <<status, row, asked>>
    BY NoneIsNoOperation DEF DuplicateStep, Running, storeVars, jobVars
  <1> QED BY <1>1, NamesInHand, JobAssumption
          DEF Known, JobInv, JobTyped, CallMatches, CallsTyped, RequestsTypeOK

\* The operation compensates in line: with an error that the worker compensates
\* again, or with role and clone both made.
LEMMA TurnBack ==
    ASSUME Known, Later, NEW o \in OpId, DuplicateStep(o), UNCHANGED <<db, role>>,
           call[o].pc \in Forward \ {"createRole"},
           call'[o].pc = "undoCredential", call'[o].made = call[o].made, call'[o].outcome # "ok",
           skipDuplicateCompensation(call'[o].outcome) => call[o].pc \in Cloned /\ ~WorkerAlone
    PROVE  LeavesInv'
  <1>1. MarksInv' /\ OwnersMatch'
    BY AtWork, QuietShrinks, MarksFrame
  <1>2. /\ OwnsOwn(o) /\ (call[o].pc \in Cloned => {"role", "database"} \subseteq call[o].made)
    BY AtWork DEF Known, LeavesInv, RunInv, Cloned
  <1>3. OwnsOwn(o)'
    BY <1>2, AtWork, QuietShrinks, ShrinkKeeps
  <1>4. RunInv'
    BY <1>2, <1>3, AtWork DEF RunInv, Forward, Backward, Cloned, OwnsOwn
  <1>5. WholeInv' /\ CompInv'
    BY AtWork DEF WholeInv, CompInv, Forward, Cloned
  <1> QED BY <1>1, <1>4, <1>5 DEF LeavesInv

\* PrepareDuplicate and CREATE ROLE.
LEMMA BeginLeaves ==
    ASSUME Known, Later, NEW o \in OpId, DuplicateStep(o), DuplicatePrepare(o) \/ CreateRoleStep(o)
    PROVE  LeavesInv'
  <1> USE AtWork DEF At, Forward, Backward, Cloned, skipDuplicateCompensation
  <1>1. CASE DuplicatePrepare(o)
    <2>1. UNCHANGED <<db, role, vault>> /\ call[o].pc = "prepare"
      BY <1>1 DEF DuplicatePrepare
    <2>2. MarksInv' /\ OwnersMatch' /\ Clean(o) /\ Clean(o)'
      BY <2>1, QuietShrinks, MarksFrame, ShrinkKeeps DEF Known, LeavesInv, RunInv
    <2>3. \/ /\ call'[o].pc = "createRole" /\ PrepareAnswer(row[o]) = "ok"
          \/ /\ call'[o].pc = "done" /\ call'[o].outcome # "ok"
      BY <1>1 DEF DuplicatePrepare, Answer, RequestTypeOK
    <2>4. PrepareAnswer(row[o]) = "ok" =>
             /\ DatabaseExists(row[o].source) /\ ~DatabaseExists(row[o].database)
             /\ ~Saved(row[o].owner)
      BY DEF PrepareAnswer
    <2>5. RunInv' /\ WholeInv' /\ CompInv'
      BY <2>1, <2>2, <2>3, <2>4 DEF RunInv, WholeInv, CompInv, Clean, NoClone, DatabaseExists,
                                    RoleExists, Saved
    <2> QED BY <2>2, <2>5 DEF LeavesInv
  <1>2. CASE CreateRoleStep(o)
    <2> DEFINE r == row[o].owner
    <2>0. /\ call[o].pc = "createRole" /\ UNCHANGED <<db, vault>>
          /\ Clean(o) /\ ~DatabaseExists(row[o].database)
          /\ WorkerAlone => DatabaseExists(row[o].source) /\ ~Saved(r)
      BY <1>2 DEF CreateRoleStep, Known, LeavesInv, RunInv, WholeInv
    <2>1. CASE RoleExists(r)
      <3>1. role' = role /\ Answer(o, "conflict")
        BY <1>2, <2>1 DEF CreateRoleStep
      <3>2. call'[o].pc = "done" /\ call'[o].outcome = "conflict"
        BY <3>1, AnswerMoves DEF Moved, Outcome
      <3>3. MarksInv' /\ OwnersMatch' /\ Clean(o)'
        BY <2>0, <3>1, QuietShrinks, MarksFrame, ShrinkKeeps
      <3>4. RunInv' /\ WholeInv' /\ CompInv'
        BY <3>2, <3>3 DEF RunInv, WholeInv, CompInv, Clean, NoClone, DatabaseExists, RoleExists
      <3> QED BY <3>3, <3>4 DEF LeavesInv
    <2>2. CASE ~RoleExists(r)
      <3>1. PICK reply \in Reply :
               /\ role' = IF Took(reply) THEN CreateRole(r, o) ELSE role
               /\ IF reply = "ok" THEN Made(o, "role", "createDatabase") ELSE Answer(o, "unavailable")
        BY <1>2, <2>2 DEF CreateRoleStep
      <3>2. /\ reply = "ok" => /\ call'[o].pc = "createDatabase" /\ "role" \in call'[o].made
                               /\ role'[r] = [by |-> o, pw |-> o]
            /\ reply # "ok" => call'[o].pc = "done" /\ call'[o].outcome = "unavailable"
        BY <3>1 DEF Made, Answer, RequestTypeOK, CatalogTypeOK, CreateRole, Took
      <3>3. /\ \A s \in Role : s # r => role'[s] = role[s]
            /\ role'[r] = None \/ role'[r] = [by |-> o, pw |-> o]
        BY <2>2, <3>1 DEF CreateRole, CatalogTypeOK, RoleExists
      <3>4. MarksInv'
        BY <2>0, <3>3, StatementMarks
      <3>5. \A d \in Database : DatabaseExists(d) =>
               db[d].owner # r /\ \A x \in db[d].objects : x.owner # r
        BY <2>2 DEF Known, LeavesInv, OwnersMatch
      <3>6. OwnersMatch' /\ OwnsOwn(o)'
        BY <2>0, <3>3, <3>5, OwnersTyped
           DEF Known, LeavesInv, OwnersMatch, OwnsOwn, DatabaseExists, RoleExists
      <3>7. RunInv' /\ CompInv'
        BY <2>0, <3>2, <3>6 DEF RunInv, CompInv, DatabaseExists, RoleExists, OwnsOwn
      <3>8. WholeInv'
        BY <2>0, <3>2 DEF WholeInv, DatabaseExists, Saved
      <3> QED BY <3>4, <3>6, <3>7, <3>8 DEF LeavesInv
    <2> QED BY <2>1, <2>2
  <1> QED BY <1>1, <1>2

\* CREATE DATABASE ... TEMPLATE.
LEMMA CloneLeaves ==
    ASSUME Known, Later, NEW o \in OpId, DuplicateStep(o), DuplicateDatabaseStep(o)
    PROVE  LeavesInv'
  <1> USE AtWork DEF At, Forward, Backward, Cloned, skipDuplicateCompensation
  <1> DEFINE r == row[o].owner
             d == row[o].database
             s == row[o].source
  <1>0. UNCHANGED <<role, vault>> /\ {"unavailable", "conflict"} \subseteq Outcome
    BY DEF DuplicateDatabaseStep, Outcome
  <1>1. /\ call[o].pc = "createDatabase" /\ ~DatabaseExists(d) /\ "role" \in call[o].made
        /\ RoleExists(r) => role[r].by = o
        /\ OwnsOwn(o)
        /\ WorkerAlone => role[r] = [by |-> o, pw |-> o] /\ DatabaseExists(s) /\ ~Saved(r)
    BY DEF DuplicateDatabaseStep, Known, LeavesInv, RunInv, WholeInv
  <1>2. CASE db' = db /\ Undo(o, "unavailable")
    <2>1. /\ call'[o].pc = "undoCredential" /\ call'[o].outcome = "unavailable"
          /\ call'[o].made = call[o].made
      BY <1>0, <1>2, UndoMoves DEF Moved
    <2> QED BY <1>0, <1>1, <1>2, <2>1, TurnBack
  <1>3. ASSUME NEW reply \in Reply, RoleExists(r), DatabaseExists(s),
               db' = IF Took(reply) THEN CreateDatabaseTemplate(d, s, r, o) ELSE db,
               IF reply = "ok" THEN Made(o, "database", "lockConnect") ELSE Undo(o, "unavailable")
        PROVE  LeavesInv'
    <2>1. /\ reply = "ok" => /\ call'[o].pc = "lockConnect"
                             /\ call'[o].made = call[o].made \cup {"database"}
          /\ reply # "ok" => call'[o].pc = "undoCredential" /\ call'[o].outcome = "unavailable"
      BY <1>3 DEF Made, Undo, RequestTypeOK
    <2>2. /\ \A e \in Database : e # d => db'[e] = db[e]
          /\ \/ db'[d] = None /\ ~Took(reply)
             \/ /\ Took(reply) /\ db'[d] # None /\ db'[d].owner = r /\ db'[d].by = o
                /\ db'[d].objects = db[s].objects
      <3>1. CASE ~Took(reply)
        BY <1>1, <1>3, <3>1 DEF DatabaseExists
      <3>2. CASE Took(reply)
        <4>1. db' = [db EXCEPT ![d] = [owner |-> r, objects |-> db[s].objects, by |-> o]]
          BY <1>3, <3>2 DEF CreateDatabaseTemplate
        <4>2. [owner |-> r, objects |-> db[s].objects, by |-> o] \in DatabaseRow
          BY <1>3 DEF DatabaseExists, CatalogTypeOK, DatabaseRow, Maker
        <4> QED BY <3>2, <4>1, <4>2, CatalogAssumption DEF CatalogTypeOK
      <3> QED BY <3>1, <3>2
    <2>3. MarksInv'
      BY <1>0, <2>2, StatementMarks
    <2>4. OwnersMatch' /\ OwnsOwn(o)'
      <3>1. OwnersMatch'
        BY <1>0, <1>1, <1>3, <2>2 DEF Known, LeavesInv, OwnersMatch, DatabaseExists, RoleExists
      <3>2. OwnsOwn(o)'
        BY <1>0, <1>1, <2>2 DEF OwnsOwn, DatabaseExists, RoleExists
      <3> QED BY <3>1, <3>2
    <2>5. RunInv' /\ CompInv'
      BY <1>0, <1>1, <2>1, <2>2, <2>4 DEF RunInv, CompInv, OwnsOwn, DatabaseExists, RoleExists, Took
    <2>6. WholeInv'
      BY <1>0, <1>1, <2>1, <2>2 DEF WholeInv, DatabaseExists, Saved, Took
    <2> QED BY <2>3, <2>4, <2>5, <2>6 DEF LeavesInv
  <1> QED BY <1>1, <1>2, <1>3 DEF DuplicateDatabaseStep

\* The transfer of what is in the clone.
LEMMA TransferLeaves ==
    ASSUME Known, Later, NEW o \in OpId, DuplicateStep(o), DuplicateTransfer(o)
    PROVE  LeavesInv'
  <1> USE AtWork DEF At, Forward, Backward, Cloned, skipDuplicateCompensation
  <1> DEFINE r == row[o].owner
             d == row[o].database
  <1>0. UNCHANGED <<role, vault>> /\ "unavailable" \in Outcome
    BY DEF DuplicateTransfer, Outcome
  <1>1. /\ call[o].pc = "transfer" /\ {"role", "database"} \subseteq call[o].made
        /\ RoleExists(r) => role[r].by = o
        /\ DatabaseExists(d) => db[d].owner = r /\ db[d].by = o
        /\ OwnsOwn(o)
        /\ WorkerAlone => /\ role[r] = [by |-> o, pw |-> o] /\ DatabaseExists(row[o].source)
                          /\ DatabaseExists(d) /\ vault[r] = o
                          /\ db[d].objects = db[row[o].source].objects
    BY DEF DuplicateTransfer, Known, LeavesInv, RunInv, WholeInv
  <1>2. CASE db' = db /\ Undo(o, "unavailable")
    <2>1. /\ call'[o].pc = "undoCredential" /\ call'[o].outcome = "unavailable"
          /\ call'[o].made = call[o].made
      BY <1>0, <1>2, UndoMoves DEF Moved
    <2> QED BY <1>0, <1>1, <1>2, <2>1, TurnBack
  <1>3. ASSUME NEW reply \in Reply, DatabaseExists(d),
               RoleExists(r) \/ \A x \in db[d].objects : Retained(x),
               db' = IF Took(reply) THEN TransferCloneOwnership(d, r) ELSE db,
               IF reply = "ok" THEN Goto(o, "assertLast") ELSE Undo(o, "unavailable")
        PROVE  LeavesInv'
    <2>1. /\ reply = "ok" => call'[o].pc = "assertLast"
          /\ reply # "ok" => call'[o].pc = "undoCredential" /\ call'[o].outcome = "unavailable"
          /\ call'[o].made = call[o].made
      BY <1>3 DEF Goto, Undo, RequestTypeOK
    <2>2. /\ \A e \in Database : e # d => db'[e] = db[e]
          /\ db'[d] # None /\ db'[d].owner = r /\ db'[d].by = o
          /\ db'[d].objects = IF Took(reply) THEN {Transferred(x, r) : x \in db[d].objects}
                                             ELSE db[d].objects
      <3> DEFINE v == [db[d] EXCEPT !.objects = {Transferred(x, r) : x \in @}]
      <3>1. db[d] \in DatabaseRow
        BY <1>3 DEF DatabaseExists, CatalogTypeOK
      <3>2. v \in DatabaseRow
        BY <1>3, TransferredRow
      <3>3. v.owner = db[d].owner /\ v.by = db[d].by
            /\ v.objects = {Transferred(x, r) : x \in db[d].objects}
        BY <3>1 DEF DatabaseRow
      <3>4. IF Took(reply) THEN db' = [db EXCEPT ![d] = v] ELSE db' = db
        BY <1>3 DEF TransferCloneOwnership
      <3> HIDE DEF v
      <3> QED BY <1>1, <1>3, <3>1, <3>2, <3>3, <3>4, CatalogAssumption DEF CatalogTypeOK, DatabaseExists
    <2>7. \A x \in db'[d].objects : x \in db[d].objects \/ (x.owner = r /\ RoleExists(r))
      <3>1. \A x \in db[d].objects :
               \/ Transferred(x, r) \in db[d].objects
               \/ Transferred(x, r).owner = r /\ RoleExists(r)
        <4>1. \A x \in db[d].objects : x \in Object
          BY <1>3 DEF DatabaseExists, CatalogTypeOK, DatabaseRow
        <4> QED BY <1>3, <4>1 DEF Transferred, Object
      <3> QED BY <2>2, <3>1
    <2>3. MarksInv'
      BY <1>0, <1>1, <1>3, <2>2, StatementMarks DEF DatabaseExists
    <2>4. OwnersMatch' /\ OwnsOwn(o)'
      <3>1. OwnersMatch'
        BY <1>0, <1>1, <1>3, <2>2, <2>7 DEF Known, LeavesInv, OwnersMatch, DatabaseExists, RoleExists
      <3>2. OwnsOwn(o)'
        BY <1>0, <1>1, <2>2 DEF OwnsOwn, DatabaseExists, RoleExists
      <3> QED BY <3>1, <3>2
    <2>5. RunInv' /\ CompInv'
      BY <1>0, <1>1, <2>1, <2>2, <2>4 DEF RunInv, CompInv, OwnsOwn, DatabaseExists, RoleExists
    <2>6. WholeInv'
      BY <1>0, <1>1, <2>1, <2>2 DEF WholeInv, DatabaseExists, Took
    <2> QED BY <2>3, <2>4, <2>5, <2>6 DEF LeavesInv
  <1> QED BY <1>1, <1>2, <1>3 DEF DuplicateTransfer

\* The checks and the vault row.
LEMMA CheckLeaves ==
    ASSUME Known, Later, NEW o \in OpId, DuplicateStep(o),
           LockConnectStep(o) \/ AssertSource(o) \/ InsertCredentialStep(o)
    PROVE  LeavesInv'
  <1> USE AtWork DEF At, Forward, Backward, Cloned, skipDuplicateCompensation
  <1> DEFINE r == row[o].owner
             d == row[o].database
  <1>0. /\ UNCHANGED <<db, role>>
        /\ {"unavailable", "conflict", "isolation", "notFound", "ok"} \subseteq Outcome
    BY DEF LockConnectStep, AssertSource, InsertCredentialStep, Outcome
  <1>1. MarksInv' /\ OwnersMatch'
    BY <1>0, QuietShrinks, MarksFrame
  <1>2. /\ call[o].pc \in Cloned /\ {"role", "database"} \subseteq call[o].made
        /\ RoleExists(r) => role[r].by = o
        /\ DatabaseExists(d) => db[d].owner = r /\ db[d].by = o
        /\ OwnsOwn(o)
        /\ WorkerAlone => /\ role[r] = [by |-> o, pw |-> o] /\ DatabaseExists(row[o].source)
                          /\ DatabaseExists(d)
    BY DEF LockConnectStep, AssertSource, InsertCredentialStep, Known, LeavesInv, RunInv, WholeInv
  <1>3. OwnsOwn(o)'
    BY <1>0, <1>2, QuietShrinks, ShrinkKeeps
  <1>4. ASSUME NEW out \in {"unavailable", "isolation", "notFound", "conflict"}, Undo(o, out),
               out \in {"notFound", "conflict"} => ~WorkerAlone
        PROVE  LeavesInv'
    <2>1. /\ call'[o].pc = "undoCredential" /\ call'[o].outcome = out
          /\ call'[o].made = call[o].made
      BY <1>0, <1>4, UndoMoves DEF Moved
    <2> QED BY <1>0, <1>2, <1>4, <2>1, TurnBack
  <1>5. ASSUME call'[o].pc \in Cloned, call[o].made \subseteq call'[o].made PROVE RunInv' /\ CompInv'
    BY <1>0, <1>2, <1>3, <1>5 DEF RunInv, CompInv, OwnsOwn, DatabaseExists, RoleExists
  <1>6. CASE LockConnectStep(o) /\ Goto(o, "assertFirst")
    <2>1. /\ call'[o].pc = "assertFirst" /\ call'[o].made = call[o].made /\ vault' = vault
          /\ WorkerAlone => ~Saved(r) /\ db[d].objects = db[row[o].source].objects
      BY <1>6 DEF LockConnectStep, Goto, RequestTypeOK, Known, LeavesInv, WholeInv
    <2>2. WholeInv'
      BY <1>0, <1>2, <2>1 DEF WholeInv, DatabaseExists, Saved
    <2> QED BY <1>1, <1>5, <2>1, <2>2 DEF LeavesInv
  <1>7. CASE AssertSource(o) /\ call[o].pc = "assertFirst" /\ Goto(o, "insertCredential")
    <2>1. /\ call'[o].pc = "insertCredential" /\ call'[o].made = call[o].made /\ vault' = vault
          /\ WorkerAlone => ~Saved(r) /\ db[d].objects = db[row[o].source].objects
      BY <1>7 DEF AssertSource, Goto, RequestTypeOK, Known, LeavesInv, WholeInv
    <2>2. WholeInv'
      BY <1>0, <1>2, <2>1 DEF WholeInv, DatabaseExists, Saved
    <2> QED BY <1>1, <1>5, <2>1, <2>2 DEF LeavesInv
  <1>8. CASE AssertSource(o) /\ call[o].pc = "assertLast" /\ Answer(o, "ok")
    <2>1. /\ call'[o].pc = "done" /\ call'[o].outcome = "ok" /\ vault' = vault
          /\ WorkerAlone =>
                /\ vault[r] = o
                /\ db[d].objects = {Transferred(x, r) : x \in db[row[o].source].objects}
      BY <1>0, <1>8, AnswerMoves DEF AssertSource, Moved, Known, LeavesInv, WholeInv
    <2>2. WorkerAlone => CloneIsWhole(row[o], o)
      <3>1. WorkerAlone => \A x \in db[row[o].source].objects : x \in Object
        BY <1>2 DEF DatabaseExists, CatalogTypeOK, DatabaseRow
      <3> QED BY <1>2, <2>1, <3>1 DEF CloneIsWhole, Transferred, Object
    <2>3. RunInv' /\ WholeInv' /\ CompInv'
      BY <1>0, <1>2, <2>1, <2>2 DEF RunInv, WholeInv, CompInv, CloneIsWhole
    <2> QED BY <1>1, <2>3 DEF LeavesInv
  <1>9. CASE InsertCredentialStep(o) /\ Made(o, "vault", "transfer") /\ vault' = PutCredential(r, o)
    <2>1. /\ call'[o].pc = "transfer" /\ call[o].made \subseteq call'[o].made /\ vault'[r] = o
          /\ WorkerAlone => db[d].objects = db[row[o].source].objects
      BY <1>9 DEF Made, RequestTypeOK, PutCredential, CatalogTypeOK, InsertCredentialStep, Known,
                  LeavesInv, WholeInv
    <2>2. WholeInv'
      BY <1>0, <1>2, <2>1 DEF WholeInv, DatabaseExists
    <2> QED BY <1>1, <1>5, <2>1, <2>2 DEF LeavesInv
  <1>10. CASE LockConnectStep(o)
    BY <1>4, <1>6, <1>10 DEF LockConnectStep
  <1>11. CASE AssertSource(o)
    BY <1>2, <1>4, <1>7, <1>8, <1>11 DEF AssertSource
  <1>12. CASE InsertCredentialStep(o)
    <2>1. WorkerAlone => ~Saved(r)
      BY <1>12 DEF InsertCredentialStep, Known, LeavesInv, WholeInv
    <2> QED BY <1>4, <1>9, <1>12, <2>1 DEF InsertCredentialStep, Took
  <1> QED BY <1>10, <1>11, <1>12

\* compensateCreate. When its error is one that the worker does not compensate
\* again, and no statement failed, it has removed both the clone and the role.
LEMMA UndoLeaves ==
    ASSUME Known, Later, NEW o \in OpId, DuplicateStep(o),
           UndoCredentialStep(o) \/ UndoDatabaseStep(o) \/ UndoRoleStep(o)
    PROVE  LeavesInv'
  <1> USE AtWork DEF At, Forward, Backward, Cloned
  <1> DEFINE r == row[o].owner
             d == row[o].database
             skips == skipDuplicateCompensation(call[o].outcome)
  <1>1. Shrinks
    BY DEF UndoCredentialStep, UndoDatabaseStep, UndoRoleStep, CatalogTypeOK, DropDatabase, DropRole,
           Shrinks
  <1>2. MarksInv' /\ OwnersMatch'
    BY <1>1, MarksFrame
  <1>3. /\ call[o].pc \in Backward /\ OwnsOwn(o) /\ call[o].outcome # "ok"
        /\ skips => {"role", "database"} \subseteq call[o].made /\ ~WorkerAlone
        /\ call[o].pc = "undoRole" /\ skips /\ faults = 0 => NoClone(o)
    BY DEF UndoCredentialStep, UndoDatabaseStep, UndoRoleStep, Known, LeavesInv, RunInv
  <1>4. OwnsOwn(o)'
    BY <1>1, <1>3, ShrinkKeeps
  <1>5. /\ call'[o].outcome = call[o].outcome /\ call'[o].made = call[o].made
        /\ UndoCredentialStep(o) => call'[o].pc = "undoDatabase"
        /\ UndoDatabaseStep(o) => call'[o].pc = "undoRole"
        /\ UndoRoleStep(o) => call'[o].pc = "done"
    BY DEF UndoCredentialStep, UndoDatabaseStep, UndoRoleStep, Goto, Answer, RequestTypeOK
  <1>6. /\ \A e \in Database : DatabaseExists(e) /\ db[e].by = o => e = d
        /\ \A q \in Role : RoleExists(q) /\ role[q].by = o => q = r
    BY DEF Known, LeavesInv, MarksInv
  <1>7. ASSUME UndoDatabaseStep(o), skips, faults' = 0 PROVE NoClone(o)'
    <2>1. PICK reply \in Reply :
             Charge(reply) /\ db' = IF Took(reply) THEN DropDatabase(d) ELSE db
      BY <1>3, <1>7 DEF UndoDatabaseStep
    <2>2. db' = DropDatabase(d)
      BY <1>7, <2>1, ChargeCounts DEF Took
    <2> QED BY <1>6, <2>2 DEF NoClone, DatabaseExists, DropDatabase, CatalogTypeOK
  <1>8. ASSUME UndoRoleStep(o), skips, Calm' PROVE Clean(o)'
    <2>1. faults' = 0 /\ NoClone(o)
      BY <1>3, <1>8 DEF Calm, Later, UndoRoleStep, WorkerAlone
    <2>2. CASE ~(RoleExists(r) /\ role[r].by = o)
      <3>1. Clean(o)
        BY <1>6, <2>1, <2>2 DEF Clean
      <3> QED BY <1>1, <3>1, ShrinkKeeps
    <2>3. CASE RoleExists(r) /\ role[r].by = o
      <3>1. RoleUnowned(r)
        BY <1>3, <2>1, <2>3 DEF RoleUnowned, OwnsOwn, NoClone
      <3>2. PICK reply \in Reply : Charge(reply) /\ role' = IF Took(reply) THEN DropRole(r) ELSE role
        BY <1>3, <1>8, <3>1 DEF UndoRoleStep
      <3>3. role' = DropRole(r) /\ db' = db
        BY <1>8, <2>1, <3>2, ChargeCounts DEF Took, UndoRoleStep
      <3> QED BY <1>6, <2>1, <3>3 DEF Clean, NoClone, DatabaseExists, RoleExists, DropRole, CatalogTypeOK
    <2> QED BY <2>2, <2>3
  <1>9. RunInv'
    <2>1. CASE UndoCredentialStep(o)
      BY <1>3, <1>4, <1>5, <2>1 DEF RunInv, OwnsOwn, WorkerAlone
    <2>2. CASE UndoDatabaseStep(o)
      BY <1>3, <1>4, <1>5, <1>7, <2>2 DEF RunInv, OwnsOwn, NoClone, WorkerAlone
    <2>3. CASE UndoRoleStep(o)
      BY <1>5, <1>8, <2>3 DEF RunInv, Clean, NoClone, DatabaseExists, RoleExists
    <2> QED BY <2>1, <2>2, <2>3
  <1>10. WholeInv' /\ CompInv'
    BY <1>3, <1>5 DEF WholeInv, CompInv
  <1> QED BY <1>2, <1>9, <1>10 DEF LeavesInv

\* CompensateDuplicate: it says failed only when role and clone are gone.
LEMMA CompensateLeaves ==
    ASSUME Known, Later, NEW o \in OpId, CompensateStep(o)
    PROVE  LeavesInv'
  <1> USE DEF DatabaseExists, RoleExists, Compensating, requestVars, storeVars
  <1> DEFINE r == row[o].owner
             d == row[o].database
  <1>1. /\ cur = o /\ cur' = o /\ cur # None /\ UNCHANGED <<status, row, asked>>
        /\ job # "run" /\ job' # "run"
    BY NoneIsNoOperation
    DEF CompensateStep, CompensateDatabase, CompensateCredential, CompensateRole
  <1>2. /\ d \in Database /\ r \in Role /\ d # row[o].source /\ d \notin DeniedDb
        /\ CatalogTypeOK /\ status[o] = "compensating"
    BY <1>1, NamesInHand DEF Known, JobTyped, CallsTyped, RequestsTypeOK, JobInv
  <1>3. /\ \A e \in Database : db[e] # None /\ db[e].by = o => e = d
        /\ \A s \in Role : role[s] # None /\ role[s].by = o => s = r
    BY <1>2 DEF Known, LeavesInv, MarksInv
  <1>4. RunInv' /\ WholeInv'
    BY <1>1 DEF RunInv, WholeInv
  <1>5. Shrinks
    BY <1>2 DEF CompensateStep, CompensateDatabase, CompensateCredential, CompensateRole,
                CatalogTypeOK, DropDatabase, DropRole, Shrinks
  <1>6. MarksInv' /\ OwnersMatch'
    BY <1>1, <1>5, MarksFrame
  <1>7. CompInv'
    <2>1. CASE CompensateDatabase(o)
      <3>1. /\ UNCHANGED role /\ job' \in {"compCredential", "giveUp"}
            /\ job' = "compCredential" => db'[d] = None
        BY <1>2, <2>1 DEF CompensateDatabase, DropDatabase, CatalogTypeOK, Took
      <3> QED BY <1>1, <1>3, <1>5, <3>1 DEF CompInv, NoClone, Shrinks
    <2>2. CASE CompensateCredential(o)
      <3>1. /\ db' = db /\ role' = role /\ job' \in {"failed", "compRole", "giveUp"}
            /\ \A e \in Database : db[e] # None => db[e].by # o
            /\ job' = "failed" => role[r] = None \/ OwnedDatabaseCount(r) > 0
        BY <1>1, <2>2 DEF CompensateCredential, Known, LeavesInv, CompInv, NoClone
      <3>2. ASSUME role[r] # None, role[r].by = o PROVE OwnedDatabaseCount(r) = 0
        <4>1. {e \in Database : db[e] # None /\ db[e].owner = r} = {}
          BY <3>1, <3>2 DEF Known, LeavesInv, OwnersMatch
        <4> QED BY <4>1, FS_EmptySet DEF OwnedDatabaseCount
      <3>3. job' = "failed" => Clean(o)
        BY <1>3, <3>1, <3>2 DEF Clean, NoClone
      <3> QED BY <1>1, <3>1, <3>3 DEF CompInv, Clean, NoClone, Shrinks
    <2>3. CASE CompensateRole(o)
      <3>1. /\ db' = db /\ job' \in {"failed", "giveUp"}
            /\ \A e \in Database : db[e] # None => db[e].by # o
            /\ job' = "failed" => role'[r] = None
        BY <1>1, <1>2, <2>3 DEF CompensateRole, Known, LeavesInv, CompInv, NoClone, CatalogTypeOK, DropRole, Took
      <3> QED BY <1>1, <1>3, <1>5, <3>1 DEF CompInv, Clean, NoClone, Shrinks
    <2> QED BY <2>1, <2>2, <2>3 DEF CompensateStep
  <1> QED BY <1>4, <1>6, <1>7 DEF LeavesInv

\* LeavesInv is inductive, given the other invariants.
LEMMA LeavesNextInv ==
    ASSUME NoCreates, Known, [Next]_vars
    PROVE  LeavesInv'
  <1> USE NextLater DEF Known, JobTyped, CallsTyped, RequestsTypeOK
  <1>1. ASSUME NEW o \in OpId, EnqueuePrepare(o) \/ EnqueueInsert(o) PROVE LeavesInv'
    BY <1>1, EnqueueLeaves
  <1>2. ASSUME NEW o \in OpId, Claim(o) \/ DuplicateReturns(o) \/ CompensationEnds(o)
        PROVE  LeavesInv'
    BY <1>2, WorkerLeaves
  <1>3. ASSUME NEW o \in OpId, DuplicateStep(o) PROVE LeavesInv'
    BY <1>3, BeginLeaves, CloneLeaves, TransferLeaves, CheckLeaves, UndoLeaves DEF DuplicateStep
  <1>4. ASSUME NEW o \in OpId, CompensateStep(o) PROVE LeavesInv'
    BY <1>4, CompensateLeaves
  <1>5. ASSUME NEW o \in OpId,
               ReconcileInterrupt(o) \/ ReconcileResume(o) \/ ReconcileResolve(o)
        PROVE  LeavesInv'
    BY <1>5, ReconcileLeaves
  <1>6. ASSUME \/ Poll \/ Boot \/ ReconcileNextPhase \/ ReconcilePrune \/ LedgerFailure
               \/ Crash \/ OtherRequest \/ Clock \/ UNCHANGED vars
        PROVE  LeavesInv'
    BY <1>6, ProcessLeaves
  <1> QED BY <1>1, <1>2, <1>3, <1>4, <1>5, <1>6 DEF Next, WorkerStep, ReconcileStep

\* At the start everything there belongs to nobody's operation.
LEMMA LeavesInit == Init => LeavesInv
  <1> SUFFICES ASSUME Init PROVE LeavesInv
    OBVIOUS
  <1> USE DEF DatabaseExists, RoleExists
  <1>1. Initial \notin OpId /\ Initial \in Maker /\ None \notin DatabaseRow \cup RoleRow
    BY JobAssumption, CatalogAssumption DEF Maker
  <1>2. \A d \in Database : db[d] # None =>
           /\ d \in DOMAIN InitOwner /\ db[d].by = Initial
           /\ db[d].owner = InitOwner[d] /\ db[d].objects = InitObjects[d]
    BY DEF Init, RequestsInit, CatalogInit
  <1>3. \A r \in Role : role[r] # None => role[r].by = Initial
    BY DEF Init, RequestsInit, CatalogInit
  <1>4. \A d \in DOMAIN InitOwner :
           /\ role[InitOwner[d]] # None /\ role[InitOwner[d]].by = Initial
           /\ \A x \in InitObjects[d] : role[x.owner] # None
    BY <1>3, InitRolesThere DEF Init, RequestsInit
  <1>5. OwnersMatch
    BY <1>2, <1>4 DEF OwnersMatch
  <1>6. MarksInv
    BY <1>1, <1>2, <1>3 DEF MarksInv, Init
  <1> QED BY <1>5, <1>6 DEF LeavesInv, RunInv, WholeInv, CompInv, Init

\* Without creates, LeavesInv holds throughout.
LEMMA LeavesInvariant == ASSUME NoCreates PROVE Spec => []Known
  <1>1. Init => LeavesInv
    BY LeavesInit
  <1>2. JobInv /\ StoreInv /\ JobTyped /\ LeavesInv /\ [Next]_vars => LeavesInv'
    BY LeavesNextInv DEF Known
  <1>3. JobInv /\ StoreInv /\ JobTyped /\ LeavesInv => Known
    BY DEF Known
  <1> QED BY <1>1, <1>2, <1>3, TypedInvariant, PTL DEF Spec

\* A failed duplicate left no database and no login behind, whichever of its
\* statements failed or was lost, wherever the ledger failed or the process
\* died, and however often: the worker skips its compensation only for errors
\* that come before the first statement took effect, and a compensation ends in
\* failed only when clone and role are gone. Provided that no create, rotation
\* or drop writes to the catalog meanwhile.
THEOREM FailedIsClean == ASSUME WorkerAlone PROVE Spec => []FailedLeavesNoAccess
  <1>1. NoCreates
    BY DEF WorkerAlone, NoCreates
  <1>2. Known => FailedLeavesNoAccess
    BY DEF Known, LeavesInv, MarksInv, Marked, Calm, FailedLeavesNoAccess, LeftBy
  <1> QED BY <1>1, <1>2, LeavesInvariant, PTL

\* Rotations and drops may run beside the worker, against its source and its
\* copies, and the process may die at any point: a failed duplicate left no
\* database and no login as long as no statement has failed. An error that
\* such a request causes (a source that is gone, a vault row that is there) and
\* that the worker does not compensate comes only when role and clone are both
\* made, so that the in-line compensation removes them, and nobody else can
\* have used the role. (With a failure it is false: the in-line compensation
\* ignores its errors.)
THEOREM FailedIsCleanBesideDrops ==
    ASSUME NoCreates PROVE Spec => [](faults = 0 => FailedLeavesNoAccess)
  <1>1. Known => (faults = 0 => FailedLeavesNoAccess)
    BY DEF Known, LeavesInv, MarksInv, Marked, Calm, FailedLeavesNoAccess, LeftBy
  <1> QED BY <1>1, LeavesInvariant, PTL

\* When the worker writes succeeded, the clone, the role and the vault row are
\* there and are the operation's own; what is in the clone belongs to the new
\* owner, but for what the transfer leaves alone, which is as in the source.
\* Under the same proviso.
THEOREM SuccessIsWhole == ASSUME WorkerAlone PROVE Spec => SucceededIsWhole
  <1> DEFINE Whole ==
        \A o \in OpId :
          status[o] = "running" /\ status'[o] = "succeeded" =>
              LET q == row[o] IN
              /\ CloneIsWhole(q, o)
              /\ role[q.owner] = [by |-> o, pw |-> o]
              /\ vault[q.owner] = o
  <1>1. ASSUME Known, Next, NEW o \in OpId, status[o] = "running", status'[o] = "succeeded"
        PROVE  job = "run" /\ cur = o /\ call[o].pc = "done" /\ call[o].outcome = "ok"
    <2>0. status \in [OpId -> Status \cup {"absent"}]
      BY <1>1 DEF Known, StoreInv, StoreTypeOK
    <2>1. ASSUME NEW p \in OpId, DuplicateReturns(p)
          PROVE  job = "run" /\ cur = o /\ call[o].pc = "done" /\ call[o].outcome = "ok"
      BY <1>1, <2>0, <2>1 DEF DuplicateReturns, Transition, At
    <2>2. ASSUME NEW p \in OpId, \/ EnqueueInsert(p) \/ Claim(p) \/ CompensationEnds(p)
                                 \/ ReconcileInterrupt(p) \/ ReconcileResolve(p)
          PROVE  FALSE
      BY <1>1, <2>0, <2>2 DEF EnqueueInsert, InsertQueued, Claim, CompensationEnds,
                              ReconcileInterrupt, ReconcileResolve, Transition, storeVars
    <2>3. ~ReconcilePrune
      BY <1>1 DEF ReconcilePrune, pruneTerminal
    <2>4. ASSUME NEW p \in OpId,
                 EnqueuePrepare(p) \/ DuplicateStep(p) \/ CompensateStep(p) \/ ReconcileResume(p)
          PROVE  FALSE
      BY <1>1, <2>4 DEF EnqueuePrepare, DuplicateStep, Running, CompensateStep, CompensateDatabase,
                        CompensateCredential, CompensateRole, Compensating, ReconcileResume, storeVars
    <2>5. ~(Poll \/ Boot \/ ReconcileNextPhase \/ LedgerFailure \/ Crash \/ OtherRequest \/ Clock)
      BY <1>1 DEF Poll, Boot, ReconcileNextPhase, LedgerFailure, Crash, OtherRequest, Clock, Tick,
                  storeVars
    <2> QED BY <1>1, <2>1, <2>2, <2>3, <2>4, <2>5 DEF Next, WorkerStep, ReconcileStep
  <1>2. ASSUME Known, Next PROVE Whole
    BY <1>1, <1>2 DEF Known, LeavesInv, WholeInv, Whole
  <1>3. Known /\ [Next]_vars => [Whole]_vars
    BY <1>2
  <1>4. NoCreates
    BY DEF WorkerAlone, NoCreates
  <1> QED BY <1>3, <1>4, LeavesInvariant, PTL DEF Spec, SucceededIsWhole
=============================================================================

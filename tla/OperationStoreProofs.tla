------------------------- MODULE OperationStoreProofs -------------------------
(***************************************************************************)
(* Machine-checked proofs about the operations ledger, for every set of     *)
(* operations and resources and every retention bound. StoreInv is the      *)
(* inductive invariant: exclusive locks alone are not inductive, because a  *)
(* transition or a prune must be known to touch the locks of its own rows   *)
(* only, and the disjointness of live claims follows from the locks only    *)
(* while every live row still holds all it claims.                          *)
(***************************************************************************)
EXTENDS OperationStore, FiniteSetTheorems, TLAPS

\* The ledger starts empty, so the invariant holds at once.
LEMMA StoreInitInv == StoreInit => StoreInv
  BY StoreAssumption
  DEF StoreInit, StoreInv, StoreTypeOK, LiveHoldsItsClaim, NoStrayLock, LocksExclusive,
      Live, Status, Terminal

\* InsertQueued takes locks nobody holds, for a row that had none.
LEMMA InsertQueuedInv ==
    ASSUME StoreInv, NEW o \in OpId, NEW locks \in SUBSET Resource, InsertQueued(o, locks)
    PROVE  StoreInv'
  <1> USE DEF StoreInv, StoreTypeOK, InsertQueued
  <1>1. StoreTypeOK'
    BY DEF Status, Live
  <1>2. LiveHoldsItsClaim'
    BY DEF LiveHoldsItsClaim
  <1>3. NoStrayLock'
    BY DEF NoStrayLock, Live
  <1>4. LocksExclusive'
    BY DEF LocksExclusive, LockFree
  <1> QED BY <1>1, <1>2, <1>3, <1>4

\* Transition keeps the locks of its row or drops them all, and it drops them
\* exactly when the row leaves the live statuses without KeepLocks.
LEMMA TransitionInv ==
    ASSUME StoreInv, NEW o \in OpId, NEW from \in Status, NEW to \in Status,
           NEW keepLocks \in BOOLEAN, Transition(o, from, to, keepLocks)
    PROVE  StoreInv'
  <1> USE DEF StoreInv, StoreTypeOK, Transition
  <1>1. held'[o] \in {{}, held[o]} /\ \A p \in OpId \ {o} : held'[p] = held[p]
    BY DEF LocksAfter
  <1>2. StoreTypeOK'
    <2>1. finishedAt' \in [OpId -> Nat]
      OBVIOUS
    <2>2. held' \in [OpId -> SUBSET Resource]
      BY DEF LocksAfter
    <2> QED BY <2>1, <2>2 DEF Status
  <1>3. LiveHoldsItsClaim'
    <2>1. to \in Live => held'[o] = held[o]
      BY DEF LocksAfter, terminalStatus, Live, Terminal
    <2>2. from \in Live
      BY DEF legalEdge, Live
    <2> QED BY <1>1, <2>1, <2>2 DEF LiveHoldsItsClaim
  <1>4. NoStrayLock'
    <2>1. held'[o] # {} => to \in Live \cup {"indeterminate"}
      BY DEF LocksAfter, terminalStatus, Status
    <2> QED BY <1>1, <2>1 DEF NoStrayLock
  <1>5. LocksExclusive'
    BY <1>1 DEF LocksExclusive
  <1> QED BY <1>2, <1>3, <1>4, <1>5

\* pruneTerminal removes whole rows, and only terminal ones.
LEMMA PruneInv ==
    ASSUME StoreInv, pruneTerminal
    PROVE  StoreInv'
  <1> USE DEF StoreInv, StoreTypeOK
  <1>1. \A o \in Pruned : o \in OpId /\ status[o] \in Terminal
    BY DEF Pruned, Expired, Overflow, TerminalRows, terminalStatus
  <1>2. StoreTypeOK'
    <2>1. status' \in [OpId -> Status \cup {"absent"}]
      BY DEF pruneTerminal
    <2>2. claim' \in [OpId -> SUBSET Resource] /\ held' \in [OpId -> SUBSET Resource]
      BY DEF pruneTerminal
    <2>3. finishedAt' \in [OpId -> Nat] /\ clock' \in Nat
      BY DEF pruneTerminal
    <2> QED BY <2>1, <2>2, <2>3
  <1>3. LiveHoldsItsClaim'
    BY DEF LiveHoldsItsClaim, pruneTerminal, Live
  <1>4. NoStrayLock'
    BY DEF NoStrayLock, pruneTerminal
  <1>5. LocksExclusive'
    BY DEF LocksExclusive, pruneTerminal
  <1> QED BY <1>2, <1>3, <1>4, <1>5

\* Every step of the store, whoever calls it, preserves the invariant.
LEMMA StoreNextInv == StoreInv /\ [StoreNext]_storeVars => StoreInv'
  <1> SUFFICES ASSUME StoreInv, [StoreNext]_storeVars PROVE StoreInv'
    OBVIOUS
  <1>1. CASE \E o \in OpId, locks \in SUBSET Resource : InsertQueued(o, locks)
    BY <1>1, InsertQueuedInv
  <1>2. CASE \E o \in OpId, from, to \in Status, keepLocks \in BOOLEAN :
                 Transition(o, from, to, keepLocks)
    BY <1>2, TransitionInv
  <1>3. CASE pruneTerminal
    BY <1>3, PruneInv
  <1>4. CASE Tick
    BY <1>4 DEF Tick, StoreInv, StoreTypeOK, LiveHoldsItsClaim, NoStrayLock, LocksExclusive
  <1>5. CASE UNCHANGED storeVars
    BY <1>5 DEF storeVars, StoreInv, StoreTypeOK, LiveHoldsItsClaim, NoStrayLock, LocksExclusive
  <1> QED BY <1>1, <1>2, <1>3, <1>4, <1>5 DEF StoreNext

\* The whole invariant holds in every reachable state of the ledger.
THEOREM StoreInvariant == StoreSpec => []StoreInv
  BY StoreInitInv, StoreNextInv, PTL DEF StoreSpec

\* Every column keeps its type.
THEOREM StoreTypeCorrect == StoreSpec => []StoreTypeOK
  <1>1. StoreInv => StoreTypeOK
    BY DEF StoreInv
  <1> QED BY <1>1, StoreInvariant, PTL

\* An unfinished operation holds the lock of everything it names.
THEOREM LiveOperationHoldsItsClaim == StoreSpec => []LiveHoldsItsClaim
  <1>1. StoreInv => LiveHoldsItsClaim
    BY DEF StoreInv
  <1> QED BY <1>1, StoreInvariant, PTL

\* No lock outlives the operation it belongs to.
THEOREM LocksAreTracked == StoreSpec => []NoStrayLock
  <1>1. StoreInv => NoStrayLock
    BY DEF StoreInv
  <1> QED BY <1>1, StoreInvariant, PTL

\* Two unfinished operations never name the same database or role.
THEOREM LiveOperationsDisjoint == StoreSpec => []LiveClaimsDisjoint
  <1>1. StoreInv => LiveClaimsDisjoint
    BY DEF StoreInv, LiveHoldsItsClaim, LocksExclusive, LiveClaimsDisjoint
  <1> QED BY <1>1, StoreInvariant, PTL

\* No step of the ledger changes a terminal outcome into another outcome.
THEOREM OutcomeNeverChanges == StoreSpec => OutcomeIsFinal
  <1> DEFINE Final == \A o \in OpId : terminalStatus(status[o]) => status'[o] \in {status[o], "absent"}
  <1>1. StoreInv /\ [StoreNext]_storeVars => [Final]_storeVars
    <2> SUFFICES ASSUME StoreInv, StoreNext PROVE Final
      BY DEF Final
    <2> USE DEF StoreInv, StoreTypeOK
    <2>1. CASE \E o \in OpId, locks \in SUBSET Resource : InsertQueued(o, locks)
      BY <2>1 DEF InsertQueued, terminalStatus, Terminal
    <2>2. CASE \E o \in OpId, from, to \in Status, keepLocks \in BOOLEAN :
                   Transition(o, from, to, keepLocks)
      BY <2>2 DEF Transition, legalEdge, terminalStatus, Terminal
    <2>3. CASE pruneTerminal
      BY <2>3 DEF pruneTerminal
    <2>4. CASE Tick
      BY <2>4 DEF Tick
    <2> QED BY <2>1, <2>2, <2>3, <2>4 DEF StoreNext
  <1> QED BY <1>1, StoreInvariant, PTL DEF StoreSpec, OutcomeIsFinal

\* Only finitely many rows are in the table, however many ids there are, so
\* that counting them means something.
FiniteRows == IsFiniteSet({o \in OpId : status[o] # "absent"})

\* InsertQueued adds one row; nothing else adds any.
LEMMA RowsStayFinite == StoreSpec => []FiniteRows
  <1> DEFINE Rows == {o \in OpId : status[o] # "absent"}
  <1>1. StoreInit => FiniteRows
    <2> SUFFICES ASSUME StoreInit PROVE FiniteRows
      OBVIOUS
    <2>1. Rows = {}
      BY DEF StoreInit
    <2> QED BY <2>1, FS_EmptySet DEF FiniteRows
  <1>2. StoreInv /\ FiniteRows /\ [StoreNext]_storeVars => FiniteRows'
    <2> SUFFICES ASSUME StoreInv, FiniteRows, [StoreNext]_storeVars PROVE IsFiniteSet(Rows')
      BY DEF FiniteRows
    <2>0. status \in [OpId -> Status \cup {"absent"}] /\ IsFiniteSet(Rows)
      BY DEF StoreInv, StoreTypeOK, FiniteRows
    <2>1. ASSUME NEW o \in OpId, NEW locks \in SUBSET Resource, InsertQueued(o, locks)
          PROVE  IsFiniteSet(Rows')
      <3>1. Rows' \subseteq Rows \cup {o}
        BY <2>0, <2>1 DEF InsertQueued
      <3>2. IsFiniteSet(Rows \cup {o})
        BY <2>0, FS_AddElement
      <3> QED BY <3>1, <3>2, FS_Subset
    <2>2. ASSUME \/ \E o \in OpId, from, to \in Status, keepLocks \in BOOLEAN :
                       Transition(o, from, to, keepLocks)
                 \/ pruneTerminal \/ Tick \/ UNCHANGED storeVars
          PROVE  IsFiniteSet(Rows')
      <3>1. Rows' \subseteq Rows
        BY <2>0, <2>2 DEF Transition, legalEdge, pruneTerminal, Tick, storeVars, Status, Live, Terminal
      <3> QED BY <2>0, <3>1, FS_Subset
    <2> QED BY <2>1, <2>2 DEF StoreNext
  <1> QED BY <1>1, <1>2, StoreInvariant, PTL DEF StoreSpec

\* A row disappears only by pruneTerminal, terminal, and past its retention or
\* with MaxTerminal other terminal rows that finished no earlier.
THEOREM PruningIsJustified == StoreSpec => PruneIsJustified
  <1> DEFINE Newer(o) == {p \in TerminalRows \ {o} : finishedAt[p] >= finishedAt[o]}
             Justified == \A o \in OpId :
               status[o] # "absent" /\ status'[o] = "absent" =>
                 /\ terminalStatus(status[o])
                 /\ \/ clock > finishedAt[o] + Retention
                    \/ Cardinality({p \in TerminalRows \ {o} : finishedAt[p] >= finishedAt[o]})
                           >= MaxTerminal
  <1>1. ASSUME StoreInv, FiniteRows, StoreNext, NEW o \in OpId,
               status[o] # "absent", status'[o] = "absent"
        PROVE  /\ terminalStatus(status[o])
               /\ clock > finishedAt[o] + Retention \/ Cardinality(Newer(o)) >= MaxTerminal
    <2>0. /\ status \in [OpId -> Status \cup {"absent"}] /\ finishedAt \in [OpId -> Nat]
          /\ clock \in Nat
      BY <1>1 DEF StoreInv, StoreTypeOK
    <2>1. pruneTerminal
      BY <1>1, <2>0 DEF StoreNext, InsertQueued, Transition, legalEdge, Tick, Status, Live, Terminal
    <2>2. o \in Pruned
      BY <1>1, <2>0, <2>1 DEF pruneTerminal
    <2>3. CASE o \in Expired
      BY <2>0, <2>3, StoreAssumption DEF Expired, TerminalRows
    <2>4. CASE o \in Overflow
      <3> DEFINE Kept == {p \in TerminalRows \ Expired : FinishedBefore(o, p)}
      <3>1. o \in TerminalRows /\ Cardinality(Kept) >= MaxTerminal
        BY <2>4 DEF Overflow
      <3>2. Kept \subseteq Newer(o)
        <4> SUFFICES ASSUME NEW p \in Kept PROVE p # o /\ finishedAt[p] >= finishedAt[o]
          OBVIOUS
        <4>1. p \in OpId /\ o \in Nat /\ p \in Nat /\ FinishedBefore(o, p)
          BY StoreAssumption DEF TerminalRows
        <4> QED BY <2>0, <4>1 DEF FinishedBefore
      <3>3. Newer(o) \subseteq {p \in OpId : status[p] # "absent"}
        BY DEF TerminalRows, terminalStatus, Terminal
      <3>4. IsFiniteSet(Newer(o))
        BY <1>1, <3>3, FS_Subset DEF FiniteRows
      <3>5. IsFiniteSet(Kept) /\ Cardinality(Kept) <= Cardinality(Newer(o))
        BY <3>2, <3>4, FS_Subset
      <3>6. Cardinality(Kept) \in Nat /\ Cardinality(Newer(o)) \in Nat
        BY <3>4, <3>5, FS_CardinalityType
      <3>7. Cardinality(Newer(o)) >= MaxTerminal
        <4> HIDE DEF Kept, Newer
        <4> QED BY <3>1, <3>5, <3>6, StoreAssumption
      <3> QED BY <3>1, <3>7 DEF TerminalRows
    <2> QED BY <2>2, <2>3, <2>4 DEF Pruned
  <1>2. StoreInv /\ FiniteRows /\ [StoreNext]_storeVars => [Justified]_storeVars
    BY <1>1
  <1> QED BY <1>2, StoreInvariant, RowsStayFinite, PTL DEF StoreSpec, PruneIsJustified
=============================================================================

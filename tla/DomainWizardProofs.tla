-------------------------- MODULE DomainWizardProofs --------------------------
(***************************************************************************)
(* Proofs about the domain wizard, for any plan of resources and any number *)
(* of deployments and waiting requests.  CoreInv is inductive over the row, *)
(* the cloud and the handler that holds the flag: the handler's copy of the *)
(* row is the row (CopyInv), the numbers of deployments are fresh (IdInv),  *)
(* and what an apply made, a disconnect deleted or a manual deployment      *)
(* never had is known (MadeInv, GoneInv).  A row that an apply could not    *)
(* read stays beside that apply until its save, and is on the list unread.  *)
(* ClosedInv and ClaimInv are the parts of the bootstrap listener and of    *)
(* the certificate helper.                                                  *)
(***************************************************************************)
EXTENDS DomainWizard, WellFoundedInduction, TLAPS

Handler == [kind : {"none", "apply", "policy", "confirm", "tls", "disconnect"},
            pc : {"idle", "create", "verify", "dns", "save", "queue", "truncate", "rewrite",
                  "close", "mark", "write", "wait", "remote", "done", "clear", "files"},
            dep : Deployment, made : SUBSET Resource]

\* The deployments are numbered as they begin.
IdInv ==
    /\ row.id <= applies /\ (row # NoRow => row.id # 0)
    /\ \A r \in Resource : cloud[r] <= applies
    /\ \A i \in unread : i <= applies

\* While a handler holds the flag nobody else writes the row.  Until an apply
\* saves, the row is not there or is one that it could not read.
CopyInv ==
    /\ op \in Handler
    /\ op.kind = "none" => op.pc = "idle"
    /\ op.kind = "apply" =>
          /\ op.pc \in {"create", "verify", "dns", "save", "queue"}
          /\ op.dep.id = applies /\ op.dep.id # 0
          /\ ~op.dep.manual /\ ~op.dep.pending /\ ~op.dep.done
          /\ op.pc = "queue" => row = op.dep
          /\ op.pc # "queue" =>
                row.id # op.dep.id /\ (row = NoRow \/ row.id \in unread)
    /\ op.kind \in {"policy", "confirm", "tls"} =>
          row = op.dep /\ row # NoRow
    /\ op.kind = "policy" => op.pc \in {"create", "save"}
    /\ op.kind = "confirm" => op.pc \in {"truncate", "rewrite", "close"}
    /\ op.kind = "tls" => op.pc \in {"verify", "mark", "write", "wait"}
    /\ op.kind = "disconnect" /\ op.pc # "files" =>
          /\ row.id = op.dep.id /\ row.id # 0 /\ row.pending /\ op.dep.pending
          /\ op.pc \in {"remote", "done"} => row = op.dep
          /\ op.pc \in {"remote", "done", "mark", "write", "wait", "clear"}

\* What an apply has made exists, and it goes on when everything is made; the
\* policies are made one application at a time.
MadeInv ==
    /\ op.kind = "apply" =>
          /\ \A r \in op.made : cloud[r] = op.dep.id
          /\ (op.pc = "create") <=> (op.made # Resource)
    /\ op.kind = "policy" =>
          /\ op.made \subseteq App
          /\ op.pc = "create" => op.made # App

\* Nothing of a manual deployment, or of one whose deletion is recorded or
\* was just seen to succeed, is at Cloudflare.
GoneInv ==
    /\ row.manual \/ row.done => \A r \in Resource : cloud[r] # row.id \/ row.id = 0
    /\ row.done => row.pending
    /\ op.kind = "disconnect" /\ op.pc \in {"done", "mark", "write", "wait", "clear"} =>
          \A r \in Resource : cloud[r] # row.id

\* The part of the types that the core needs.
CoreTyped ==
    /\ row \in Deployment
    /\ cloud \in [Resource -> 0..MaxApplies]
    /\ lost \subseteq Resource
    /\ applies \in 0..MaxApplies /\ unread \subseteq 1..MaxApplies

CoreInv == CoreTyped /\ IdInv /\ CopyInv /\ MadeInv /\ GoneInv /\ NothingForgotten /\ RowMatchesCloud

\* The files that keep the bootstrap port shut after a restart.
ClosedInv ==
    /\ promised => env \notin {"open", "missing"} \/ marker
    /\ op.kind = "confirm" /\ op.pc = "close" => env # "open"

\* A claiming helper's copy of the request is the request unless the file was
\* replaced, and it removes a file that it took for the one it read.
ClaimInv ==
    /\ held # "none" <=> hpc \in {"copy", "stat", "unlink"}
    /\ held = "own" => seen = request
    /\ hpc = "unlink" => held \in {"own", "late"}

\* A policy a handler has made is there until it takes it back.
PolicyInv ==
    /\ policies \subseteq App /\ strays \subseteq policies
    /\ op.kind = "policy" => op.made \subseteq policies

WizardInv ==
    /\ CoreInv /\ PolicyInv
    /\ admitted \in 0..MaxAdmitted /\ misreads \in 0..MaxMisreads
    /\ HelperTypeOK /\ ClaimInv
    /\ BootTypeOK /\ ClosedInv

-----------------------------------------------------------------------------
(* Facts about the operators.                                              *)

USE DEF history

\* The first resource of a set is one of it.
LEMMA FirstIn ==
    ASSUME NEW rs, rs \subseteq Resource, rs # {}
    PROVE  First(rs) \in rs
  <1> DEFINE T == {i \in DOMAIN Plan : Plan[i] \in rs}
  <1>1. DOMAIN Plan \subseteq Nat
    BY WizardAssumption
  <1>2. T \subseteq Nat /\ T # {}
    BY <1>1 DEF Resource
  <1>3. \E i \in T : \A j \in T : ~(<<j, i>> \in OpToRel(<, Nat))
    BY <1>2, NatLessThanWellFounded, WFMin
  <1>4. \E i \in T : \A j \in T : i <= j
    <2>1. \A x, y \in Nat : x < y => <<x, y>> \in OpToRel(<, Nat)
      BY DEF OpToRel
    <2>2. PICK i \in T : \A j \in T : ~(<<j, i>> \in OpToRel(<, Nat))
      BY <1>3
    <2>3. \A j \in T : i \in Nat /\ j \in Nat /\ ~(j < i)
      BY <1>2, <2>1, <2>2
    <2>4. \A j \in T : i <= j
      BY <2>3
    <2> QED BY <2>4
  <1>5. \E i \in DOMAIN Plan : Plan[i] \in rs /\ \A j \in DOMAIN Plan : Plan[j] \in rs => i <= j
    BY <1>4
  <1> QED BY <1>5 DEF First

LEMMA NoRowTyped ==
    /\ NoRow \in Deployment
    /\ NoRow.id = 0 /\ ~NoRow.manual /\ ~NoRow.pending /\ ~NoRow.done
  BY WizardAssumption DEF NoRow, Deployment

\* A deployment that begins has the next number and nothing else yet.
LEMMA BegunTyped ==
    ASSUME applies \in 0..MaxApplies, applies < MaxApplies
    PROVE  /\ Begun \in Deployment /\ Begun.id = applies + 1 /\ applies + 1 \in 0..MaxApplies
           /\ ~Begun.manual /\ ~Begun.pending /\ ~Begun.done
  <1>1. applies + 1 \in 0..MaxApplies
    BY WizardAssumption
  <1> QED BY <1>1, NoRowTyped DEF Begun, Deployment

LEMMA IdleTyped ==
    Idle \in Handler /\ Idle.kind = "none" /\ Idle.pc = "idle" /\ Idle.dep = NoRow /\ Idle.made = {}
  BY NoRowTyped DEF Idle, Handler

LEMMA GotoFields ==
    ASSUME op \in Handler, NEW pc, Goto(pc),
           pc \in {"verify", "dns", "save", "queue", "rewrite", "close", "mark", "write", "wait",
                  "done", "clear", "files"}
    PROVE  /\ op' \in Handler
           /\ op'.pc = pc /\ op'.kind = op.kind /\ op'.dep = op.dep /\ op'.made = op.made
  BY DEF Goto, Handler

LEMMA HoldFields ==
    ASSUME NEW kind \in {"apply", "policy", "confirm", "tls", "disconnect"},
           NEW pc \in {"create", "truncate", "verify", "mark", "done", "remote"},
           NEW dep \in Deployment, Hold(kind, pc, dep)
    PROVE  /\ op' \in Handler
           /\ op'.pc = pc /\ op'.kind = kind /\ op'.dep = dep /\ op'.made = {}
  BY DEF Hold, Handler

-----------------------------------------------------------------------------
(* The row, the cloud and the handler.                                     *)

core == <<row, cloud, op, applies, unread, lost>>

LEMMA CoreSame == CoreInv /\ UNCHANGED core => CoreInv'
  BY DEF CoreInv, core, CoreTyped, IdInv, CopyInv, MadeInv, GoneInv, NothingForgotten, RowMatchesCloud

\* A handler lets go of the flag and the cloud is what the row says.
LEMMA LeaveCore ==
    ASSUME CoreInv, Leave, UNCHANGED <<row, cloud, applies, unread, lost>>,
           op.kind = "apply" => op.pc = "queue"
    PROVE  CoreInv'
  <1> USE DEF CoreInv
  <1>1. op' \in Handler /\ op'.kind = "none" /\ op'.pc = "idle"
    BY IdleTyped DEF Leave
  <1>2. CoreTyped' /\ IdInv'
    BY DEF CoreTyped, IdInv
  <1>3. CopyInv' /\ MadeInv'
    BY <1>1 DEF CopyInv, MadeInv
  <1>4. GoneInv' /\ RowMatchesCloud'
    BY <1>1 DEF GoneInv, RowMatchesCloud
  <1>5. NothingForgotten'
    BY <1>1 DEF NothingForgotten, MadeInv, CopyInv
  <1> QED BY <1>2, <1>3, <1>4, <1>5

\* A handler goes on and touches neither the row nor the cloud.
LEMMA GotoCore ==
    ASSUME CoreInv, UNCHANGED <<row, cloud, applies, unread, lost>>,
           NEW pc \in {"verify", "dns", "save", "rewrite", "close", "mark", "write", "wait", "clear"},
           Goto(pc),
           \/ op.kind = "apply" /\ op.pc \in {"verify", "dns"} /\ pc \in {"dns", "save"}
           \/ op.kind = "confirm" /\ pc \in {"rewrite", "close"}
           \/ op.kind = "tls" /\ pc \in {"mark", "write", "wait"}
           \/ /\ op.kind = "disconnect" /\ op.pc \in {"mark", "write", "wait"}
              /\ pc \in {"write", "wait", "clear"}
    PROVE  CoreInv'
  <1> USE DEF CoreInv
  <1>1. /\ op' \in Handler
        /\ op'.pc = pc /\ op'.kind = op.kind /\ op'.dep = op.dep /\ op'.made = op.made
    BY GotoFields DEF CopyInv
  <1>2. CoreTyped' /\ IdInv'
    BY DEF CoreTyped, IdInv
  <1>3. CopyInv'
    BY <1>1 DEF CopyInv
  <1>4. MadeInv'
    BY <1>1 DEF MadeInv
  <1>5. GoneInv' /\ RowMatchesCloud'
    BY <1>1 DEF GoneInv, RowMatchesCloud
  <1>6. NothingForgotten'
    BY <1>1 DEF NothingForgotten
  <1> QED BY <1>2, <1>3, <1>4, <1>5, <1>6

\* The handler saves its copy with one field changed and lets go.
LEMMA SaveCore ==
    ASSUME CoreInv, op.kind \in {"policy", "tls"}, Leave, UNCHANGED <<cloud, applies, unread, lost>>,
           row' \in Deployment, row'.id = op.dep.id, row'.manual = op.dep.manual,
           row'.pending = op.dep.pending, row'.done = op.dep.done
    PROVE  CoreInv'
  <1> USE DEF CoreInv
  <1>1. op' \in Handler /\ op'.kind = "none" /\ op'.pc = "idle"
    BY IdleTyped DEF Leave
  <1>2. row = op.dep /\ row # NoRow
    BY DEF CopyInv
  <1>3. CoreTyped' /\ IdInv'
    BY <1>2 DEF CoreTyped, IdInv
  <1>4. CopyInv' /\ MadeInv'
    BY <1>1 DEF CopyInv, MadeInv
  <1>5. GoneInv'
    BY <1>1, <1>2 DEF GoneInv
  <1>6. RowMatchesCloud'
    BY <1>2 DEF RowMatchesCloud
  <1>7. NothingForgotten'
    BY <1>1, <1>2 DEF NothingForgotten
  <1> QED BY <1>3, <1>4, <1>5, <1>6, <1>7

\* A handler takes the flag with a copy of the row.
LEMMA HoldCore ==
    ASSUME CoreInv, op = Idle, UNCHANGED <<row, cloud, applies, unread, lost>>, row # NoRow,
           NEW kind \in {"policy", "confirm", "tls"}, NEW pc \in {"create", "truncate", "verify"},
           kind = "policy" <=> pc = "create", kind = "confirm" <=> pc = "truncate",
           Hold(kind, pc, row)
    PROVE  CoreInv'
  <1> USE DEF CoreInv
  <1>1. /\ op' \in Handler
        /\ op'.pc = pc /\ op'.kind = kind /\ op'.dep = row /\ op'.made = {}
    BY HoldFields DEF CoreTyped
  <1>2. op.kind = "none"
    BY IdleTyped
  <1>3. CoreTyped' /\ IdInv'
    BY DEF CoreTyped, IdInv
  <1>4. CopyInv' /\ MadeInv'
    BY <1>1, WizardAssumption DEF CopyInv, MadeInv
  <1>5. GoneInv' /\ RowMatchesCloud'
    BY <1>1 DEF GoneInv, RowMatchesCloud
  <1>6. NothingForgotten'
    BY <1>1, <1>2 DEF NothingForgotten
  <1> QED BY <1>3, <1>4, <1>5, <1>6

\* The row that an apply cannot read is an earlier deployment's.
LEMMA UnreadFresh ==
    ASSUME CoreTyped, IdInv, applies < MaxApplies,
           IF row = NoRow THEN unread' = unread ELSE unread' = unread \cup {row.id}
    PROVE  /\ unread' \subseteq 1..MaxApplies /\ \A i \in unread' : i <= applies
           /\ row.id < applies + 1
           /\ row = NoRow \/ row.id \in unread'
  <1>1. row.id \in 0..MaxApplies /\ applies \in 0..MaxApplies /\ row.id <= applies
    BY DEF CoreTyped, Deployment, IdInv
  <1>2. row # NoRow => row.id \in 1..MaxApplies
    BY <1>1, WizardAssumption DEF IdInv
  <1>3. row.id < applies + 1
    BY <1>1, WizardAssumption
  <1>4. CASE row = NoRow
    BY <1>3, <1>4 DEF CoreTyped, IdInv
  <1>5. CASE row # NoRow
    <2>1. unread' = unread \cup {row.id}
      BY <1>5
    <2> QED BY <1>1, <1>2, <1>3, <1>5, <2>1 DEF CoreTyped, IdInv
  <1> QED BY <1>4, <1>5

\* A manual deployment: its number is on no resource.
LEMMA ManualCore ==
    ASSUME CoreInv, handleDomainManualApplyBody \/ handleDomainManualConfirmAccess
    PROVE  CoreInv'
  <1> USE WizardAssumption DEF CoreInv
  <1>1. CASE handleDomainManualApplyBody
    <2>1. /\ op = Idle /\ applies' = applies + 1 /\ applies < MaxApplies
          /\ UNCHANGED <<op, cloud, lost>>
          /\ IF row = NoRow THEN unread' = unread ELSE unread' = unread \cup {row.id}
      BY <1>1 DEF handleDomainManualApplyBody, Enter, cloudVars, NotConfigured
    <2>2. op.kind = "none" /\ op \in Handler /\ op.pc = "idle"
      BY <2>1, IdleTyped
    <2>3. /\ row' \in Deployment /\ row'.id = applies + 1
          /\ row'.manual /\ ~row'.pending /\ ~row'.done
      <3>1. Begun \in Deployment /\ Begun.id = applies + 1 /\ ~Begun.pending /\ ~Begun.done
        BY <2>1, BegunTyped DEF CoreTyped
      <3>2. row' = [Begun EXCEPT !.manual = TRUE]
        BY <1>1 DEF handleDomainManualApplyBody
      <3> HIDE DEF Begun
      <3> QED BY <3>1, <3>2 DEF Deployment
    <2>4. CoreTyped' /\ IdInv'
      BY <2>1, <2>3, UnreadFresh DEF CoreTyped, IdInv
    <2>5. CopyInv' /\ MadeInv'
      BY <2>1, <2>2 DEF CopyInv, MadeInv
    <2>6. \A r \in Resource : cloud'[r] # row'.id
      BY <2>1, <2>3 DEF IdInv, CoreTyped
    <2>7. GoneInv' /\ RowMatchesCloud'
      BY <2>1, <2>2, <2>3, <2>6 DEF GoneInv, RowMatchesCloud
    <2>8. NothingForgotten'
      BY <2>1, <2>2, NoRowTyped DEF NothingForgotten
    <2> QED BY <2>4, <2>5, <2>7, <2>8
  <1>2. CASE handleDomainManualConfirmAccess
    <2>1. /\ op = Idle /\ row # NoRow /\ row.manual
          /\ row' = [row EXCEPT !.allow = TRUE]
          /\ UNCHANGED <<op, cloud, lost, applies, unread>>
      BY <1>2 DEF handleDomainManualConfirmAccess, Enter, cloudVars
    <2>2. op.kind = "none" /\ op \in Handler /\ op.pc = "idle"
      BY <2>1, IdleTyped
    <2>3. /\ row' \in Deployment /\ row'.id = row.id /\ row'.manual = row.manual
          /\ row'.pending = row.pending /\ row'.done = row.done
      BY <2>1 DEF Deployment, CoreTyped
    <2>4. CoreTyped' /\ IdInv'
      BY <2>1, <2>3 DEF CoreTyped, IdInv
    <2>5. CopyInv' /\ MadeInv'
      BY <2>1, <2>2 DEF CopyInv, MadeInv
    <2>6. GoneInv' /\ RowMatchesCloud'
      BY <2>1, <2>2, <2>3 DEF GoneInv, RowMatchesCloud
    <2>7. NothingForgotten'
      BY <2>1, <2>2, <2>3 DEF NothingForgotten
    <2> QED BY <2>4, <2>5, <2>6, <2>7
  <1> QED BY <1>1, <1>2

\* An apply begins with a new number and makes its resources one by one.
LEMMA ApplyCore ==
    ASSUME CoreInv, handleDomainApply
    PROVE  CoreInv'
  <1> USE WizardAssumption DEF CoreInv
  <1>1. /\ op = Idle /\ applies' = applies + 1 /\ applies < MaxApplies
        /\ Hold("apply", "create", Begun)
        /\ UNCHANGED <<row, cloud, lost>>
        /\ IF row = NoRow THEN unread' = unread ELSE unread' = unread \cup {row.id}
    BY DEF handleDomainApply, Enter, cloudVars, NotConfigured
  <1>2. /\ Begun \in Deployment /\ Begun.id = applies + 1
        /\ ~Begun.manual /\ ~Begun.pending /\ ~Begun.done
    BY <1>1, BegunTyped DEF CoreTyped
  <1>3. /\ op' \in Handler
        /\ op'.pc = "create" /\ op'.kind = "apply" /\ op'.dep = Begun /\ op'.made = {}
    BY <1>1, <1>2, HoldFields
  <1>4. op.kind = "none"
    BY <1>1, IdleTyped
  <1>5. CoreTyped' /\ IdInv'
    <2>1. \A r \in Resource : cloud[r] <= applies + 1
      BY DEF CoreTyped, IdInv
    <2>2. /\ unread' \subseteq 1..MaxApplies /\ \A i \in unread' : i <= applies
          /\ row.id < applies + 1
      BY <1>1, UnreadFresh
    <2>3. applies \in 0..MaxApplies /\ row.id \in 0..MaxApplies
      BY DEF CoreTyped, Deployment
    <2>4. \A i \in unread' : i <= applies + 1
      <3>1. \A i \in 1..MaxApplies : i <= applies => i <= applies + 1
        BY <2>3
      <3> QED BY <2>2, <3>1
    <2>5. row.id <= applies + 1
      BY <2>2, <2>3
    <2>6. CoreTyped'
      BY <1>1, <2>2, <2>3 DEF CoreTyped
    <2> QED BY <1>1, <2>1, <2>4, <2>5, <2>6 DEF IdInv
  <1>6. CopyInv'
    <2>1. row.id # applies + 1 /\ (row = NoRow \/ row.id \in unread')
      BY <1>1, UnreadFresh DEF CoreTyped, IdInv
    <2> QED BY <1>1, <1>2, <1>3, <2>1 DEF CopyInv, CoreTyped
  <1>7. MadeInv'
    BY <1>3 DEF MadeInv
  <1>8. GoneInv' /\ RowMatchesCloud'
    BY <1>1, <1>3, UnreadFresh DEF GoneInv, RowMatchesCloud
  <1>9. NothingForgotten'
    BY <1>1, <1>3, <1>4 DEF NothingForgotten
  <1> QED BY <1>5, <1>6, <1>7, <1>8, <1>9

LEMMA CreateCore ==
    ASSUME CoreInv, Create
    PROVE  CoreInv'
  <1> USE WizardAssumption DEF CoreInv
  <1> DEFINE r == NextResource
             made == op.made \cup {r}
             pc == IF made = Resource THEN "verify" ELSE "create"
  <1>1. /\ op.kind = "apply" /\ op.pc = "create"
        /\ cloud' = [cloud EXCEPT ![r] = op.dep.id]
        /\ lost' = lost \ {r}
        /\ op' = [op EXCEPT !.made = made, !.pc = pc]
        /\ UNCHANGED <<row, applies, unread>>
    BY DEF Create, At
  <1>2. op \in Handler /\ op.made \subseteq Resource /\ op.made # Resource
    BY <1>1 DEF CopyInv, MadeInv, Handler
  <1>3. r \in Resource \ op.made
    <2>1. Resource \ op.made \subseteq Resource /\ Resource \ op.made # {}
      BY <1>2
    <2> QED BY <2>1, FirstIn DEF NextResource
  <1> HIDE DEF r
  <1>4. /\ op' \in Handler /\ op'.kind = "apply" /\ op'.dep = op.dep
        /\ op'.made = made /\ op'.pc = pc
    BY <1>1, <1>2, <1>3 DEF Handler
  <1>5. /\ op.dep.id = applies /\ op.dep.id # 0
        /\ row.id # op.dep.id /\ (row = NoRow \/ row.id \in unread)
    BY <1>1 DEF CopyInv
  <1>6. cloud'[r] = op.dep.id /\ \A q \in Resource \ {r} : cloud'[q] = cloud[q]
    BY <1>1, <1>3 DEF CoreTyped
  <1>7. CoreTyped'
    BY <1>1, <1>3, <1>5 DEF CoreTyped
  <1>8. IdInv'
    BY <1>1, <1>5, <1>6 DEF IdInv, CoreTyped
  <1>9. CopyInv'
    BY <1>1, <1>4, <1>5 DEF CopyInv
  <1>10. MadeInv'
    BY <1>1, <1>2, <1>3, <1>4, <1>6 DEF MadeInv
  <1>11. GoneInv' /\ RowMatchesCloud'
    BY <1>1, <1>4, <1>5, <1>6 DEF GoneInv, RowMatchesCloud
  <1>12. NothingForgotten'
    BY <1>1, <1>4, <1>6 DEF NothingForgotten
  <1> QED BY <1>7, <1>8, <1>9, <1>10, <1>11, <1>12

\* Compensation forgets nothing that survives it.
LEMMA CompensateCore ==
    ASSUME CoreInv, op.kind = "apply", op.pc # "queue", Leave, UNCHANGED <<row, applies, unread>>,
           NEW now \in [Resource -> 0..MaxApplies], NEW gone, gone \subseteq Resource,
           \A r \in Resource :
              /\ now[r] \in {0, op.dep.id, cloud[r]}
              /\ now[r] # 0 => \/ r \in op.made \cup gone
                               \/ now[r] = row.id \/ now[r] \in unread,
           Compensate(now, gone)
    PROVE  CoreInv'
  <1> USE WizardAssumption DEF CoreInv
  <1>1. op' \in Handler /\ op'.kind = "none" /\ op'.pc = "idle"
    BY IdleTyped DEF Leave
  <1>2. op.dep.id = applies /\ row.id # op.dep.id /\ (row = NoRow \/ row.id \in unread)
    BY DEF CopyInv
  <1>3. PICK kept \in SUBSET op.made :
            /\ cloud' = [r \in Resource |-> IF r \in op.made \ kept THEN 0 ELSE now[r]]
            /\ lost' = (gone \cup kept) \ (op.made \ kept)
    BY DEF Compensate
  <1>4. op.made \subseteq Resource
    BY DEF CopyInv, Handler
  <1>5. CoreTyped'
    BY <1>3, <1>4 DEF CoreTyped
  <1>6. IdInv'
    <2>1. applies \in 0..MaxApplies /\ cloud \in [Resource -> 0..MaxApplies]
      BY DEF CoreTyped
    <2>2. \A r \in Resource : cloud'[r] \in {0, applies, cloud[r]}
      BY <1>2, <1>3
    <2>3. 0 <= applies /\ applies <= applies
      BY <2>1
    <2>4. \A r \in Resource : cloud'[r] <= applies
      <3>1. \A r \in Resource : cloud[r] <= applies
        BY DEF IdInv
      <3> QED BY <2>2, <2>3, <3>1
    <2> QED BY <2>4 DEF IdInv
  <1>7. CopyInv' /\ MadeInv'
    BY <1>1 DEF CopyInv, MadeInv
  <1>8. GoneInv' /\ RowMatchesCloud'
    <2>1. \A r \in Resource : cloud'[r] \in {0, op.dep.id, cloud[r]}
      BY <1>3
    <2> QED BY <1>1, <1>2, <2>1 DEF GoneInv, RowMatchesCloud
  <1>9. NothingForgotten'
    BY <1>3 DEF NothingForgotten
  <1> QED BY <1>5, <1>6, <1>7, <1>8, <1>9

LEMMA ApplyFailsCore ==
    ASSUME CoreInv, CreateFails \/ ApplyFails
    PROVE  CoreInv'
  <1> USE DEF CoreInv
  <1>1. op.kind = "apply" /\ op.pc # "queue" /\ Leave /\ UNCHANGED <<row, applies, unread>>
    BY DEF CreateFails, ApplyFails, At
  <1>2. op.dep.id = applies /\ applies \in 0..MaxApplies
    BY <1>1 DEF CopyInv, CoreTyped
  <1>3. \A r \in Resource : cloud[r] # 0 => \/ r \in op.made \cup lost
                                          \/ cloud[r] = row.id \/ cloud[r] \in unread
    BY DEF NothingForgotten
  <1>4. CASE ApplyFails
    <2>1. Compensate(cloud, lost)
      BY <1>4 DEF ApplyFails
    <2>2. cloud \in [Resource -> 0..MaxApplies] /\ lost \subseteq Resource
      BY DEF CoreTyped
    <2> QED BY <1>1, <1>3, <2>1, <2>2, CompensateCore
  <1>5. CASE CreateFails
    <2> DEFINE r == NextResource
    <2>1. PICK left \in AfterFailure(r) : Compensate(left.cloud, left.lost)
      BY <1>5 DEF CreateFails
    <2>2. r \in Resource
      <3>1. op.made \subseteq Resource /\ op.made # Resource
        BY <1>1, <1>5 DEF CreateFails, At, CopyInv, MadeInv, Handler
      <3>2. Resource \ op.made \subseteq Resource /\ Resource \ op.made # {}
        BY <3>1
      <3> QED BY <3>2, FirstIn DEF NextResource
    <2> HIDE DEF r
    <2>3. /\ left.cloud \in [Resource -> 0..MaxApplies] /\ left.lost \subseteq Resource
          /\ \A q \in Resource :
                /\ left.cloud[q] \in {0, op.dep.id, cloud[q]}
                /\ left.cloud[q] # 0 => \/ q \in op.made \cup left.lost
                                        \/ left.cloud[q] = row.id \/ left.cloud[q] \in unread
      <3>1. CASE left = [cloud |-> cloud, lost |-> lost]
        BY <1>3, <3>1 DEF CoreTyped
      <3>2. CASE left = [cloud |-> [cloud EXCEPT ![r] = 0], lost |-> lost \ {r}]
        <4>1. left.cloud = [cloud EXCEPT ![r] = 0] /\ left.lost = lost \ {r}
          BY <3>2
        <4>2. \A q \in Resource : left.cloud[q] = IF q = r THEN 0 ELSE cloud[q]
          BY <4>1 DEF CoreTyped
        <4>3. left.cloud \in [Resource -> 0..MaxApplies] /\ left.lost \subseteq Resource
          <5>1. 0 \in 0..MaxApplies
            BY WizardAssumption
          <5>2. cloud \in [Resource -> 0..MaxApplies] /\ lost \subseteq Resource
            BY DEF CoreTyped
          <5> QED BY <4>1, <5>1, <5>2
        <4> QED BY <1>2, <1>3, <2>2, <4>1, <4>2, <4>3
      <3>3. CASE left = [cloud |-> [cloud EXCEPT ![r] = op.dep.id], lost |-> lost \cup {r}]
        <4>1. left.cloud = [cloud EXCEPT ![r] = applies] /\ left.lost = lost \cup {r}
          BY <1>2, <3>3
        <4>2. \A q \in Resource : left.cloud[q] = IF q = r THEN applies ELSE cloud[q]
          BY <4>1 DEF CoreTyped
        <4> QED BY <1>2, <1>3, <2>2, <4>1, <4>2 DEF CoreTyped
      <3> QED BY <2>1, <3>1, <3>2, <3>3 DEF AfterFailure
    <2> QED BY <1>1, <2>1, <2>3, CompensateCore
  <1> QED BY <1>4, <1>5

\* The row is saved when everything exists.
LEMMA SaveDeploymentCore ==
    ASSUME CoreInv, SaveDeployment
    PROVE  CoreInv'
  <1> USE DEF CoreInv
  <1>1. /\ op.kind = "apply" /\ op.pc = "save" /\ row' = op.dep /\ Goto("queue")
        /\ UNCHANGED <<cloud, applies, unread, lost>>
    BY DEF SaveDeployment, At, cloudVars
  <1>2. /\ op' \in Handler
        /\ op'.pc = "queue" /\ op'.kind = op.kind /\ op'.dep = op.dep /\ op'.made = op.made
    BY <1>1, GotoFields DEF CopyInv
  <1>3. /\ op.dep \in Deployment /\ op.dep.id = applies /\ op.dep.id # 0
        /\ ~op.dep.manual /\ ~op.dep.pending /\ ~op.dep.done
    BY <1>1 DEF CopyInv, Handler
  <1>4. op.made = Resource /\ \A r \in Resource : cloud[r] = op.dep.id
    BY <1>1 DEF MadeInv
  <1>5. CoreTyped' /\ IdInv'
    BY <1>1, <1>3 DEF CoreTyped, IdInv
  <1>6. CopyInv' /\ MadeInv'
    BY <1>1, <1>2, <1>3, <1>4 DEF CopyInv, MadeInv
  <1>7. GoneInv' /\ RowMatchesCloud' /\ NothingForgotten'
    BY <1>1, <1>2, <1>3, <1>4 DEF GoneInv, RowMatchesCloud, NothingForgotten
  <1> QED BY <1>5, <1>6, <1>7

LEMMA PolicyCore ==
    ASSUME CoreInv, CreateAccessPolicy
    PROVE  CoreInv'
  <1> USE DEF CoreInv
  <1> DEFINE made == op.made \cup {NextApp}
             pc == IF made = App THEN "save" ELSE "create"
  <1>1. /\ op.kind = "policy" /\ op.pc = "create"
        /\ op' = [op EXCEPT !.made = made, !.pc = pc]
        /\ UNCHANGED <<row, cloud, applies, unread, lost>>
    BY DEF CreateAccessPolicy, At
  <1>2. op \in Handler /\ op.made \subseteq App /\ op.made # App
    BY <1>1 DEF CopyInv, MadeInv
  <1>3. NextApp \in App /\ App \subseteq Resource
    <2>1. App \ op.made \subseteq Resource /\ App \ op.made # {}
      BY <1>2, WizardAssumption
    <2> QED BY <2>1, FirstIn, WizardAssumption DEF NextApp
  <1>4. /\ op' \in Handler /\ op'.kind = "policy" /\ op'.dep = op.dep
        /\ op'.made = made /\ op'.pc = pc
    BY <1>1, <1>2, <1>3 DEF Handler
  <1>5. CoreTyped' /\ IdInv'
    BY <1>1 DEF CoreTyped, IdInv
  <1>6. CopyInv'
    BY <1>1, <1>4 DEF CopyInv
  <1>7. MadeInv'
    BY <1>2, <1>3, <1>4 DEF MadeInv
  <1>8. GoneInv' /\ RowMatchesCloud' /\ NothingForgotten'
    BY <1>1, <1>4 DEF GoneInv, RowMatchesCloud, NothingForgotten
  <1> QED BY <1>5, <1>6, <1>7, <1>8

\* Disconnect: the intention, the deletions, their record, and the end of the
\* row, which nothing at Cloudflare belongs to by then.
LEMMA DisconnectCore ==
    ASSUME CoreInv, handleDomainDisconnect \/ DeleteRemote \/ RemoteDone \/ ClearDeployment
    PROVE  CoreInv'
  <1> USE WizardAssumption DEF CoreInv
  <1>1. CASE handleDomainDisconnect
    <2> DEFINE pc == IF row.done THEN "mark" ELSE IF row.manual THEN "done" ELSE "remote"
    <2>1. /\ op = Idle /\ row # NoRow /\ row' = [row EXCEPT !.pending = TRUE]
          /\ Hold("disconnect", pc, row')
          /\ UNCHANGED <<cloud, applies, unread, lost>>
      BY <1>1 DEF handleDomainDisconnect, cloudVars
    <2>2. /\ row' \in Deployment /\ row'.id = row.id /\ row'.pending
          /\ row'.done = row.done /\ row'.manual = row.manual
      BY <2>1 DEF CoreTyped, Deployment
    <2>3. /\ op' \in Handler
          /\ op'.pc = pc /\ op'.kind = "disconnect" /\ op'.dep = row' /\ op'.made = {}
      BY <2>1, <2>2, HoldFields
    <2>4. op.kind = "none" /\ row.id # 0
      BY <2>1, IdleTyped DEF IdInv
    <2>5. CoreTyped' /\ IdInv'
      BY <2>1, <2>2, <2>4 DEF CoreTyped, IdInv
    <2>6. CopyInv' /\ MadeInv'
      BY <2>2, <2>3, <2>4 DEF CopyInv, MadeInv
    <2>7. GoneInv' /\ RowMatchesCloud'
      BY <2>1, <2>2, <2>3, <2>4 DEF GoneInv, RowMatchesCloud
    <2>8. NothingForgotten'
      BY <2>1, <2>2, <2>4 DEF NothingForgotten
    <2> QED BY <2>5, <2>6, <2>7, <2>8
  <1>2. CASE DeleteRemote
    <2>1. PICK kept \in SUBSET OfDeployment(Resource), failed \in BOOLEAN :
             /\ RemoteOutcome(kept, failed)
             /\ cloud' = [r \in Resource |->
                             IF r \in OfDeployment(Resource) \ kept THEN 0 ELSE cloud[r]]
             /\ IF failed THEN Leave ELSE Goto("done")
      BY <1>2 DEF DeleteRemote
    <2>2. /\ op.kind = "disconnect" /\ op.pc = "remote"
          /\ UNCHANGED <<row, applies, unread, lost>>
      BY <1>2 DEF DeleteRemote, At
    <2>3. /\ row = op.dep /\ row.id # 0 /\ row.pending /\ op \in Handler
      BY <2>2 DEF CopyInv
    <2>4. \A r \in Resource : cloud'[r] = 0 \/ cloud'[r] = cloud[r]
      BY <2>1
    <2>5. CoreTyped' /\ IdInv'
      BY <2>1, <2>2, <2>4 DEF CoreTyped, IdInv
    <2>6. RowMatchesCloud'
      BY <2>2, <2>3 DEF RowMatchesCloud
    <2>7. \A r \in Resource : cloud[r] # row.id => cloud'[r] # row.id
      BY <2>3, <2>4
    <2>8. CASE failed
      <3>1. op' \in Handler /\ op'.kind = "none" /\ op'.pc = "idle"
        BY <2>1, <2>8, IdleTyped DEF Leave
      <3>2. CopyInv' /\ MadeInv'
        BY <3>1 DEF CopyInv, MadeInv
      <3>3. GoneInv'
        BY <2>2, <2>7, <3>1 DEF GoneInv
      <3>4. NothingForgotten'
        BY <2>2, <2>4 DEF NothingForgotten
      <3> QED BY <2>5, <2>6, <3>2, <3>3, <3>4
    <2>9. CASE ~failed
      <3>1. /\ op' \in Handler
            /\ op'.pc = "done" /\ op'.kind = op.kind /\ op'.dep = op.dep /\ op'.made = op.made
        BY <2>1, <2>3, <2>9, GotoFields
      <3>2. kept = {}
        BY <2>1, <2>9 DEF RemoteOutcome
      <3>3. \A r \in Resource : cloud'[r] # row.id
        BY <2>1, <2>3, <3>2 DEF OfDeployment
      <3>4. CopyInv' /\ MadeInv'
        BY <2>2, <2>3, <3>1 DEF CopyInv, MadeInv
      <3>5. GoneInv'
        BY <2>2, <3>3 DEF GoneInv
      <3>6. NothingForgotten'
        BY <2>2, <2>4 DEF NothingForgotten
      <3> QED BY <2>5, <2>6, <3>4, <3>5, <3>6
    <2> QED BY <2>8, <2>9
  <1>3. CASE RemoteDone
    <2>1. /\ op.kind = "disconnect" /\ op.pc = "done"
          /\ row' = [op.dep EXCEPT !.done = TRUE] /\ Goto("mark")
          /\ UNCHANGED <<cloud, applies, unread, lost>>
      BY <1>3 DEF RemoteDone, At, cloudVars
    <2>2. row = op.dep /\ row.id # 0 /\ row.pending /\ op \in Handler
      BY <2>1 DEF CopyInv
    <2>3. /\ op' \in Handler
          /\ op'.pc = "mark" /\ op'.kind = op.kind /\ op'.dep = op.dep /\ op'.made = op.made
      BY <2>1, <2>2, GotoFields
    <2>4. /\ row' \in Deployment /\ row'.id = row.id /\ row'.pending
      BY <2>1, <2>2 DEF CoreTyped, Deployment
    <2>5. \A r \in Resource : cloud[r] # row.id
      BY <2>1 DEF GoneInv
    <2>6. CoreTyped' /\ IdInv'
      BY <2>1, <2>2, <2>4 DEF CoreTyped, IdInv
    <2>7. CopyInv' /\ MadeInv'
      BY <2>1, <2>2, <2>3, <2>4 DEF CopyInv, MadeInv
    <2>8. GoneInv' /\ RowMatchesCloud'
      BY <2>1, <2>4, <2>5 DEF GoneInv, RowMatchesCloud
    <2>9. NothingForgotten'
      BY <2>1, <2>4, <2>5 DEF NothingForgotten
    <2> QED BY <2>6, <2>7, <2>8, <2>9
  <1>4. CASE ClearDeployment
    <2>1. /\ op.kind = "disconnect" /\ op.pc = "clear" /\ row' = NoRow /\ Goto("files")
          /\ UNCHANGED <<cloud, applies, unread, lost>>
      BY <1>4 DEF ClearDeployment, At, cloudVars
    <2>2. op \in Handler /\ \A r \in Resource : cloud[r] # row.id
      BY <2>1 DEF CopyInv, GoneInv
    <2>3. /\ op' \in Handler
          /\ op'.pc = "files" /\ op'.kind = op.kind /\ op'.dep = op.dep /\ op'.made = op.made
      BY <2>1, <2>2, GotoFields
    <2>4. CoreTyped' /\ IdInv'
      BY <2>1, NoRowTyped DEF CoreTyped, IdInv
    <2>5. CopyInv' /\ MadeInv'
      BY <2>1, <2>3 DEF CopyInv, MadeInv
    <2>6. GoneInv' /\ RowMatchesCloud'
      BY <2>1, <2>3, NoRowTyped DEF GoneInv, RowMatchesCloud
    <2>7. NothingForgotten'
      BY <2>1, <2>2 DEF NothingForgotten
    <2> QED BY <2>4, <2>5, <2>6, <2>7
  <1> QED BY <1>1, <1>2, <1>3, <1>4

\* The process dies: what an apply had made and not recorded is left.
LEMMA CrashCore ==
    ASSUME CoreInv, Crash
    PROVE  CoreInv'
  <1> USE DEF CoreInv
  <1>1. /\ Leave /\ UNCHANGED <<row, cloud, applies, unread>>
        /\ lost' = IF op.kind = "apply" /\ op.pc # "queue" THEN lost \cup op.made ELSE lost
    BY DEF Crash
  <1>2. op' \in Handler /\ op'.kind = "none" /\ op'.pc = "idle"
    BY <1>1, IdleTyped DEF Leave
  <1>3. op.made \subseteq Resource
    BY DEF CopyInv, Handler
  <1>4. CoreTyped' /\ IdInv'
    BY <1>1, <1>3 DEF CoreTyped, IdInv
  <1>5. CopyInv' /\ MadeInv'
    BY <1>2 DEF CopyInv, MadeInv
  <1>6. GoneInv' /\ RowMatchesCloud'
    BY <1>1, <1>2 DEF GoneInv, RowMatchesCloud
  <1>7. NothingForgotten'
    BY <1>1 DEF NothingForgotten, MadeInv, CopyInv
  <1> QED BY <1>4, <1>5, <1>6, <1>7

\* Every action preserves the core.
LEMMA CoreStep ==
    ASSUME CoreInv, HelperTypeOK, [WizardNext]_domainVars
    PROVE  CoreInv'
  <1> USE DEF cloudVars
  <1>1. CASE UNCHANGED core
    BY <1>1, CoreSame
  <1>2. CASE serializeDomainMutation \/ TurnedAway \/ handleDomainTokenSet
    BY <1>1, <1>2 DEF serializeDomainMutation, TurnedAway, handleDomainTokenSet, core
  <1>3. CASE (HelperNext \/ Expire \/ Shutdown) /\ UNCHANGED wizardVars
    BY <1>1, <1>3 DEF wizardVars, core
  <1>4. CASE handleDomainManualApplyBody \/ handleDomainManualConfirmAccess
    BY <1>4, ManualCore
  <1>5. CASE handleDomainApply
    BY <1>5, ApplyCore
  <1>6. CASE Create
    BY <1>6, CreateCore
  <1>7. CASE CreateFails \/ ApplyFails
    BY <1>7, ApplyFailsCore
  <1>8. CASE StoreConnector \/ syncCertbotDNSCredentialsFromAPIToken
    BY <1>8, GotoCore DEF StoreConnector, syncCertbotDNSCredentialsFromAPIToken, SaveFile, At
  <1>9. CASE SaveDeployment
    BY <1>9, SaveDeploymentCore
  <1>10. CASE QueueTLS \/ QueueFails
    BY <1>10, LeaveCore DEF QueueTLS, QueueFails, At
  <1>11. CASE handleDomainAccessPolicy
    BY <1>11, HoldCore DEF handleDomainAccessPolicy, Enter
  <1>12. CASE CreateAccessPolicy
    BY <1>12, PolicyCore
  <1>13. CASE PolicyFails \/ PolicySaveFails
    BY <1>13, LeaveCore DEF PolicyFails, PolicySaveFails, At
  <1>14. CASE PolicySaved
    <2>1. op.dep \in Deployment
      BY DEF CoreInv, CopyInv, Handler
    <2>2. /\ row' \in Deployment /\ row'.id = op.dep.id /\ row'.manual = op.dep.manual
          /\ row'.pending = op.dep.pending /\ row'.done = op.dep.done
      BY <1>14, <2>1 DEF PolicySaved, Deployment
    <2> QED BY <1>14, <2>2, SaveCore DEF PolicySaved, At
  <1>15. CASE handleDomainConfirmReachable
    BY <1>15, HoldCore DEF handleDomainConfirmReachable, Enter
  <1>16. CASE PersistBootstrapClosed
    BY <1>16, GotoCore DEF PersistBootstrapClosed, At
  <1>17. CASE CloseBootstrap
    BY <1>17, LeaveCore DEF CloseBootstrap, At
  <1>18. CASE handleDomainTLSIssue
    BY <1>18, HoldCore DEF handleDomainTLSIssue, Enter
  <1>19. CASE VerifyRecords
    BY <1>19, GotoCore DEF VerifyRecords, At
  <1>20. CASE NoteTime
    <2>1. op.kind = "tls" \/ op.kind = "disconnect"
      <3>1. op.kind \in {"none", "apply", "policy", "confirm", "tls", "disconnect"}
        BY DEF CoreInv, CopyInv, Handler
      <3> QED BY <1>20, <3>1 DEF NoteTime, CoreInv, CopyInv
    <2> QED BY <1>20, <2>1, GotoCore DEF NoteTime
  <1>21. CASE QueueRequest
    BY <1>21, GotoCore DEF QueueRequest, At
  <1>22. CASE TLSAnswered
    <2>1. op.dep \in Deployment
      BY DEF CoreInv, CopyInv, Handler
    <2>2. /\ row' \in Deployment /\ row'.id = op.dep.id /\ row'.manual = op.dep.manual
          /\ row'.pending = op.dep.pending /\ row'.done = op.dep.done
      <3>1. row' = [op.dep EXCEPT !.tls = issued] /\ issued \in {"issued", "failed"}
        BY <1>22 DEF TLSAnswered, waitTLSIssueResult, HelperTypeOK
      <3> QED BY <2>1, <3>1 DEF Deployment
    <2> QED BY <1>22, <2>2, SaveCore DEF TLSAnswered, At
  <1>23. CASE handleDomainDisconnect \/ DeleteRemote \/ RemoteDone \/ ClearDeployment
    BY <1>23, DisconnectCore
  <1>24. CASE CleanupAnswered
    BY <1>24, GotoCore DEF CleanupAnswered, At
  <1>25. CASE removeCloudflareCredentialFiles
    BY <1>25, LeaveCore DEF removeCloudflareCredentialFiles, At
  <1>26. CASE GiveUp
    BY <1>26, LeaveCore DEF GiveUp
  <1>27. CASE Crash
    BY <1>27, CrashCore
  <1>28. UNCHANGED domainVars => UNCHANGED core
    BY DEF domainVars, wizardVars, core
  <1> QED BY <1>1, <1>2, <1>3, <1>4, <1>5, <1>6, <1>7, <1>8, <1>9, <1>10, <1>11, <1>12, <1>13,
             <1>14, <1>15, <1>16, <1>17, <1>18, <1>19, <1>20, <1>21, <1>22, <1>23, <1>24, <1>25,
             <1>26, <1>27, <1>28 DEF WizardNext, Wizard

-----------------------------------------------------------------------------
(* What the actions do to the other parts of the state.                    *)

\* The bootstrap listener is touched by confirm, by a restart, and by itself.
LEMMA BootFrame ==
    ASSUME [WizardNext]_domainVars
    PROVE  \/ UNCHANGED bootVars
           \/ PersistBootstrapClosed \/ CloseBootstrap \/ Crash
           \/ (Expire \/ Shutdown) /\ UNCHANGED op
  BY DEF WizardNext, Wizard, domainVars, wizardVars, SaveFile,
         serializeDomainMutation, TurnedAway, handleDomainTokenSet,
         handleDomainManualApplyBody, handleDomainManualConfirmAccess,
         handleDomainApply, Create, CreateFails, StoreConnector,
         syncCertbotDNSCredentialsFromAPIToken, SaveDeployment, ApplyFails,
         QueueTLS, QueueFails, handleDomainAccessPolicy, CreateAccessPolicy, PolicyFails,
         PolicySaveFails, PolicySaved, handleDomainConfirmReachable,
         handleDomainTLSIssue, VerifyRecords, NoteTime, QueueRequest, TLSAnswered,
         handleDomainDisconnect, DeleteRemote, RemoteDone, CleanupAnswered,
         ClearDeployment, removeCloudflareCredentialFiles, GiveUp

\* Only the rewriting of the environment file leads to the closing.
LEMMA CloseFrame ==
    ASSUME op \in Handler, [WizardNext]_domainVars, op'.pc = "close"
    PROVE  op' = op \/ PersistBootstrapClosed
  <1>1. \A pc : Goto(pc) => op'.pc = pc
    BY DEF Goto, Handler
  <1>2. \A kind, pc, dep : Hold(kind, pc, dep) => op'.pc = pc
    BY DEF Hold
  <1>3. ~Leave
    BY IdleTyped DEF Leave
  <1>4. ~Create /\ ~CreateAccessPolicy
    BY DEF Create, CreateAccessPolicy, Handler
  <1> QED
    BY <1>1, <1>2, <1>3, <1>4
       DEF WizardNext, Wizard, domainVars, wizardVars, SaveFile, Enter,
         serializeDomainMutation, TurnedAway, handleDomainTokenSet,
         handleDomainManualApplyBody, handleDomainManualConfirmAccess,
         handleDomainApply, CreateFails, StoreConnector,
         syncCertbotDNSCredentialsFromAPIToken, SaveDeployment, ApplyFails,
         QueueTLS, QueueFails, handleDomainAccessPolicy, PolicyFails,
         PolicySaveFails, PolicySaved, handleDomainConfirmReachable, CloseBootstrap,
         handleDomainTLSIssue, VerifyRecords, NoteTime, QueueRequest, TLSAnswered,
         handleDomainDisconnect, DeleteRemote, RemoteDone, CleanupAnswered,
         ClearDeployment, removeCloudflareCredentialFiles, GiveUp, Crash

\* The port is opened by a start alone, and a start looks at the files.
LEMMA BootStep ==
    ASSUME op \in Handler, BootTypeOK, ClosedInv, [WizardNext]_domainVars
    PROVE  /\ BootTypeOK' /\ ClosedInv'
           /\ promised /\ ~port => ~port'
  <1>1. CASE UNCHANGED bootVars /\ ~PersistBootstrapClosed
    BY <1>1, CloseFrame DEF bootVars, BootTypeOK, ClosedInv
  <1>2. CASE PersistBootstrapClosed
    BY <1>2 DEF PersistBootstrapClosed, BootTypeOK, ClosedInv
  <1>3. CASE CloseBootstrap
    <2>1. op'.pc = "idle"
      BY <1>3, IdleTyped DEF CloseBootstrap, Leave
    <2> QED BY <1>3, <2>1 DEF CloseBootstrap, BootTypeOK, ClosedInv, At
  <1>4. CASE Crash
    <2>1. op'.pc = "idle"
      BY <1>4, IdleTyped DEF Crash, Leave
    <2> QED BY <1>4, <2>1 DEF Crash, Reopen, Start, BootTypeOK, ClosedInv
  <1>5. CASE Shutdown /\ UNCHANGED op
    BY <1>5 DEF Shutdown, BootTypeOK, ClosedInv
  <1>6. CASE Expire /\ UNCHANGED op
    <2>1. PICK written \in BOOLEAN : /\ marker' = (marker \/ written)
                                    /\ promised' = (promised \/ marker')
      BY <1>6 DEF Expire
    <2>2. port' = FALSE /\ UNCHANGED <<env, closing, op>>
      BY <1>6 DEF Expire
    <2>3. marker' \in BOOLEAN /\ promised' \in BOOLEAN
      BY <2>1 DEF BootTypeOK
    <2>4. (marker => marker') /\ (promised' => promised \/ marker')
      BY <2>1
    <2>5. BootTypeOK'
      BY <2>2, <2>3 DEF BootTypeOK
    <2>6. ClosedInv'
      BY <2>2, <2>4 DEF ClosedInv
    <2> QED BY <2>2, <2>5, <2>6
  <1> QED BY <1>1, <1>2, <1>3, <1>4, <1>5, <1>6, BootFrame

\* The application's handlers add and remove secret files, write a request or
\* note the time; everything else is the helper's own.
LEMMA HelperFrame ==
    ASSUME [WizardNext]_domainVars
    PROVE  \/ UNCHANGED helperVars
           \/ /\ files' \subseteq files \cup SecretFile
              /\ UNCHANGED <<request, active, snapshot, issued, cleaned, hpc, seen, held>>
           \/ /\ request' \in {"issue", "cleanup"} /\ held' \in Replaced
              /\ UNCHANGED <<files, active, snapshot, issued, cleaned, hpc, seen>>
           \/ /\ issued' = "none" /\ cleaned' = "none"
              /\ UNCHANGED <<files, request, active, snapshot, hpc, seen, held>>
           \/ HelperNext
  BY DEF WizardNext, Wizard, domainVars, wizardVars, SaveFile, Enter, SecretFile, queuedAfter,
         WriteTLSIssueRequest, WriteTLSCredentialCleanupRequest, WriteRequest,
         serializeDomainMutation, TurnedAway, handleDomainTokenSet,
         handleDomainManualApplyBody, handleDomainManualConfirmAccess,
         handleDomainApply, Create, CreateFails, StoreConnector,
         syncCertbotDNSCredentialsFromAPIToken, SaveDeployment, ApplyFails,
         QueueTLS, QueueFails, handleDomainAccessPolicy, CreateAccessPolicy, PolicyFails,
         PolicySaveFails, PolicySaved, handleDomainConfirmReachable, PersistBootstrapClosed,
         CloseBootstrap, handleDomainTLSIssue, VerifyRecords, NoteTime, QueueRequest, TLSAnswered,
         handleDomainDisconnect, DeleteRemote, RemoteDone, CleanupAnswered,
         ClearDeployment, removeCloudflareCredentialFiles, GiveUp, Crash

Swallowed == request = "cleanup" /\ request' = "none" /\ seen # "cleanup" /\ held # "late"

\* The helper removes the request it read, or one it cannot tell from it.
LEMMA HelperStep ==
    ASSUME HelperTypeOK, ClaimInv, [WizardNext]_domainVars
    PROVE  HelperTypeOK' /\ ClaimInv' /\ ~Swallowed
  <1>1. CASE UNCHANGED helperVars
    BY <1>1 DEF helperVars, HelperTypeOK, ClaimInv, Swallowed
  <1>2. CASE /\ files' \subseteq files \cup SecretFile
             /\ UNCHANGED <<request, active, snapshot, issued, cleaned, hpc, seen, held>>
    BY <1>2 DEF HelperTypeOK, ClaimInv, Swallowed
  <1>3. CASE /\ request' \in {"issue", "cleanup"} /\ held' \in Replaced
             /\ UNCHANGED <<files, active, snapshot, issued, cleaned, hpc, seen>>
    <2>1. /\ held = "none" => held' = "none"
          /\ held # "none" => held' \in {"other", "late"}
          /\ held # "none" /\ hpc = "unlink" => held' = "late"
      BY <1>3 DEF Replaced
    <2> QED BY <1>3, <2>1 DEF HelperTypeOK, ClaimInv, Swallowed, Job, Held
  <1>4. CASE /\ issued' = "none" /\ cleaned' = "none"
             /\ UNCHANGED <<files, request, active, snapshot, hpc, seen, held>>
    BY <1>4 DEF HelperTypeOK, ClaimInv, Swallowed
  <1>5. CASE HelperNext
    <2> USE DEF HelperTypeOK, ClaimInv, Swallowed, Job, Held
    <2>1. CASE HelperStart
      BY <2>1 DEF HelperStart
    <2>2. CASE claim_request
      BY <2>2 DEF claim_request
    <2>3. CASE ClaimStat \/ ClaimUnlink \/ ClaimError
      BY <2>3 DEF ClaimStat, ClaimUnlink, ClaimError, ClaimOver, SameFile
    <2>4. CASE ClaimFails
      BY <2>4 DEF ClaimFails, publish_result
    <2>5. CASE snapshot_credentials \/ publish_issued \/ fail
      BY <2>5 DEF snapshot_credentials, publish_issued, fail, publish_result
    <2>6. CASE HelperClear \/ cleanup_domain
      BY <2>6 DEF HelperClear, cleanup_domain
    <2>7. CASE CleanupFails \/ CleanupAcknowledged
      BY <2>7 DEF CleanupFails, CleanupAcknowledged, publish_cleanup_result
    <2>8. CASE HelperKilled
      BY <2>8 DEF HelperKilled
    <2> QED BY <1>5, <2>1, <2>2, <2>3, <2>4, <2>5, <2>6, <2>7, <2>8 DEF HelperNext
  <1> QED BY <1>1, <1>2, <1>3, <1>4, <1>5, HelperFrame

\* Failing reads are counted where they let a request pass.
LEMMA MisreadStep ==
    ASSUME misreads \in 0..MaxMisreads, [WizardNext]_domainVars
    PROVE  misreads' \in 0..MaxMisreads
  <1>1. misreads' = misreads \/ Misread
    BY DEF WizardNext, Wizard, domainVars, wizardVars, SaveFile, NotConfigured,
         serializeDomainMutation, TurnedAway, handleDomainTokenSet,
         handleDomainManualApplyBody, handleDomainManualConfirmAccess,
         handleDomainApply, Create, CreateFails, StoreConnector,
         syncCertbotDNSCredentialsFromAPIToken, SaveDeployment, ApplyFails,
         QueueTLS, QueueFails, handleDomainAccessPolicy, CreateAccessPolicy, PolicyFails,
         PolicySaveFails, PolicySaved, handleDomainConfirmReachable, PersistBootstrapClosed,
         CloseBootstrap, handleDomainTLSIssue, VerifyRecords, NoteTime, QueueRequest, TLSAnswered,
         handleDomainDisconnect, DeleteRemote, RemoteDone, CleanupAnswered,
         ClearDeployment, removeCloudflareCredentialFiles, GiveUp, Crash
  <1> QED BY <1>1, WizardAssumption DEF Misread

\* Requests wait for the flag, at most so many.
LEMMA AdmittedStep ==
    ASSUME admitted \in 0..MaxAdmitted, [WizardNext]_domainVars
    PROVE  admitted' \in 0..MaxAdmitted
  <1>1. \/ admitted' = admitted
        \/ admitted < MaxAdmitted /\ admitted' = admitted + 1
        \/ admitted > 0 /\ admitted' = admitted - 1
        \/ admitted' = 0
    BY DEF WizardNext, Wizard, domainVars, wizardVars, SaveFile, Enter,
         serializeDomainMutation, TurnedAway, handleDomainTokenSet,
         handleDomainManualApplyBody, handleDomainManualConfirmAccess,
         handleDomainApply, Create, CreateFails, StoreConnector,
         syncCertbotDNSCredentialsFromAPIToken, SaveDeployment, ApplyFails,
         QueueTLS, QueueFails, handleDomainAccessPolicy, CreateAccessPolicy, PolicyFails,
         PolicySaveFails, PolicySaved, handleDomainConfirmReachable, PersistBootstrapClosed,
         CloseBootstrap, handleDomainTLSIssue, VerifyRecords, NoteTime, QueueRequest, TLSAnswered,
         handleDomainDisconnect, DeleteRemote, RemoteDone, CleanupAnswered,
         ClearDeployment, removeCloudflareCredentialFiles, GiveUp, Crash
  <1> QED BY <1>1, WizardAssumption

\* The steps that touch neither policies nor the handler's list of them.
LEMMA PolicyFrame ==
    ASSUME op \in Handler, [WizardNext]_domainVars
    PROVE  \/ UNCHANGED <<policies, strays>> /\ (op' = op \/ op'.kind # "policy" \/ op'.made = {}
                                                 \/ (op'.kind = op.kind /\ op'.made = op.made))
           \/ Create \/ CreateFails \/ ApplyFails \/ CreateAccessPolicy \/ PolicyFails
           \/ PolicySaveFails \/ DeleteRemote \/ Crash
  <1>1. \A pc : Goto(pc) => op'.kind = op.kind /\ op'.made = op.made
    BY DEF Goto, Handler
  <1>2. \A kind, pc, dep : Hold(kind, pc, dep) => op'.made = {}
    BY DEF Hold
  <1>3. Leave => op'.made = {}
    BY IdleTyped DEF Leave
  <1> QED
    BY <1>1, <1>2, <1>3
       DEF WizardNext, Wizard, domainVars, wizardVars, cloudVars, SaveFile, Enter,
         serializeDomainMutation, TurnedAway, handleDomainTokenSet,
         handleDomainManualApplyBody, handleDomainManualConfirmAccess,
         handleDomainApply, StoreConnector,
         syncCertbotDNSCredentialsFromAPIToken, SaveDeployment,
         QueueTLS, QueueFails, handleDomainAccessPolicy,
         PolicySaved, handleDomainConfirmReachable, PersistBootstrapClosed,
         CloseBootstrap, handleDomainTLSIssue, VerifyRecords, NoteTime, QueueRequest, TLSAnswered,
         handleDomainDisconnect, RemoteDone, CleanupAnswered,
         ClearDeployment, removeCloudflareCredentialFiles, GiveUp

\* A stray policy is a policy: what is deleted, or goes with its application,
\* is on neither list.
LEMMA PolicyStep ==
    ASSUME CoreInv, PolicyInv, [WizardNext]_domainVars
    PROVE  PolicyInv'
  <1> USE DEF CoreInv
  <1>1. op \in Handler
    BY DEF CopyInv
  <1>2. Leave => op'.kind = "none"
    BY IdleTyped DEF Leave
  <1>3. CASE UNCHANGED <<policies, strays>> /\ (op' = op \/ op'.kind # "policy" \/ op'.made = {}
                                                 \/ (op'.kind = op.kind /\ op'.made = op.made))
    BY <1>3 DEF PolicyInv
  <1>4. CASE Create
    <2>1. op'.kind = "apply"
      BY <1>1, <1>4 DEF Create, At, Handler
    <2> QED BY <1>4, <2>1 DEF Create, PolicyInv
  <1>5. CASE CreateFails \/ ApplyFails
    <2>1. Leave /\ policies' \subseteq policies /\ strays' \subseteq policies'
      BY <1>5 DEF CreateFails, ApplyFails, Compensate
    <2> QED BY <1>2, <2>1 DEF PolicyInv
  <1>6. CASE CreateAccessPolicy \/ PolicyFails \/ PolicySaveFails
    <2>1. First(App) \in App
      BY FirstIn, WizardAssumption
    <2>2. op.kind = "policy"
      BY <1>6 DEF CreateAccessPolicy, PolicyFails, PolicySaveFails, At
    <2>3. op.pc = "create" => NextApp \in App
      <3>1. op.pc = "create" => App \ op.made \subseteq Resource /\ App \ op.made # {}
        BY <2>2, WizardAssumption DEF MadeInv
      <3> QED BY <3>1, FirstIn DEF NextApp
    <2>4. CASE CreateAccessPolicy
      <3>1. /\ op.pc = "create" /\ policies' = policies \cup {NextApp} /\ strays' = strays
            /\ op' = [op EXCEPT !.made = op.made \cup {NextApp},
                                !.pc = IF op.made \cup {NextApp} = App THEN "save" ELSE "create"]
        BY <2>4 DEF CreateAccessPolicy, At
      <3>2. op'.made = op.made \cup {NextApp}
        BY <1>1, <3>1 DEF Handler
      <3> QED BY <2>2, <2>3, <3>1, <3>2 DEF PolicyInv
    <2>5. CASE PolicyFails
      <3> DEFINE apps == OfDeployment({First(App), NextApp})
      <3>1. PICK kept \in SUBSET apps :
               policies' = (policies \ apps) \cup kept /\ strays' = (strays \ apps) \cup kept
        BY <2>5 DEF PolicyFails, TakeBack
      <3>2. kept \subseteq App
        BY <2>1, <2>3, <2>5, <3>1 DEF PolicyFails, At, OfDeployment
      <3> HIDE DEF apps
      <3> QED BY <1>2, <2>5, <3>1, <3>2 DEF PolicyFails, PolicyInv
    <2>6. CASE PolicySaveFails
      <3> DEFINE apps == OfDeployment({First(App)})
      <3>1. PICK kept \in SUBSET apps :
               policies' = (policies \ apps) \cup kept /\ strays' = (strays \ apps) \cup kept
        BY <2>6 DEF PolicySaveFails, TakeBack
      <3>2. kept \subseteq App
        BY <2>1, <3>1 DEF OfDeployment
      <3> HIDE DEF apps
      <3> QED BY <1>2, <2>6, <3>1, <3>2 DEF PolicySaveFails, PolicyInv
    <2> QED BY <1>6, <2>4, <2>5, <2>6
  <1>7. CASE DeleteRemote
    <2>1. PICK kept \in SUBSET OfDeployment(Resource) :
             LET deleted == OfDeployment(Resource) \ kept
             IN policies' \in PoliciesLeft(deleted) /\ strays' = strays \ deleted
      BY <1>7 DEF DeleteRemote
    <2>2. policies' \subseteq policies
      BY <2>1 DEF PoliciesLeft
    <2>3. strays' \subseteq policies'
      BY <2>1 DEF PoliciesLeft, PolicyInv
    <2>4. op'.kind # "policy"
      <3>1. Leave \/ Goto("done")
        BY <1>7 DEF DeleteRemote
      <3>2. Goto("done") => op'.kind = op.kind
        BY <1>1 DEF Goto, Handler
      <3> QED BY <1>2, <1>7, <3>1, <3>2 DEF DeleteRemote, At
    <2> QED BY <2>2, <2>3, <2>4 DEF PolicyInv
  <1>8. CASE Crash
    BY <1>2, <1>8 DEF Crash, PolicyInv
  <1> QED BY <1>1, <1>3, <1>4, <1>5, <1>6, <1>7, <1>8, PolicyFrame

-----------------------------------------------------------------------------
(* The theorems.                                                           *)

LEMMA WizardInitInv == WizardInit => WizardInv
  <1> SUFFICES ASSUME WizardInit PROVE WizardInv
    OBVIOUS
  <1> USE WizardAssumption DEF WizardInit
  <1>1. op \in Handler /\ op.kind = "none" /\ op.pc = "idle" /\ op.made = {}
    BY IdleTyped
  <1>2. CoreTyped /\ IdInv
    BY NoRowTyped DEF CoreTyped, IdInv
  <1>3. CopyInv /\ MadeInv
    BY <1>1 DEF CopyInv, MadeInv
  <1>4. GoneInv /\ NothingForgotten /\ RowMatchesCloud
    BY <1>1, NoRowTyped DEF GoneInv, NothingForgotten, RowMatchesCloud
  <1>5. PolicyInv /\ admitted \in 0..MaxAdmitted /\ misreads \in 0..MaxMisreads
    BY <1>1 DEF PolicyInv
  <1>6. HelperTypeOK /\ ClaimInv
    BY DEF HelperInit, HelperTypeOK, ClaimInv, Job, Held
  <1>7. BootTypeOK /\ ClosedInv
    BY <1>1, BootAssumption DEF BootInit, BootTypeOK, ClosedInv, Start
  <1> QED BY <1>2, <1>3, <1>4, <1>5, <1>6, <1>7 DEF WizardInv, CoreInv

\* WizardInv holds in every reachable state of the wizard, the helper and the
\* listener, rows that could not be read and requests written between the
\* helper's look and its removal included.
THEOREM WizardInvariant == WizardSpec => []WizardInv
  <1>1. ASSUME WizardInv, [WizardNext]_domainVars PROVE WizardInv'
    <2>1. CoreInv'
      BY <1>1, CoreStep DEF WizardInv
    <2>2. PolicyInv' /\ admitted' \in 0..MaxAdmitted /\ misreads' \in 0..MaxMisreads
      BY <1>1, PolicyStep, AdmittedStep, MisreadStep DEF WizardInv
    <2>3. HelperTypeOK' /\ ClaimInv'
      BY <1>1, HelperStep DEF WizardInv
    <2>4. BootTypeOK' /\ ClosedInv'
      BY <1>1, BootStep DEF WizardInv, CoreInv, CopyInv
    <2> QED BY <2>1, <2>2, <2>3, <2>4 DEF WizardInv
  <1> QED BY WizardInitInv, <1>1, PTL DEF WizardSpec

\* The row, the cloud and the files keep their types: an answer of the helper
\* that is saved in the row is one it gives (handleDomainTLSIssue).
THEOREM WizardTypeCorrect == WizardSpec => []WizardTypeOK
  <1>1. WizardInv => WizardTypeOK
    BY DEF WizardInv, CoreInv, CoreTyped, CopyInv, GoneInv, PolicyInv, Handler, WizardTypeOK
  <1> QED BY <1>1, WizardInvariant, PTL

\* No resource at Cloudflare is forgotten, whichever call fails and wherever
\* the process dies, but those of a deployment whose row an apply could not
\* read (handleDomainApply, handleDomainDisconnect).
THEOREM CloudIsAccountedFor == WizardSpec => []NothingForgotten
  <1>1. WizardInv => NothingForgotten
    BY DEF WizardInv, CoreInv
  <1> QED BY <1>1, WizardInvariant, PTL

\* A recorded deployment that is not being disconnected has every resource of
\* the plan, unless a later apply could not read its row (SaveDeployment after
\* the last creation; compensate).
THEOREM RowIsTrue == WizardSpec => []RowMatchesCloud
  <1>1. WizardInv => RowMatchesCloud
    BY DEF WizardInv, CoreInv
  <1> QED BY <1>1, WizardInvariant, PTL

\* No restart opens a bootstrap port that was reported closed (main.go's
\* start, PersistBootstrapClosed, the TTL marker).
THEOREM BootstrapClosedForGood == WizardSpec => BootstrapStaysClosed
  <1>1. WizardInv /\ [WizardNext]_domainVars => [promised /\ ~port => ~port']_bootVars
    BY BootStep DEF WizardInv, CoreInv, CopyInv
  <1> QED BY <1>1, WizardInvariant, PTL DEF WizardSpec, BootstrapStaysClosed

\* The helper takes away no cleanup that it did not read, but one that came
\* between its look and its removal or looks the same to it (issue-tls.sh
\* claim_request against handleDomainDisconnect).
THEOREM CleanupsSurvive == WizardSpec => CleanupNotSwallowed
  <1>1. ASSUME WizardInv, [WizardNext]_domainVars
        PROVE  request = "cleanup" /\ request' = "none" =>
                  seen = "cleanup" \/ held = "late"
    BY <1>1, HelperStep DEF WizardInv, Swallowed
  <1>2. WizardInv /\ [WizardNext]_domainVars =>
            [request = "cleanup" /\ request' = "none" =>
                seen = "cleanup" \/ held = "late"]_domainVars
    BY <1>1
  <1> QED BY <1>2, WizardInvariant, PTL DEF WizardSpec, CleanupNotSwallowed
=============================================================================

---------------------------- MODULE DomainWizard ----------------------------
(***************************************************************************)
(* The domain wizard: the mutating handlers of /api/v1/domain, the one row *)
(* of domain_deployment they share, the Cloudflare resources they create   *)
(* and delete, the certificate helper they queue work for and the          *)
(* bootstrap listener that confirm closes.                                 *)
(*                                                                         *)
(* serializeDomainMutation looks at the row and at the request files       *)
(* first and takes the mutation flag afterwards, so a request may enter    *)
(* on what it saw before another request ran.  The flag is held exactly    *)
(* while op is not Idle.                                                   *)
(*                                                                         *)
(* A deployment is told apart by the number of the apply that made it; a   *)
(* resource by the place it has in the plan, since its name depends only   *)
(* on the zone: a leftover of the same name is replaced on creation.       *)
(***************************************************************************)
EXTENDS TLSHelper, BootstrapListener, FiniteSets, Sequences

CONSTANTS Plan,       \* the Cloudflare resources in creation order
          App,        \* those that are Access applications
          DNSRecord,  \* those that are DNS records
          Production, \* REDGRES_ENV is production
          MaxApplies, \* bound: deployments that are begun
          MaxAdmitted, \* bound: requests between the checks and the flag
          MaxMisreads \* bound: requests let through by a failing read

Resource == {Plan[i] : i \in DOMAIN Plan}

\* The resource of rs that comes first in the plan.
First(rs) == Plan[CHOOSE i \in DOMAIN Plan : /\ Plan[i] \in rs
                                            /\ \A j \in DOMAIN Plan : Plan[j] \in rs => i <= j]

ASSUME WizardAssumption ==
    /\ Plan \in Seq(Resource) /\ Cardinality(Resource) = Len(Plan)
    /\ App \subseteq Resource /\ App # {} /\ DNSRecord \subseteq Resource
    /\ Production \in BOOLEAN
    /\ MaxApplies \in Nat /\ MaxAdmitted \in Nat /\ MaxMisreads \in Nat

VARIABLES row,      \* the persisted deployment, NoRow if there is none
          cloud,    \* the deployment each live Cloudflare resource belongs to
          policies, \* the applications with an allow policy
          strays,   \* of those, the ones left by a crash or a failed deletion
          admitted, \* how many requests passed the checks, without the flag
          op,       \* the handler that holds the flag
          applies,  \* deployments begun so far
          lost,     \* resources left behind by a failed call or a crash
          misreads, \* requests let through by a failing read so far
          unread    \* history: deployments whose row an apply could not read

cloudVars == <<cloud, policies, strays, lost>>
history == <<applies, misreads, unread>>
wizardVars == <<row, cloud, policies, strays, admitted, op, lost, history>>
domainVars == <<wizardVars, helperVars, bootVars>>

Deployment == [id : 0..MaxApplies, manual : BOOLEAN, allow : BOOLEAN,
               tls : {"not_issued", "issued", "failed"},
               pending : BOOLEAN, done : BOOLEAN]
NoRow == [id |-> 0, manual |-> FALSE, allow |-> FALSE, tls |-> "not_issued",
          pending |-> FALSE, done |-> FALSE]

Idle == [kind |-> "none", pc |-> "idle", dep |-> NoRow, made |-> {}]
At(kind, pc) == op.kind = kind /\ op.pc = pc
Goto(pc) == op' = [op EXCEPT !.pc = pc]
Leave == op' = Idle

WizardInit ==
    /\ row = NoRow /\ cloud = [r \in Resource |-> 0] /\ policies = {} /\ strays = {}
    /\ admitted = 0 /\ op = Idle /\ applies = 0 /\ lost = {}
    /\ misreads = 0 /\ unread = {}
    /\ HelperInit /\ BootInit

-----------------------------------------------------------------------------
(* serializeDomainMutation.  The checks are the same for every request but *)
(* disconnect, which skips them, so what a request is for is chosen when   *)
(* it enters.  A row or a file that cannot be read is taken for one that   *)
(* is not there: one misread stands for the reads that fail in a request.  *)

Misread ==
    /\ misreads < MaxMisreads
    /\ misreads' = misreads + 1

Unoccupied == ~row.pending /\ request = "none" /\ active = "none"

serializeDomainMutation ==
    /\ admitted < MaxAdmitted
    /\ IF Unoccupied THEN UNCHANGED misreads ELSE Misread
    /\ admitted' = admitted + 1
    /\ UNCHANGED <<row, cloudVars, op, applies, unread, helperVars, bootVars>>

Enter ==
    /\ op = Idle
    /\ admitted > 0
    /\ admitted' = admitted - 1

Hold(kind, pc, dep) ==
    op' = [kind |-> kind, pc |-> pc, dep |-> dep, made |-> {}]

(* The flag is taken, the handler returns early, or the client goes away.  *)
TurnedAway ==
    /\ admitted > 0
    /\ admitted' = admitted - 1
    /\ UNCHANGED <<row, cloudVars, op, history, helperVars, bootVars>>

handleDomainTokenSet ==
    /\ Enter
    /\ files' = files \cup {"token"}
    /\ UNCHANGED <<row, cloudVars, op, history, request, active, snapshot,
                   issued, cleaned, hpc, seen, held, bootVars>>

-----------------------------------------------------------------------------
(* Apply.  Only a row that can be read makes an apply stop; otherwise it   *)
(* goes on, and its save replaces a row that is there.                     *)

Begun == [NoRow EXCEPT !.id = applies + 1]

(* Mutant: a row that is there does not stop an apply.                     *)
NeverRefused == UNCHANGED <<misreads, unread>>

NotConfigured ==
    IF row = NoRow THEN UNCHANGED <<misreads, unread>>
    ELSE Misread /\ unread' = unread \cup {row.id}

handleDomainManualApplyBody ==
    /\ Enter
    /\ NotConfigured /\ applies < MaxApplies
    /\ applies' = applies + 1
    /\ row' = [Begun EXCEPT !.manual = TRUE]
    /\ UNCHANGED <<cloudVars, op, helperVars, bootVars>>

handleDomainManualConfirmAccess ==
    /\ Enter
    /\ row # NoRow /\ row.manual /\ ~row.allow
    /\ row' = [row EXCEPT !.allow = TRUE]
    /\ UNCHANGED <<cloudVars, op, history, helperVars, bootVars>>

handleDomainApply ==
    /\ Enter
    /\ NotConfigured /\ "token" \in files /\ applies < MaxApplies
    /\ applies' = applies + 1
    /\ Hold("apply", "create", Begun)
    /\ UNCHANGED <<row, cloudVars, helperVars, bootVars>>

NextResource == First(Resource \ op.made)

(* CreateTunnel, CreateDNSRecord or CreateAccessApp for the next resource: *)
(* a leftover of the same name is deleted and the creation repeated.       *)
Create ==
    /\ At("apply", "create")
    /\ LET r == NextResource
           made == op.made \cup {r}
       IN /\ cloud' = [cloud EXCEPT ![r] = op.dep.id]
          /\ policies' = policies \ {r} /\ strays' = strays \ {r}
          /\ lost' = lost \ {r}
          /\ op' = [op EXCEPT !.made = made,
                              !.pc = IF made = Resource THEN "verify" ELSE "create"]
    /\ UNCHANGED <<row, admitted, history, helperVars, bootVars>>

(* compensate deletes what was made and ignores every error, the end of    *)
(* the request's own deadline included: any subset may survive.  now and   *)
(* gone are what the failing call left of the cloud and of the leftovers;  *)
(* a policy goes with its application.                                     *)
Compensate(now, gone) ==
    \E kept \in SUBSET op.made :
       LET deleted == op.made \ kept
       IN /\ cloud' = [r \in Resource |-> IF r \in deleted THEN 0 ELSE now[r]]
          /\ policies' = {r \in policies \ deleted : now[r] = cloud[r]}
          /\ strays' = strays \cap policies'
          /\ lost' = (gone \cup kept) \ deleted

(* What a creating call that fails may leave: everything as it was (also   *)
(* when the leftover of that name is in use or not listed), the leftover   *)
(* deleted, or the resource made and the answer lost.                      *)
AfterFailure(r) ==
    {[cloud |-> cloud, lost |-> lost],
     [cloud |-> [cloud EXCEPT ![r] = 0], lost |-> lost \ {r}],
     [cloud |-> [cloud EXCEPT ![r] = op.dep.id], lost |-> lost \cup {r}]}

CreateFails ==
    /\ At("apply", "create")
    /\ \E left \in AfterFailure(NextResource) : Compensate(left.cloud, left.lost)
    /\ Leave
    /\ UNCHANGED <<row, admitted, history, helperVars, bootVars>>

SaveFile(f, pc) ==
    /\ files' = files \cup {f}
    /\ Goto(pc)
    /\ UNCHANGED <<row, cloudVars, admitted, history, request, active, snapshot,
                   issued, cleaned, hpc, seen, held, bootVars>>

StoreConnector == At("apply", "verify") /\ SaveFile("connector", "dns")

syncCertbotDNSCredentialsFromAPIToken == At("apply", "dns") /\ SaveFile("dns", "save")

SaveDeployment ==
    /\ At("apply", "save")
    /\ row' = op.dep
    /\ Goto("queue")
    /\ UNCHANGED <<cloudVars, admitted, history, helperVars, bootVars>>

(* Verification, a secret file or the save fails.                          *)
ApplyFails ==
    /\ \E pc \in {"verify", "dns", "save"} : At("apply", pc)
    /\ Compensate(cloud, lost)
    /\ files' = IF op.pc = "verify" THEN files ELSE files \ {"connector"}
    /\ Leave
    /\ UNCHANGED <<row, admitted, history, request, active, snapshot, issued,
                   cleaned, hpc, seen, held, bootVars>>

QueueTLS ==
    /\ At("apply", "queue")
    /\ WriteTLSIssueRequest
    /\ Leave
    /\ UNCHANGED <<row, cloudVars, admitted, history, files, active, snapshot,
                   issued, cleaned, hpc, seen, bootVars>>

(* The row is durable, so a queue that is unavailable undoes nothing.      *)
QueueFails ==
    /\ At("apply", "queue")
    /\ Leave
    /\ UNCHANGED <<row, cloudVars, admitted, history, helperVars, bootVars>>

-----------------------------------------------------------------------------
(* The Access allow policies, one for each application.                    *)

handleDomainAccessPolicy ==
    /\ Enter
    /\ row # NoRow /\ ~row.manual /\ ~row.allow /\ "token" \in files
    /\ Hold("policy", "create", row)
    /\ UNCHANGED <<row, cloudVars, history, helperVars, bootVars>>

NextApp == First(App \ op.made)
OfDeployment(rs) == {r \in rs : cloud[r] = op.dep.id}

CreateAccessPolicy ==
    /\ At("policy", "create")
    /\ cloud[NextApp] = op.dep.id
    /\ policies' = policies \cup {NextApp}
    /\ LET made == op.made \cup {NextApp}
       IN op' = [op EXCEPT !.made = made,
                           !.pc = IF made = App THEN "save" ELSE "create"]
    /\ UNCHANGED <<row, cloud, strays, lost, admitted, history, helperVars, bootVars>>

(* The error of a deletion is ignored, and a creation whose answer is lost *)
(* has no name to delete: kept are the policies that stay.                 *)
TakeBack(apps) ==
    \E kept \in SUBSET OfDeployment(apps) :
       /\ policies' = (policies \ OfDeployment(apps)) \cup kept
       /\ strays' = (strays \ OfDeployment(apps)) \cup kept

(* A failed creation or verification takes back the first policy and the   *)
(* one that failed.                                                        *)
PolicyFails ==
    /\ At("policy", "create")
    /\ TakeBack({First(App), NextApp})
    /\ Leave
    /\ UNCHANGED <<row, cloud, lost, admitted, history, helperVars, bootVars>>

PolicySaveFails ==
    /\ At("policy", "save")
    /\ TakeBack({First(App)})
    /\ Leave
    /\ UNCHANGED <<row, cloud, lost, admitted, history, helperVars, bootVars>>

PolicySaved ==
    /\ At("policy", "save")
    /\ row' = [op.dep EXCEPT !.allow = TRUE]
    /\ Leave
    /\ UNCHANGED <<cloudVars, admitted, history, helperVars, bootVars>>

-----------------------------------------------------------------------------
(* Confirm: the environment file is truncated and rewritten in place, then *)
(* the marker is written (a failure is ignored) and the port shut down.  A *)
(* missing file is left missing, which only production refuses.            *)

handleDomainConfirmReachable ==
    /\ Enter
    /\ row # NoRow /\ row.allow
    /\ Hold("confirm", "truncate", row)
    /\ UNCHANGED <<row, cloudVars, history, helperVars, bootVars>>

PersistBootstrapClosed ==
    /\ \/ At("confirm", "truncate") /\ env # "missing" /\ env' = "torn" /\ Goto("rewrite")
       \/ At("confirm", "rewrite") /\ env' = "closed" /\ Goto("close")
       \/ /\ At("confirm", "truncate") /\ env = "missing" /\ ~Production
          /\ Goto("close") /\ UNCHANGED env
    /\ UNCHANGED <<row, cloudVars, admitted, history, helperVars, marker, port,
                   closing, promised>>

CloseBootstrap ==
    /\ At("confirm", "close")
    /\ \E written \in BOOLEAN : marker' = (marker \/ written)
    /\ closing' = port /\ promised' = (promised \/ marker' \/ env = "closed")
    /\ Leave
    /\ UNCHANGED <<row, cloudVars, admitted, history, helperVars, env, port>>

-----------------------------------------------------------------------------
(* TLS issuance and disconnect share their queueing: note the time, write  *)
(* the request, poll for a result that is not older than the noted time.   *)

handleDomainTLSIssue ==
    /\ Enter
    /\ row # NoRow /\ ~row.manual /\ "token" \in files
    /\ files' = files \cup {"dns"}
    /\ Hold("tls", "verify", row)
    /\ UNCHANGED <<row, cloudVars, history, request, active, snapshot, issued,
                   cleaned, hpc, seen, held, bootVars>>

VerifyRecords ==
    /\ At("tls", "verify")
    /\ OfDeployment(DNSRecord) = DNSRecord
    /\ Goto("mark")
    /\ UNCHANGED <<row, cloudVars, admitted, history, helperVars, bootVars>>

NoteTime ==
    /\ op.pc = "mark"
    /\ queuedAfter
    /\ Goto("write")
    /\ UNCHANGED <<row, cloudVars, admitted, history, files, request, active,
                   snapshot, hpc, seen, held, bootVars>>

QueueRequest ==
    /\ \/ At("tls", "write") /\ WriteTLSIssueRequest
       \/ At("disconnect", "write") /\ WriteTLSCredentialCleanupRequest
    /\ Goto("wait")
    /\ UNCHANGED <<row, cloudVars, admitted, history, files, active, snapshot,
                   issued, cleaned, hpc, seen, bootVars>>

(* Mutant: an answer is taken before there is one.                         *)
TLSAnsweredEarly ==
    /\ At("tls", "wait")
    /\ row' = [op.dep EXCEPT !.tls = waitTLSIssueResult]
    /\ Leave
    /\ UNCHANGED <<cloudVars, admitted, history, helperVars, bootVars>>

TLSAnswered ==
    /\ At("tls", "wait")
    /\ waitTLSIssueResult # "none"
    /\ row' = [op.dep EXCEPT !.tls = waitTLSIssueResult]
    /\ Leave
    /\ UNCHANGED <<cloudVars, admitted, history, helperVars, bootVars>>

(* Disconnect first makes the intention durable.                           *)
handleDomainDisconnect ==
    /\ op = Idle
    /\ row # NoRow
    /\ row' = [row EXCEPT !.pending = TRUE]
    /\ Hold("disconnect",
            IF row.done THEN "mark" ELSE IF row.manual THEN "done" ELSE "remote",
            row')
    /\ UNCHANGED <<cloudVars, admitted, history, helperVars, bootVars>>

(* Mutant: the errors of the deletions are ignored.                        *)
OutcomeIgnored(kept, failed) == TRUE

(* The outcome of the deletions: kept survive.  An error answer may follow *)
(* a deletion that happened.                                               *)
RemoteOutcome(kept, failed) == kept # {} => failed

(* The recorded policy of an application is deleted before it; one that is *)
(* not recorded only goes with it.                                         *)
PoliciesLeft(deleted) ==
    {left \in SUBSET (policies \ deleted) :
        (policies \ deleted) \ left
           \subseteq (IF op.dep.allow THEN OfDeployment(App) \ strays ELSE {})}

DeleteRemote ==
    /\ At("disconnect", "remote") /\ "token" \in files
    /\ \E kept \in SUBSET OfDeployment(Resource), failed \in BOOLEAN :
          LET deleted == OfDeployment(Resource) \ kept
          IN /\ RemoteOutcome(kept, failed)
             /\ policies' \in PoliciesLeft(deleted) /\ strays' = strays \ deleted
             /\ cloud' = [r \in Resource |-> IF r \in deleted THEN 0 ELSE cloud[r]]
             /\ IF failed THEN Leave ELSE Goto("done")
    /\ UNCHANGED <<row, lost, admitted, history, helperVars, bootVars>>

RemoteDone ==
    /\ At("disconnect", "done")
    /\ row' = [op.dep EXCEPT !.done = TRUE]
    /\ Goto("mark")
    /\ UNCHANGED <<cloudVars, admitted, history, helperVars, bootVars>>

CleanupAnswered ==
    /\ At("disconnect", "wait")
    /\ waitTLSCleanupResult = "cleaned"
    /\ Goto("clear")
    /\ UNCHANGED <<row, cloudVars, admitted, history, helperVars, bootVars>>

ClearDeployment ==
    /\ At("disconnect", "clear")
    /\ row' = NoRow
    /\ Goto("files")
    /\ UNCHANGED <<cloudVars, admitted, history, helperVars, bootVars>>

removeCloudflareCredentialFiles ==
    /\ At("disconnect", "files")
    /\ files' = {}
    /\ Leave
    /\ UNCHANGED <<row, cloudVars, admitted, history, request, active, snapshot,
                   issued, cleaned, hpc, seen, held, bootVars>>

(* A storage error, a failed or late answer, a missing credential, an      *)
(* audit record that cannot be written: the handler answers with an error  *)
(* and has nothing to undo.  The result of a late answer is not saved,     *)
(* since the save uses the same expired deadline.                          *)
GiveUp ==
    /\ \/ op.kind \in {"tls", "confirm"}
       \/ op.kind = "disconnect" /\ op.pc # "files"
    /\ Leave
    /\ UNCHANGED <<row, cloudVars, admitted, history, helperVars, bootVars>>

-----------------------------------------------------------------------------
Crash ==
    /\ Leave
    /\ admitted' = 0
    /\ lost' = IF op.kind = "apply" /\ op.pc # "queue" THEN lost \cup op.made ELSE lost
    /\ strays' = IF op.kind = "policy" THEN strays \cup op.made ELSE strays
    /\ Reopen
    /\ UNCHANGED <<row, cloud, policies, history, helperVars>>

Wizard ==
    \/ serializeDomainMutation \/ TurnedAway \/ handleDomainTokenSet
    \/ handleDomainManualApplyBody \/ handleDomainManualConfirmAccess
    \/ handleDomainApply \/ Create \/ CreateFails \/ StoreConnector
    \/ syncCertbotDNSCredentialsFromAPIToken \/ SaveDeployment \/ ApplyFails
    \/ QueueTLS \/ QueueFails
    \/ handleDomainAccessPolicy \/ CreateAccessPolicy \/ PolicyFails
    \/ PolicySaveFails \/ PolicySaved
    \/ handleDomainConfirmReachable \/ PersistBootstrapClosed \/ CloseBootstrap
    \/ handleDomainTLSIssue \/ VerifyRecords \/ NoteTime \/ QueueRequest
    \/ TLSAnswered
    \/ handleDomainDisconnect \/ DeleteRemote \/ RemoteDone \/ CleanupAnswered
    \/ ClearDeployment \/ removeCloudflareCredentialFiles
    \/ GiveUp \/ Crash

WizardNext ==
    \/ Wizard
    \/ HelperNext /\ UNCHANGED <<wizardVars, bootVars>>
    \/ (Expire \/ Shutdown) /\ UNCHANGED <<wizardVars, helperVars>>

WizardSpec == WizardInit /\ [][WizardNext]_domainVars

-----------------------------------------------------------------------------
(* The variables hold what the handlers and the row can hold.              *)
WizardTypeOK ==
    /\ row \in Deployment /\ op.dep \in Deployment
    /\ row.done => row.pending
    /\ cloud \in [Resource -> 0..MaxApplies]
    /\ policies \subseteq App /\ strays \subseteq policies
    /\ admitted \in 0..MaxAdmitted
    /\ op.made \subseteq Resource /\ lost \subseteq Resource
    /\ applies \in 0..MaxApplies
    /\ misreads \in 0..MaxMisreads /\ unread \subseteq 1..MaxApplies
    /\ HelperTypeOK /\ BootTypeOK

(* Nothing is forgotten at Cloudflare: a resource that exists belongs to   *)
(* the recorded deployment, so disconnect can delete it, or to the apply   *)
(* that is running, or a failed call or a crash is known to have left it,  *)
(* or its deployment's row could not be read when a later apply looked for *)
(* one, and that apply replaced the row.  In particular disconnect never   *)
(* drops the row while a deletion failed.                                  *)
NothingForgotten ==
    \A r \in Resource :
       cloud[r] # 0 => \/ cloud[r] = row.id
                       \/ op.kind = "apply" /\ r \in op.made
                       \/ r \in lost
                       \/ cloud[r] \in unread

(* A recorded deployment that is not being disconnected is complete: every *)
(* resource of the plan exists and is the one the row names, whatever      *)
(* failed after the row was saved, as long as no later apply failed to     *)
(* read that row: such an apply replaces the resources by its own and, if  *)
(* it fails, deletes them.                                                 *)
RowMatchesCloud ==
    row # NoRow /\ ~row.manual /\ ~row.pending /\ row.id \notin unread =>
       \A r \in Resource : cloud[r] = row.id

(* The helper swallows no cleanup that it can see: while it is claiming an *)
(* issuance, disconnect may put a cleanup in the place of the request it   *)
(* read, and that cleanup leaves the request file only when it is the one  *)
(* the helper read, or the application replaces it by an issuance.  The    *)
(* exception is a cleanup that came between the helper's look and its      *)
(* removal, or that was given the inode number of the file it replaced.    *)
CleanupNotSwallowed ==
    [][request = "cleanup" /\ request' = "none" =>
          seen = "cleanup" \/ held = "late"]_domainVars

(* Once the row is cleared and neither the application nor the helper has  *)
(* anything left to do, the root-owned copy of the DNS token is gone       *)
(* (waitTLSCleanupResult tells an acknowledgement only by its time, so one *)
(* for an earlier cleanup may be taken for the awaited one).               *)
DisconnectRemovesSnapshot ==
    row = NoRow /\ op = Idle
    /\ hpc = "idle" /\ request = "none" /\ active = "none"
       => ~snapshot

(* A failed access-policy request is undone: a deployment that is reported *)
(* as deny_by_default has no allow policy but those a crash or a failed    *)
(* deletion left (handleDomainAccessPolicy's deletions after a failed      *)
(* creation, verification or save).                                        *)
PolicyFailureUndone ==
    row # NoRow /\ ~row.allow /\ op.kind # "policy" => policies = strays
=============================================================================

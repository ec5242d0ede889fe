------------------------------ MODULE TLSHelper ------------------------------
(***************************************************************************)
(* The root-side certificate helper (deploy/systemd/issue-tls.sh) and the  *)
(* files over which the application talks to it: one request file that a   *)
(* newer request replaces, the root-owned claim active.request, the two    *)
(* result files, and the root-owned copy of the DNS token.                 *)
(*                                                                         *)
(* systemd runs one helper at a time and may kill it between any two       *)
(* steps; the files survive.  A result file counts for a handler only when *)
(* its modification time is not before the moment the handler noted        *)
(* (queuedAfter), so the result variables forget what was published before *)
(* the last such moment.                                                   *)
(***************************************************************************)
EXTENDS Naturals

VARIABLES files,     \* secret files of the application: "token", "dns", "connector"
          request,   \* tls-issue.request: "none", "issue" or "cleanup"
          active,    \* active.request: the same values
          snapshot,  \* the root-owned copy of the DNS token exists
          issued,    \* issue.result since then: "none", "issued" or "failed"
          cleaned,   \* cleanup.result since then: "none", "cleaned" or "failed"
          hpc,       \* where the helper is
          seen,      \* the request it read
          held       \* what the request file is by now to a claiming helper

helperVars == <<files, request, active, snapshot, issued, cleaned, hpc,
                seen, held>>

SecretFile == {"token", "dns", "connector"}
Job == {"none", "issue", "cleanup"}

\* "own": the file that was read; "other": one that replaced it; "late": one
\* that replaced it and that the comparison cannot tell from it, because it
\* came after the comparison or was given the freed inode number.
Held == {"none", "own", "other", "late"}

HelperTypeOK ==
    /\ files \subseteq SecretFile
    /\ request \in Job /\ active \in Job /\ seen \in Job
    /\ snapshot \in BOOLEAN /\ held \in Held
    /\ issued \in {"none", "issued", "failed"}
    /\ cleaned \in {"none", "cleaned", "failed"}
    /\ hpc \in {"idle", "copy", "stat", "unlink", "refuse", "run", "certbot",
               "ack", "clear"}

HelperInit ==
    /\ files = {} /\ request = "none" /\ active = "none" /\ seen = "none"
    /\ snapshot = FALSE /\ issued = "none" /\ cleaned = "none"
    /\ hpc = "idle" /\ held = "none"

-----------------------------------------------------------------------------
(* The application's side: both writers rename a new file over the request *)
(* file, so it is no longer the file the helper read.  The helper has      *)
(* closed that file, so its inode number is free once it was replaced, and *)
(* the next new file may be given it.                                      *)

Replaced ==
    IF held = "none" THEN {"none"}
    ELSE IF hpc = "unlink" THEN {"late"}
    ELSE IF held = "other" THEN {"other", "late"}
    ELSE {"other"}

WriteRequest(job) ==
    /\ request' = job
    /\ held' \in Replaced

WriteTLSIssueRequest == WriteRequest("issue")

WriteTLSCredentialCleanupRequest == WriteRequest("cleanup")

(* queuedAfter is noted: older results do not count from now on.           *)
queuedAfter ==
    /\ issued' = "none"
    /\ cleaned' = "none"

(* What the waiting loops of the handlers see.                             *)
waitTLSCleanupResult == cleaned

waitTLSIssueResult == issued

-----------------------------------------------------------------------------
(* The helper.  A claim left by an interrupted run is resumed before a new *)
(* request is looked at.                                                   *)

publish_result(value) == issued' = value

publish_cleanup_result(value) == cleaned' = value

\* The request file is opened and read, or cannot be opened.
HelperStart ==
    /\ hpc = "idle"
    /\ \/ /\ active # "none"
          /\ hpc' = "run" /\ UNCHANGED <<seen, held>>
       \/ /\ active = "none" /\ request # "none"
          /\ hpc' = "copy" /\ seen' = request /\ held' = "own"
       \/ /\ active = "none" /\ request # "none"
          /\ hpc' = "refuse" /\ UNCHANGED <<seen, held>>
    /\ UNCHANGED <<files, request, active, snapshot, issued, cleaned>>

(* claim_request copies the request into active.request, or fails to.      *)
(* Either way it then looks whether the request file is still the file     *)
(* that was read, and removes it if so: two system calls, between which    *)
(* the application may rename a new request into its place.                *)
claim_request ==
    /\ hpc = "copy"
    /\ active' \in {seen, "none"} /\ hpc' = "stat"
    /\ UNCHANGED <<files, request, snapshot, issued, cleaned, seen, held>>

\* The claim is over: with a claimed request, or without one.
ClaimOver ==
    /\ hpc' = IF active = "none" THEN "refuse" ELSE "run"
    /\ seen' = "none" /\ held' = "none"

(* Mutant: the request file is removed whatever it is by now.              *)
AnyFile == TRUE

SameFile == held \in {"own", "late"}

ClaimStat ==
    /\ hpc = "stat"
    /\ IF SameFile THEN hpc' = "unlink" /\ UNCHANGED <<seen, held>>
       ELSE ClaimOver
    /\ UNCHANGED <<files, request, active, snapshot, issued, cleaned>>

ClaimUnlink ==
    /\ hpc = "unlink"
    /\ request' = "none"
    /\ ClaimOver
    /\ UNCHANGED <<files, active, snapshot, issued, cleaned>>

(* The look or the removal fails: the claim counts as failed, and both     *)
(* files stay as they are.                                                 *)
ClaimError ==
    /\ hpc \in {"stat", "unlink"}
    /\ hpc' = "refuse" /\ seen' = "none" /\ held' = "none"
    /\ UNCHANGED <<files, request, active, snapshot, issued, cleaned>>

ClaimFails ==
    /\ hpc = "refuse"
    /\ hpc' = "idle"
    /\ \/ publish_result("failed")
       \/ UNCHANGED issued
    /\ UNCHANGED <<files, request, active, snapshot, cleaned, seen, held>>

snapshot_credentials ==
    /\ hpc = "run" /\ active = "issue" /\ "dns" \in files
    /\ snapshot' = TRUE /\ hpc' = "certbot"
    /\ UNCHANGED <<files, request, active, issued, cleaned, seen, held>>

publish_issued ==
    /\ hpc = "certbot"
    /\ publish_result("issued") /\ hpc' = "clear"
    /\ UNCHANGED <<files, request, active, snapshot, cleaned, seen, held>>

\* Also when a claimed cleanup is not trusted or cannot be read.
fail ==
    /\ hpc \in {"run", "certbot"}
    /\ hpc' = "clear"
    /\ \/ publish_result("failed")
       \/ UNCHANGED issued
    /\ UNCHANGED <<files, request, active, snapshot, cleaned, seen, held>>

HelperClear ==
    /\ hpc = "clear"
    /\ active' = "none" /\ hpc' = "idle"
    /\ UNCHANGED <<files, request, snapshot, issued, cleaned, seen, held>>

(* cleanup_domain removes the copy and the claim, and only then is the     *)
(* cleanup acknowledged.                                                   *)
cleanup_domain ==
    /\ hpc = "run" /\ active = "cleanup"
    /\ snapshot' = FALSE /\ active' = "none" /\ hpc' = "ack"
    /\ UNCHANGED <<files, request, issued, cleaned, seen, held>>

CleanupFails ==
    /\ \/ hpc = "run" /\ active = "cleanup"
       \/ hpc = "ack"
    /\ hpc' = "clear"
    /\ \/ publish_cleanup_result("failed")
       \/ UNCHANGED cleaned
    /\ UNCHANGED <<files, request, active, snapshot, issued, seen, held>>

CleanupAcknowledged ==
    /\ hpc = "ack"
    /\ publish_cleanup_result("cleaned") /\ hpc' = "idle"
    /\ UNCHANGED <<files, request, active, snapshot, issued, seen, held>>

HelperKilled ==
    /\ hpc # "idle"
    /\ hpc' = "idle" /\ seen' = "none" /\ held' = "none"
    /\ UNCHANGED <<files, request, active, snapshot, issued, cleaned>>

HelperNext ==
    \/ HelperStart
    \/ claim_request \/ ClaimStat \/ ClaimUnlink \/ ClaimError \/ ClaimFails
    \/ snapshot_credentials \/ publish_issued \/ fail \/ HelperClear
    \/ cleanup_domain \/ CleanupFails \/ CleanupAcknowledged
    \/ HelperKilled
=============================================================================

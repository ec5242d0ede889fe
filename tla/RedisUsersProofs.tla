-------------------------- MODULE RedisUsersProofs --------------------------
(***************************************************************************)
(* Proofs about the Redis users, for any number of requests, users, names, *)
(* commands and broken connections.  RedisInv is inductive: besides what   *)
(* the properties say it keeps what a request was let in with (AskInv),    *)
(* which request a user's grants come from (GrantInv), that selectors are  *)
(* left only where they were from the start (SelectorInv), which parts of  *)
(* a revived user some request must have set (GhostInv), and that a        *)
(* password on the list of a request that has written belongs to a request *)
(* that was answered, and so writes no more (RetireInv).                   *)
(***************************************************************************)
EXTENDS RedisUsers, TLAPS

\* The request has passed its checks and may still send its command.
Admitted(r) == rq[r].pc \in {"look", "write", "reread", "audit"} \/ r \in late

\* The request's command was answered, and its success is not refuted.
Written(r) == rq[r].pc \in {"reread", "audit"} \/ rq[r].out = "ok"

AskInv ==
    \A r \in Req :
        /\ Admitted(r) =>
             /\ ~IsProtectedUsername(rq[r].user)
             /\ rq[r].kind \in {"create", "update"} =>
                   rq[r].key \in Pattern /\ rq[r].cmds \subseteq AllowedCommands
        /\ rq[r].pc # "done" => rq[r].out = "none"
        /\ r \in late => rq[r].pc = "done" /\ rq[r].out = "unavailable"

\* The grants of an entry are those of a request that is under way or over.
GrantInv ==
    \A u \in User :
       \/ acl[u] = NoUser
       \/ acl[u].wide /\ acl[u].keys = Handmade.keys /\ acl[u].cmds = Handmade.cmds
       \/ acl[u].keys = {} /\ acl[u].cmds = {} /\ ~acl[u].wide
       \/ /\ ~acl[u].wide
          /\ acl[u].cmds \subseteq AllowedCommands
          /\ \E r \in Req : /\ rq[r].pc # "idle" /\ rq[r].user = u
                            /\ acl[u].keys = {rq[r].key} /\ acl[u].cmds = rq[r].cmds

\* Selectors are those of a user that was there from the start.
SelectorInv ==
    \A u \in User :
       Exists(u) /\ acl[u].selectors => {"handmade", "create"} \subseteq since[u]

\* A user whom no create made since the last deletion has only what the other
\* requests set.
GhostInv ==
    \A u \in User :
       Exists(u) /\ "create" \notin since[u] =>
          /\ acl[u].on => "enable" \in since[u]
          /\ acl[u].pw # {} => "rotate" \in since[u]
          /\ acl[u].cmds # {} => "update" \in since[u]

RetireInv ==
    \A r \in Req :
       /\ \A p \in past[r] : p = "old" \/ (p \in Req /\ rq[p].out = "ok")
       /\ Written(r) /\ rq[r].kind \in {"create", "rotate", "delete"} /\ Exists(rq[r].user)
             => acl[rq[r].user].pw \cap past[r] = {}

RedisInv == RedisTypeOK /\ AskInv /\ GrantInv /\ SelectorInv /\ GhostInv /\ RetireInv

-----------------------------------------------------------------------------
\* Nobody starts with a command under way.
LEMMA InitInv == RedisInit => RedisInv
  <1> SUFFICES ASSUME RedisInit PROVE RedisInv
    OBVIOUS
  <1> USE RedisAssumption DEF RedisInit
  <1>1. NoUser # Handmade /\ Handmade \in Entry
    BY DEF NoUser, Handmade, Entry
  <1>2. RedisTypeOK
    BY <1>1 DEF RedisTypeOK, Request, PC, Kind, Answer
  <1>3. AskInv
    BY DEF AskInv, Admitted
  <1>4. GrantInv
    BY DEF GrantInv, Handmade
  <1>5. GhostInv
    BY DEF GhostInv, Kind
  <1>6. RetireInv
    BY DEF RetireInv, Written
  <1>7. SelectorInv
    BY DEF SelectorInv, Kind
  <1> QED BY <1>2, <1>3, <1>4, <1>5, <1>6, <1>7 DEF RedisInv

\* Whatever is granted is within the allow-list.
LEMMA GrantsAllowed ==
    ASSUME NEW kind, NEW preset \in NamedPreset \cup {"custom", "none"},
           NEW cmds \in SUBSET Command
    PROVE  /\ resolveGrants(kind, preset, cmds) \subseteq AllowedCommands
           /\ AllowedCommands \subseteq Command
  <1>1. \A p \in NamedPreset : PresetCommands[p] \subseteq AllowedCommands
    BY DEF AllowedCommands
  <1>2. AllowedCommands \subseteq Command
    BY RedisAssumption DEF AllowedCommands
  <1>3. resolveCustomCommands(cmds) \subseteq AllowedCommands
    BY DEF resolveCustomCommands
  <1>4. DefaultPreset \in NamedPreset
    BY RedisAssumption
  <1> QED BY <1>1, <1>2, <1>3, <1>4 DEF resolveGrants

\* A new request: nothing is written, and its list names answered requests.
LEMMA BeginInv ==
    ASSUME RedisInv, NEW r \in Req, NEW kind \in Kind, NEW u \in User,
           NEW key \in Pattern \cup {BadPrefix}, NEW cmds \in SUBSET Command,
           NEW ok \in BOOLEAN,
           Begin(r, kind, u, key, cmds, ok),
           ok => /\ ~IsProtectedUsername(u)
                 /\ kind \in {"create", "update"} =>
                       key \in Pattern /\ cmds \subseteq AllowedCommands
    PROVE  RedisInv'
  <1> USE DEF RedisInv
  <1>1. /\ rq[r].pc = "idle" /\ rq[r].out = "none" /\ r \notin late
        /\ UNCHANGED <<acl, late, lost, since>>
    BY DEF Begin, AskInv
  <1>2. CASE ok
    <2> DEFINE new == [pc |-> "look", kind |-> kind, user |-> u, key |-> key,
                       cmds |-> cmds, tries |-> 0, out |-> "none"]
    <2>1. /\ rq' = [rq EXCEPT ![r] = new]
          /\ past' = [past EXCEPT ![r] = Handed(u) \cup {"old"}]
      BY <1>2 DEF Begin
    <2>2. new \in Request
      BY DEF Request, PC, Kind, Answer
    <2>3. RedisTypeOK'
      BY <1>1, <2>1, <2>2 DEF RedisTypeOK, Handed
    <2>4. rq'[r] = new /\ \A q \in Req \ {r} : rq'[q] = rq[q]
      BY <2>1 DEF RedisTypeOK
    <2>5. AskInv'
      BY <1>1, <1>2, <2>4 DEF AskInv, Admitted, IsProtectedUsername
    <2>6. GrantInv'
      BY <1>1, <2>4 DEF GrantInv
    <2>7. GhostInv' /\ SelectorInv'
      BY <1>1 DEF GhostInv, SelectorInv, Exists
    <2>8. \A q \in Req : \A p \in past'[q] : p = "old" \/ (p \in Req /\ rq'[p].out = "ok")
      BY <1>1, <2>1, <2>4 DEF RetireInv, RedisTypeOK, Handed
    <2>9. \A q \in Req \ {r} : past'[q] = past[q]
      BY <2>1 DEF RedisTypeOK
    <2>10. RetireInv'
      BY <1>1, <2>4, <2>8, <2>9 DEF RetireInv, Written, Exists
    <2> QED BY <2>3, <2>5, <2>6, <2>7, <2>10
  <1>3. CASE ~ok
    <2>1. /\ rq' = [rq EXCEPT ![r].pc = "done", ![r].out = "refused"]
          /\ past' = past
      BY <1>3 DEF Begin, End
    <2>2. /\ rq'[r] = [rq[r] EXCEPT !.pc = "done", !.out = "refused"]
          /\ \A q \in Req \ {r} : rq'[q] = rq[q]
      BY <2>1 DEF RedisTypeOK
    <2>3. RedisTypeOK'
      BY <1>1, <2>1, <2>2 DEF RedisTypeOK, Request, PC, Answer
    <2>4. /\ rq'[r].pc = "done" /\ rq'[r].out = "refused"
          /\ rq'[r].user = rq[r].user /\ rq'[r].key = rq[r].key /\ rq'[r].cmds = rq[r].cmds
      BY <2>2 DEF RedisTypeOK, Request
    <2>5. AskInv'
      BY <1>1, <2>2, <2>4 DEF AskInv, Admitted, IsProtectedUsername
    <2>6. GrantInv'
      BY <1>1, <2>2, <2>4 DEF GrantInv
    <2>7. GhostInv' /\ SelectorInv'
      BY <1>1 DEF GhostInv, SelectorInv, Exists
    <2>8. \A q \in Req : \A p \in past[q] : p = "old" \/ (p \in Req /\ rq'[p].out = "ok")
      BY <1>1, <2>2 DEF RetireInv
    <2>9. \A q \in Req : Written(q)' => q # r /\ Written(q) /\ rq'[q] = rq[q]
      BY <2>2, <2>4 DEF Written
    <2>10. RetireInv'
      BY <1>1, <2>1, <2>8, <2>9 DEF RetireInv, Exists
    <2> QED BY <2>3, <2>5, <2>6, <2>7, <2>10
  <1> QED BY <1>2, <1>3

\* Start is Begin with the checks of its kind.
LEMMA StartInv ==
    ASSUME RedisInv, NEW r \in Req, Start(r)
    PROVE  RedisInv'
  <1> PICK u \in User :
       \/ \E key \in Pattern \cup {BadPrefix}, cmds \in SUBSET Command,
             preset \in NamedPreset \cup {"custom", "none"} :
             \/ CreateUser(r, u, key, preset, cmds)
             \/ UpdatePermissions(r, u, key, preset, cmds)
       \/ \E kind \in Kind \ {"create", "update"}, confirmed \in BOOLEAN :
             OtherRequest(r, kind, u, confirmed)
    BY DEF Start
  <1>1. ASSUME NEW key \in Pattern \cup {BadPrefix}, NEW cmds \in SUBSET Command,
               NEW preset \in NamedPreset \cup {"custom", "none"},
               CreateUser(r, u, key, preset, cmds)
        PROVE  RedisInv'
    <2> DEFINE grant == resolveGrants("create", preset, cmds)
               ok == /\ u \in WellFormed /\ NormalizePrefix(key)
                     /\ grant # {} /\ ~IsProtectedUsername(u)
    <2>1. grant \subseteq AllowedCommands /\ grant \in SUBSET Command
      BY GrantsAllowed
    <2>2. Begin(r, "create", u, key, grant, ok)
      BY <1>1 DEF CreateUser
    <2>3. ok => ~IsProtectedUsername(u) /\ key \in Pattern
      BY DEF NormalizePrefix
    <2>4. "create" \in Kind /\ ok \in BOOLEAN
      BY DEF Kind
    <2> HIDE DEF grant, ok
    <2> QED BY <2>1, <2>2, <2>3, <2>4, BeginInv
  <1>2. ASSUME NEW key \in Pattern \cup {BadPrefix}, NEW cmds \in SUBSET Command,
               NEW preset \in NamedPreset \cup {"custom", "none"},
               UpdatePermissions(r, u, key, preset, cmds)
        PROVE  RedisInv'
    <2> DEFINE grant == resolveGrants("update", preset, cmds)
               ok == NormalizePrefix(key) /\ grant # {} /\ ~IsProtectedUsername(u)
    <2>1. grant \subseteq AllowedCommands /\ grant \in SUBSET Command
      BY GrantsAllowed
    <2>2. Begin(r, "update", u, key, grant, ok)
      BY <1>2 DEF UpdatePermissions
    <2>3. ok => ~IsProtectedUsername(u) /\ key \in Pattern
      BY DEF NormalizePrefix
    <2>4. "update" \in Kind /\ ok \in BOOLEAN
      BY DEF Kind
    <2> HIDE DEF grant, ok
    <2> QED BY <2>1, <2>2, <2>3, <2>4, BeginInv
  <1>3. ASSUME NEW kind \in Kind \ {"create", "update"}, NEW confirmed \in BOOLEAN,
               OtherRequest(r, kind, u, confirmed)
        PROVE  RedisInv'
    <2> DEFINE ok == /\ ~IsProtectedUsername(u)
                     /\ kind = "delete" => confirmed
    <2>1. Begin(r, kind, u, BadPrefix, {}, ok)
      BY <1>3 DEF OtherRequest
    <2>2. ok => ~IsProtectedUsername(u)
      OBVIOUS
    <2>3. BadPrefix \in Pattern \cup {BadPrefix} /\ {} \in SUBSET Command /\ ok \in BOOLEAN
      OBVIOUS
    <2> HIDE DEF ok
    <2> QED BY <2>1, <2>2, <2>3, BeginInv
  <1> QED BY <1>1, <1>2, <1>3

-----------------------------------------------------------------------------
(* A step of a request that is under way, seen from two sides: what it     *)
(* does to the request, and what its command, if one runs, does to the     *)
(* server.                                                                 *)

\* Only the progress of the request changes; what it asked for stays.
Progress(r) ==
    /\ rq' \in [Req -> Request]
    /\ \A q \in Req \ {r} : rq'[q] = rq[q]
    /\ rq'[r].kind = rq[r].kind /\ rq'[r].user = rq[r].user
    /\ rq'[r].key = rq[r].key /\ rq'[r].cmds = rq[r].cmds
    /\ rq[r].pc # "idle" /\ rq'[r].pc # "idle"
    /\ rq[r].out # "ok"
    /\ past' = past

LEMMA CallProgress ==
    ASSUME RedisInv, NEW r \in Req, Call(r)
    PROVE  Progress(r) /\ late' \subseteq Req /\ lost' \in 0..MaxLost
  <1> USE RedisAssumption DEF RedisInv, RedisTypeOK
  <1>1. rq[r] \in Request /\ lost \in Nat
    OBVIOUS
  <1>2. rq[r].pc \in {"look", "write", "reread", "audit"} => rq[r].out = "none"
    BY DEF AskInv
  <1>3. ASSUME NEW pc \in PC \ {"idle"}, Goto(r, pc), rq[r].pc # "idle",
               rq[r].out # "ok", past' = past
        PROVE  Progress(r)
    BY <1>1, <1>3 DEF Goto, Progress, Request
  <1>4. ASSUME NEW out \in Answer, End(r, out), rq[r].pc # "idle",
               rq[r].out # "ok", past' = past
        PROVE  Progress(r)
    BY <1>1, <1>4 DEF End, Progress, Request, PC
  <1> USE <1>1, <1>2, <1>3, <1>4 DEF PC, Answer
  <1>5. CASE Look(r)
    BY <1>5 DEF Look
  <1>6. CASE Write(r)
    BY <1>6 DEF Write
  <1>7. CASE GiveUp(r)
    BY <1>7 DEF GiveUp
  <1>8. CASE LateCommand(r)
    BY <1>8 DEF LateCommand, Progress, AskInv
  <1>9. CASE Reread(r)
    BY <1>9 DEF Reread
  <1>10. CASE Record(r)
    BY <1>10 DEF Record
  <1>11. CASE Unavailable(r)
    BY <1>11 DEF Unavailable
  <1>12. ASSUME NEW ran \in BOOLEAN, ConnectionLost(r, ran) PROVE Progress(r) /\ late' \subseteq Req /\ lost' \in 0..MaxLost
    <2>1. lost' \in 0..MaxLost /\ late' \subseteq Req
      BY <1>12 DEF ConnectionLost
    <2>2. CASE rq' = [rq EXCEPT ![r].tries = 1]
      BY <1>12, <2>2 DEF ConnectionLost, Progress, Request
    <2>3. CASE End(r, "unavailable")
      BY <1>12, <2>3 DEF ConnectionLost
    <2> QED BY <1>12, <2>1, <2>2, <2>3 DEF ConnectionLost
  <1> QED BY <1>5, <1>6, <1>7, <1>8, <1>9, <1>10, <1>11, <1>12 DEF Call

\* The request's command runs, or the server is left alone and the request
\* does not become one whose command was answered.
Served(r) ==
    \/ Exec(r) /\ Admitted(r)
    \/ /\ UNCHANGED <<acl, since>>
       /\ Written(r)' => Written(r)

LEMMA CallServed ==
    ASSUME RedisInv, NEW r \in Req, Call(r)
    PROVE  Served(r)
  <1> USE DEF RedisInv, RedisTypeOK
  <1>1. rq[r] \in Request
    OBVIOUS
  <1>2. ASSUME NEW pc, Goto(r, pc) PROVE rq'[r].pc = pc /\ rq'[r].out = rq[r].out
    BY <1>1, <1>2 DEF Goto, Request
  <1>3. ASSUME NEW out, End(r, out) PROVE rq'[r].pc = "done" /\ rq'[r].out = out
    BY <1>1, <1>3 DEF End, Request
  <1> USE <1>1, <1>2, <1>3
  <1>4. CASE Look(r)
    BY <1>4 DEF Look, Served, Written
  <1>5. CASE Write(r)
    BY <1>5 DEF Write, Served, Admitted
  <1>6. CASE GiveUp(r)
    BY <1>6 DEF GiveUp, Served, Written
  <1>7. CASE LateCommand(r)
    BY <1>7 DEF LateCommand, Served, Admitted
  <1>8. CASE Reread(r)
    BY <1>8 DEF Reread, Served, Written
  <1>9. CASE Record(r)
    BY <1>9 DEF Record, Served, Written
  <1>10. CASE Unavailable(r)
    BY <1>10 DEF Unavailable, Served, Written
  <1>11. ASSUME NEW ran \in BOOLEAN, ConnectionLost(r, ran) PROVE Served(r)
    <2>1. CASE ran
      BY <1>11, <2>1 DEF ConnectionLost, Served, Admitted
    <2>2. CASE ~ran
      <3>1. CASE rq' = [rq EXCEPT ![r].tries = 1]
        BY <1>11, <2>2, <3>1 DEF ConnectionLost, Served, Written, Request
      <3>2. CASE End(r, "unavailable")
        BY <1>11, <2>2, <3>2 DEF ConnectionLost, Served, Written
      <3> QED BY <1>11, <3>1, <3>2 DEF ConnectionLost
    <2> QED BY <2>1, <2>2
  <1> QED BY <1>4, <1>5, <1>6, <1>7, <1>8, <1>9, <1>10, <1>11 DEF Call

\* A request that is past its checks stays the request that passed them, and
\* a command on its way belongs to a request that was answered 503.
LEMMA CallAsk ==
    ASSUME RedisInv, NEW r \in Req, Call(r)
    PROVE  AskInv'
  <1> USE DEF RedisInv, RedisTypeOK
  <1>1. rq[r] \in Request /\ Progress(r)
    BY CallProgress
  <1>2. ASSUME NEW pc, Goto(r, pc) PROVE rq'[r].pc = pc /\ rq'[r].out = rq[r].out
    BY <1>1, <1>2 DEF Goto, Request
  <1>3. ASSUME NEW out, End(r, out) PROVE rq'[r].pc = "done" /\ rq'[r].out = out
    BY <1>1, <1>3 DEF End, Request
  <1> DEFINE Next1 == /\ Admitted(r)' => Admitted(r)
                      /\ rq'[r].pc # "done" => rq'[r].out = "none"
                      /\ r \in late' => rq'[r].pc = "done" /\ rq'[r].out = "unavailable"
                      /\ late' \ {r} = late \ {r}
  <1>4. Next1
    <2> USE <1>1, <1>2, <1>3 DEF AskInv, Admitted
    <2>1. CASE Look(r)
      BY <2>1 DEF Look
    <2>2. CASE Write(r)
      BY <2>2 DEF Write
    <2>3. CASE GiveUp(r)
      BY <2>3 DEF GiveUp
    <2>4. CASE LateCommand(r)
      BY <2>4 DEF LateCommand
    <2>5. CASE Reread(r)
      BY <2>5 DEF Reread
    <2>6. CASE Record(r)
      BY <2>6 DEF Record
    <2>7. CASE Unavailable(r)
      BY <2>7 DEF Unavailable
    <2>8. ASSUME NEW ran \in BOOLEAN, ConnectionLost(r, ran) PROVE Next1
      <3>1. CASE rq' = [rq EXCEPT ![r].tries = 1]
        BY <2>8, <3>1 DEF ConnectionLost, Request
      <3>2. CASE End(r, "unavailable")
        BY <2>8, <3>2 DEF ConnectionLost
      <3> QED BY <2>8, <3>1, <3>2 DEF ConnectionLost
    <2> QED BY <2>1, <2>2, <2>3, <2>4, <2>5, <2>6, <2>7, <2>8 DEF Call
  <1>5. \A q \in Req \ {r} : rq'[q] = rq[q] /\ (q \in late' <=> q \in late)
    BY <1>1, <1>4 DEF Progress
  <1> QED BY <1>1, <1>4, <1>5 DEF AskInv, Admitted, Progress, IsProtectedUsername

\* What a command leaves in the entry of its user and in no other.
Outcome(r) ==
    LET u == rq[r].user
        o == Current(u)
        n == acl'[u]
    IN  \/ /\ rq[r].kind = "delete"
           /\ n = NoUser /\ since'[u] = {}
        \/ /\ rq[r].kind # "delete"
           /\ n \in Entry /\ n # NoUser /\ o \in Entry
           /\ since'[u] \ {"handmade"} = (since[u] \ {"handmade"}) \cup {rq[r].kind}
           /\ n.selectors => rq[r].kind # "create" /\ o.selectors /\ since[u] \subseteq since'[u]
           /\ n.pw = IF rq[r].kind \in {"create", "rotate"} THEN {r} ELSE o.pw
           /\ IF rq[r].kind \in {"create", "update"}
              THEN n.keys = {rq[r].key} /\ n.cmds = rq[r].cmds /\ ~n.wide
              ELSE n.keys = o.keys /\ n.cmds = o.cmds /\ n.wide = o.wide
           /\ rq[r].kind \notin {"create", "enable"} /\ n.on => o.on

\* No entry looks like an absent name: records with different fields.
LEMMA EntryIsUser == \A e \in Entry : e # NoUser
  BY DEF Entry, NoUser

LEMMA ExecOutcome ==
    ASSUME RedisInv, NEW r \in Req, Exec(r), Admitted(r)
    PROVE  /\ Outcome(r)
           /\ acl' \in [User -> Entry \cup {NoUser}]
           /\ since' \in [User -> SUBSET (Kind \cup {"handmade"})]
           /\ \A v \in User \ {rq[r].user} : acl'[v] = acl[v] /\ since'[v] = since[v]
  <1> USE DEF RedisInv, RedisTypeOK
  <1> DEFINE u == rq[r].user
             o == Current(u)
  <1>1. rq[r] \in Request /\ u \in User /\ rq[r].kind \in Kind /\ rq[r].cmds \subseteq Command
    BY DEF Request
  <1>2. o \in Entry
    BY <1>1 DEF Current, Exists, Blank, Entry
  <1>3. CASE rq[r].kind = "delete"
    BY <1>1, <1>3 DEF Exec, Outcome
  <1>4. CASE rq[r].kind # "delete"
    <2> DEFINE n == SetUser(r)
    <2>1. /\ acl' = [acl EXCEPT ![u] = n]
          /\ since' = [since EXCEPT ![u] =
                (IF rq[r].kind = "create" THEN @ \ {"handmade"} ELSE @) \cup {rq[r].kind}]
      BY <1>4 DEF Exec
    <2>6. /\ since'[u] \ {"handmade"} = (since[u] \ {"handmade"}) \cup {rq[r].kind}
          /\ rq[r].kind # "create" => since[u] \subseteq since'[u]
          /\ since' \in [User -> SUBSET (Kind \cup {"handmade"})]
      BY <1>1, <2>1 DEF Kind
    <2>2. CASE rq[r].kind = "create"
      <3>1. n = buildCreateACLRules(r, rq[r].key, rq[r].cmds)
        BY <2>2 DEF SetUser
      <3>2. rq[r].key \in Pattern
        BY <2>2 DEF AskInv
      <3>3. n \in Entry
        BY <1>1, <3>1, <3>2 DEF buildCreateACLRules, Entry
      <3>4. acl'[u] = n
        BY <1>1, <2>1
      <3>5. /\ n.pw = {r} /\ n.keys = {rq[r].key} /\ n.cmds = rq[r].cmds /\ ~n.wide
            /\ ~n.selectors
        BY <3>1 DEF buildCreateACLRules
      <3> HIDE DEF n
      <3> QED BY <1>1, <1>2, <2>1, <2>2, <2>6, <3>3, <3>4, <3>5, EntryIsUser DEF Outcome
    <2>3. CASE rq[r].kind = "update"
      <3>1. n = buildUpdateACLRules(o, rq[r].key, rq[r].cmds)
        BY <2>3 DEF SetUser
      <3>2. rq[r].key \in Pattern
        BY <2>3 DEF AskInv
      <3> HIDE DEF o
      <3>3. n \in Entry
        BY <1>1, <1>2, <3>1, <3>2 DEF buildUpdateACLRules, Entry
      <3>4. acl'[u] = n
        BY <1>1, <2>1
      <3>5. /\ n.pw = o.pw /\ n.keys = {rq[r].key} /\ n.cmds = rq[r].cmds
            /\ ~n.wide /\ n.on = o.on /\ n.selectors = o.selectors
        BY <1>2, <3>1 DEF buildUpdateACLRules, Entry
      <3> HIDE DEF n
      <3> QED BY <1>1, <1>2, <2>1, <2>3, <2>6, <3>3, <3>4, <3>5, EntryIsUser DEF Outcome, o
    <2>4. CASE rq[r].kind = "rotate"
      <3>1. n = RotateUser(o, r)
        BY <2>4 DEF SetUser
      <3> HIDE DEF o
      <3>3. n \in Entry
        BY <1>1, <1>2, <3>1 DEF RotateUser, Entry
      <3>4. acl'[u] = n
        BY <1>1, <2>1
      <3>5. /\ n.pw = {r} /\ n.keys = o.keys /\ n.cmds = o.cmds
            /\ n.wide = o.wide /\ n.on = o.on /\ n.selectors = o.selectors
        BY <1>2, <3>1 DEF RotateUser, Entry
      <3> HIDE DEF n
      <3> QED BY <1>1, <1>2, <2>1, <2>4, <2>6, <3>3, <3>4, <3>5, EntryIsUser DEF Outcome, o
    <2>5. CASE rq[r].kind \in {"enable", "disable"}
      <3>1. n = SetEnabled(o, rq[r].kind)
        BY <2>5 DEF SetUser
      <3> HIDE DEF o
      <3>3. n \in Entry
        BY <1>1, <1>2, <3>1 DEF SetEnabled, Entry
      <3>4. acl'[u] = n
        BY <1>1, <2>1
      <3>5. /\ n.pw = o.pw /\ n.keys = o.keys /\ n.cmds = o.cmds /\ n.wide = o.wide
            /\ n.selectors = o.selectors
            /\ n.on <=> rq[r].kind = "enable"
        BY <1>2, <3>1 DEF SetEnabled, Entry
      <3> HIDE DEF n
      <3> QED BY <1>1, <1>2, <2>1, <2>5, <2>6, <3>3, <3>4, <3>5, EntryIsUser DEF Outcome, o
    <2> QED BY <1>1, <1>4, <2>2, <2>3, <2>4, <2>5 DEF Kind
  <1> QED BY <1>3, <1>4

\* A step that runs no command.
LEMMA QuietInv ==
    ASSUME RedisInv, NEW r \in Req, Call(r),
           UNCHANGED <<acl, since>>, Written(r)' => Written(r)
    PROVE  RedisTypeOK' /\ GrantInv' /\ SelectorInv' /\ GhostInv' /\ RetireInv'
  <1> USE DEF RedisInv
  <1>1. Progress(r) /\ late' \subseteq Req /\ lost' \in 0..MaxLost
    BY CallProgress
  <1>2. RedisTypeOK'
    BY <1>1 DEF RedisTypeOK, Progress
  <1>3. GrantInv'
    BY <1>1 DEF GrantInv, Progress
  <1>4. GhostInv' /\ SelectorInv'
    BY DEF GhostInv, SelectorInv, Exists
  <1>5. \A q \in Req : \A p \in past'[q] : p = "old" \/ (p \in Req /\ rq'[p].out = "ok")
    BY <1>1 DEF RetireInv, Progress
  <1>6. \A q \in Req : Written(q)' => Written(q)
    BY <1>1 DEF Progress, Written
  <1>7. \A q \in Req : rq'[q].kind = rq[q].kind /\ rq'[q].user = rq[q].user
    BY <1>1 DEF Progress
  <1>8. RetireInv'
    BY <1>1, <1>5, <1>6, <1>7 DEF RetireInv, Exists, Progress
  <1> QED BY <1>2, <1>3, <1>4, <1>8

\* The grants of an entry are one request's, or are kept from the entry, or
\* are those of a user that may do nothing.
LEMMA ExecGrant ==
    ASSUME RedisInv, NEW r \in Req, Progress(r), Exec(r), Admitted(r)
    PROVE  GrantInv'
  <1> USE DEF RedisInv
  <1> DEFINE u == rq[r].user
  <1>1. /\ Outcome(r)
        /\ \A v \in User \ {u} : acl'[v] = acl[v]
    BY ExecOutcome
  <1>2. u \in User
    BY DEF RedisTypeOK, Request
  <1> DEFINE Whole(v) ==
        \/ acl'[v] = NoUser
        \/ acl'[v].wide /\ acl'[v].keys = Handmade.keys /\ acl'[v].cmds = Handmade.cmds
        \/ acl'[v].keys = {} /\ acl'[v].cmds = {} /\ ~acl'[v].wide
        \/ /\ ~acl'[v].wide
           /\ acl'[v].cmds \subseteq AllowedCommands
           /\ \E q \in Req : /\ rq'[q].pc # "idle" /\ rq'[q].user = v
                             /\ acl'[v].keys = {rq'[q].key} /\ acl'[v].cmds = rq'[q].cmds
  <1>3. \A q \in Req : rq[q].pc # "idle" =>
            rq'[q].pc # "idle" /\ rq'[q].user = rq[q].user
            /\ rq'[q].key = rq[q].key /\ rq'[q].cmds = rq[q].cmds
    BY DEF Progress
  <1>4. \A v \in User \ {u} : Whole(v)
    BY <1>1, <1>3 DEF GrantInv
  <1>5. CASE rq[r].kind \in {"create", "update"}
    <2>1. rq[r].cmds \subseteq AllowedCommands
      BY <1>5 DEF AskInv
    <2>2. acl'[u].keys = {rq[r].key} /\ acl'[u].cmds = rq[r].cmds /\ ~acl'[u].wide
      BY <1>1, <1>5 DEF Outcome
    <2>3. Whole(u)
      BY <2>1, <2>2 DEF Progress
    <2> QED BY <1>4, <2>3 DEF GrantInv
  <1>6. CASE rq[r].kind = "delete"
    BY <1>1, <1>4, <1>6 DEF Outcome, GrantInv
  <1>7. CASE rq[r].kind \notin {"create", "update", "delete"}
    <2>1. /\ acl'[u].keys = Current(u).keys /\ acl'[u].cmds = Current(u).cmds
          /\ acl'[u].wide = Current(u).wide
      BY <1>1, <1>7 DEF Outcome
    <2>2. CASE Exists(u)
      <3>1. Current(u) = acl[u] /\ acl[u] # NoUser
        BY <2>2 DEF Current, Exists
      <3>2. Whole(u)
        BY <1>2, <1>3, <2>1, <3>1 DEF GrantInv
      <3> QED BY <1>4, <3>2 DEF GrantInv
    <2>3. CASE ~Exists(u)
      <3>1. Whole(u)
        BY <2>1, <2>3 DEF Current, Blank
      <3> QED BY <1>4, <3>1 DEF GrantInv
    <2> QED BY <2>2, <2>3
  <1> QED BY <1>5, <1>6, <1>7

\* A command leaves selectors only where they were, and drops nothing from
\* the history then.
LEMMA ExecSelector ==
    ASSUME RedisInv, NEW r \in Req, Exec(r), Admitted(r)
    PROVE  SelectorInv'
  <1> USE DEF RedisInv
  <1> DEFINE u == rq[r].user
  <1>1. /\ Outcome(r)
        /\ \A v \in User \ {u} : acl'[v] = acl[v] /\ since'[v] = since[v]
    BY ExecOutcome
  <1>2. u \in User
    BY DEF RedisTypeOK, Request
  <1> SUFFICES ASSUME acl'[u] # NoUser, acl'[u].selectors
               PROVE  {"handmade", "create"} \subseteq since'[u]
    BY <1>1 DEF SelectorInv, Exists
  <1>3. Current(u).selectors /\ since[u] \subseteq since'[u]
    BY <1>1 DEF Outcome
  <1>4. Exists(u) /\ acl[u].selectors
    BY <1>3 DEF Current, Blank
  <1> QED BY <1>2, <1>3, <1>4 DEF SelectorInv

\* What is set on a user whom no create made was set by the request of that
\* kind, which the history now holds.
LEMMA ExecGhost ==
    ASSUME RedisInv, NEW r \in Req, Exec(r), Admitted(r)
    PROVE  GhostInv'
  <1> USE DEF RedisInv
  <1> DEFINE u == rq[r].user
  <1>1. /\ Outcome(r)
        /\ \A v \in User \ {u} : acl'[v] = acl[v] /\ since'[v] = since[v]
    BY ExecOutcome
  <1>2. u \in User /\ rq[r].kind \in Kind
    BY DEF RedisTypeOK, Request
  <1> SUFFICES ASSUME acl'[u] # NoUser, "create" \notin since'[u]
               PROVE  /\ acl'[u].on => "enable" \in since'[u]
                      /\ acl'[u].pw # {} => "rotate" \in since'[u]
                      /\ acl'[u].cmds # {} => "update" \in since'[u]
    BY <1>1 DEF GhostInv, Exists
  <1>3. /\ rq[r].kind \notin {"create", "delete"}
        /\ since'[u] \ {"handmade"} = (since[u] \ {"handmade"}) \cup {rq[r].kind}
    BY <1>1 DEF Outcome
  <1>4. /\ Current(u).on => "enable" \in since[u]
        /\ Current(u).pw # {} => "rotate" \in since[u]
        /\ Current(u).cmds # {} => "update" \in since[u]
    BY <1>2, <1>3 DEF GhostInv, Current, Blank
  <1>5. /\ acl'[u].on => rq[r].kind = "enable" \/ Current(u).on
        /\ acl'[u].pw # {} => rq[r].kind = "rotate" \/ Current(u).pw # {}
        /\ acl'[u].cmds # {} => rq[r].kind = "update" \/ Current(u).cmds # {}
    BY <1>1, <1>3 DEF Outcome
  <1> QED BY <1>3, <1>4, <1>5

\* A command writes its own request's password or keeps the one that is
\* there; its request is not answered yet, so it is on nobody's list.
LEMMA ExecRetire ==
    ASSUME RedisInv, NEW r \in Req, Progress(r), Exec(r), Admitted(r)
    PROVE  RetireInv'
  <1> USE DEF RedisInv
  <1> DEFINE u == rq[r].user
  <1>1. /\ Outcome(r)
        /\ \A v \in User \ {u} : acl'[v] = acl[v]
    BY ExecOutcome
  <1>2. u \in User /\ rq[r].kind \in Kind
    BY DEF RedisTypeOK, Request
  <1>3. \A q \in Req : \A p \in past[q] : p = "old" \/ (p \in Req /\ p # r /\ rq'[p].out = "ok")
    BY DEF RetireInv, Progress
  <1>4. \A q \in Req : r \notin past[q]
    BY <1>3, RedisAssumption
  <1>5. \A q \in Req : /\ rq'[q].kind = rq[q].kind /\ rq'[q].user = rq[q].user
                       /\ q # r => (Written(q)' => Written(q))
    BY DEF Progress, Written
  <1> SUFFICES ASSUME NEW q \in Req, Written(q)', acl'[rq[q].user] # NoUser,
                      rq[q].kind \in {"create", "rotate", "delete"}
               PROVE  acl'[rq[q].user].pw \cap past[q] = {}
    BY <1>3, <1>5 DEF RetireInv, Progress, Exists
  <1>6. CASE rq[q].user # u
    <2>1. q # r /\ Written(q) /\ rq[q].user \in User
      BY <1>5, <1>6 DEF RedisTypeOK, Request
    <2>2. acl'[rq[q].user] = acl[rq[q].user]
      BY <1>1, <1>6, <2>1
    <2> QED BY <1>5, <2>1, <2>2 DEF RetireInv, Exists
  <1>7. CASE rq[q].user = u
    <2>1. rq[r].kind # "delete"
      BY <1>1, <1>7 DEF Outcome
    <2>2. CASE rq[r].kind \in {"create", "rotate"}
      BY <1>1, <1>4, <1>7, <2>2 DEF Outcome
    <2>3. CASE rq[r].kind \notin {"create", "rotate"}
      <3>1. q # r /\ Written(q)
        BY <1>5, <2>1, <2>3
      <3>2. acl'[u].pw = Current(u).pw
        BY <1>1, <2>1, <2>3 DEF Outcome
      <3>3. CASE Exists(u)
        BY <1>7, <3>1, <3>2, <3>3 DEF RetireInv, Current
      <3>4. CASE ~Exists(u)
        BY <1>7, <3>2, <3>4 DEF Current, Blank
      <3> QED BY <3>3, <3>4
    <2> QED BY <2>2, <2>3
  <1> QED BY <1>6, <1>7

LEMMA CallInv ==
    ASSUME RedisInv, NEW r \in Req, Call(r)
    PROVE  RedisInv'
  <1>1. Progress(r) /\ late' \subseteq Req /\ lost' \in 0..MaxLost
    BY CallProgress
  <1>2. AskInv'
    BY CallAsk
  <1>3. CASE Exec(r) /\ Admitted(r)
    <2>1. GrantInv' /\ SelectorInv' /\ GhostInv' /\ RetireInv'
      BY <1>1, <1>3, ExecGrant, ExecSelector, ExecGhost, ExecRetire
    <2>2. RedisTypeOK'
      BY <1>1, <1>3, ExecOutcome DEF RedisInv, RedisTypeOK, Progress
    <2> QED BY <1>2, <2>1, <2>2 DEF RedisInv
  <1>4. CASE UNCHANGED <<acl, since>> /\ (Written(r)' => Written(r))
    BY <1>2, <1>4, QuietInv DEF RedisInv
  <1> QED BY <1>3, <1>4, CallServed DEF Served

LEMMA StutterInv == RedisInv /\ UNCHANGED redisVars => RedisInv'
  BY DEF RedisInv, redisVars, RedisTypeOK, AskInv, Admitted, GrantInv, SelectorInv, GhostInv,
         RetireInv,         Written, Exists, IsProtectedUsername

-----------------------------------------------------------------------------
(* The theorems.                                                           *)

\* RedisInv holds in every reachable state of the users and their requests.
THEOREM RedisInvariant == RedisSpec => []RedisInv
  <1>1. ASSUME RedisInv, [RedisNext]_redisVars PROVE RedisInv'
    BY <1>1, StartInv, CallInv, StutterInv DEF RedisNext
  <1> QED BY InitInv, <1>1, PTL DEF RedisSpec

\* The server's entries and the requests keep their types, whatever commands
\* are repeated, lost or late (service.go, the calls to ACL SETUSER/DELUSER).
THEOREM RedisTypeCorrect == RedisSpec => []RedisTypeOK
  BY RedisInvariant, PTL DEF RedisInv

\* A password that a later successful create, rotation or deletion retired
\* never works again (service.go RotateUser, DeleteUser, CreateUser).
THEOREM RetiredStaysDead == RedisSpec => []RetiredPasswordStaysDead
  <1>1. RedisInv => RetiredPasswordStaysDead
    BY DEF RedisInv, RetireInv, RetiredPasswordStaysDead, Written
  <1> QED BY <1>1, RedisInvariant, PTL

\* A user revived by SETUSER can do something only after an update, an enable
\* and a rotation all revived it (service.go SetEnabled, RotateUser).
THEOREM GhostsArePowerless == RedisSpec => []GhostIsPowerless
  <1>1. RedisInv => GhostIsPowerless
    BY DEF RedisInv, GhostInv, SelectorInv, GhostIsPowerless, Usable, Exists
  <1> QED BY <1>1, RedisInvariant, PTL

\* A managed user's root keys and commands are those of one request, within
\* the allow-list, and selectors are only ever left from outside Redgres, on
\* a user that was neither deleted nor created since (service.go
\* buildUpdateACLRules, buildCreateACLRules, presets.go).
THEOREM GrantsAreWhole == RedisSpec => []GrantsWhole
  <1>1. RedisInv => GrantsWhole
    BY DEF RedisInv, GrantInv, SelectorInv, GrantsWhole, Exists
  <1> QED BY <1>1, RedisInvariant, PTL

\* No step, a repeated or late command included, changes a protected name
\* (acl.go IsProtectedUsername).
THEOREM SystemUsersSafe == RedisSpec => SystemUsersUntouched
  <1> DEFINE Kept == \A u \in User : Fold[u] \in Reserved \cup {Fold[AdminUser]}
                                       => acl'[u] = acl[u]
  <1>1. ASSUME RedisInv, NEW r \in Req, Start(r) PROVE Kept
    BY <1>1 DEF Start, CreateUser, UpdatePermissions, OtherRequest, Begin
  <1>2. ASSUME RedisInv, NEW r \in Req, Call(r) PROVE Kept
    <2>1. CASE Exec(r) /\ Admitted(r)
      <3>1. ~IsProtectedUsername(rq[r].user)
        BY <1>2, <2>1 DEF RedisInv, AskInv
      <3>2. \A v \in User \ {rq[r].user} : acl'[v] = acl[v]
        BY <1>2, <2>1, ExecOutcome
      <3> QED BY <3>1, <3>2 DEF IsProtectedUsername
    <2>2. CASE UNCHANGED <<acl, since>>
      BY <2>2
    <2> QED BY <1>2, <2>1, <2>2, CallServed DEF Served
  <1>3. RedisInv /\ [RedisNext]_redisVars => [Kept]_redisVars
    BY <1>1, <1>2 DEF RedisNext, redisVars
  <1> QED BY <1>3, RedisInvariant, PTL DEF RedisSpec, SystemUsersUntouched
=============================================================================

----------------------------- MODULE RedisUsers -----------------------------
(***************************************************************************)
(* The Redis ACL users that Redgres manages: the service calls of          *)
(* redisadmin (create, update, enable, disable, rotate, delete), the HTTP  *)
(* handlers around them, and the ACL of the Redis server they write.       *)
(*                                                                         *)
(* Nothing serialises two requests.  Each one looks at ACL LIST and later  *)
(* sends one ACL SETUSER or ACL DELUSER; SETUSER creates a user that is    *)
(* not there.  The client library repeats a command once after a broken    *)
(* connection, and a command of a request that has given up may still      *)
(* reach the server.                                                       *)
(*                                                                         *)
(* A request generates at most one password, so the request's name stands  *)
(* for its password; "old" is the password of a user made outside Redgres. *)
(***************************************************************************)
EXTENDS Naturals, FiniteSets

CONSTANTS Req,            \* requests
          User,           \* Redis user names
          Fold,           \* the lower-case spelling of each name
          WellFormed,     \* the names ValidateUsername accepts
          Reserved,       \* "default", "admin", "redact_admin"
          AdminUser,      \* the name Redgres itself logs in with
          Pattern,        \* what NormalizePrefix returns
          BadPrefix,      \* an input NormalizePrefix refuses
          Command,        \* Redis commands
          PresetCommands, \* the commands of each named preset and queue kind
          DefaultPreset,  \* "cache-read-write"
          MaxLost         \* bound: connections that break

NamedPreset == DOMAIN PresetCommands
AllowedCommands == UNION {PresetCommands[p] : p \in NamedPreset}

ASSUME RedisAssumption ==
    /\ "old" \notin Req
    /\ Reserved \subseteq User /\ WellFormed \subseteq User
    /\ AdminUser \in User
    /\ Fold \in [User -> User]
    /\ BadPrefix \notin Pattern
    /\ \A p \in NamedPreset :
          PresetCommands[p] \subseteq Command /\ PresetCommands[p] # {}
    /\ \A p, q \in NamedPreset :
          PresetCommands[p] = PresetCommands[q] => p = q
    /\ "custom" \notin NamedPreset /\ "none" \notin NamedPreset
    /\ DefaultPreset \in NamedPreset
    /\ MaxLost \in Nat

Kind == {"create", "update", "enable", "disable", "rotate", "delete"}

VARIABLES acl,    \* what the Redis server holds for each name
          rq,     \* the requests
          late,   \* requests that gave up with a command still on its way
          lost,   \* connections that broke so far
          since,  \* history: what ran on a name since it was last deleted,
                  \* and "handmade" until a deletion or a creation
          past    \* history: the passwords retired before a request began

redisVars == <<acl, rq, late, lost, since, past>>

-----------------------------------------------------------------------------
(* The server.  A name is absent or has an entry; ACL SETUSER starts from  *)
(* the entry or, when there is none, from a user that is off and may do    *)
(* nothing.                                                                *)

\* The root grants of an entry are its keys, its commands and whether it has
\* channels or categories besides (wide); selectors are grants beside the root.
Blank    == [on |-> FALSE, pw |-> {}, keys |-> {}, cmds |-> {}, wide |-> FALSE,
             selectors |-> FALSE]
Entry    == [on : BOOLEAN, pw : SUBSET (Req \cup {"old"}),
             keys : SUBSET Pattern, cmds : SUBSET Command, wide : BOOLEAN,
             selectors : BOOLEAN]
\* A user made outside Redgres: every key, channel and category, and a selector.
Handmade == [on |-> TRUE, pw |-> {"old"}, keys |-> Pattern,
             cmds |-> Command, wide |-> TRUE, selectors |-> TRUE]
NoUser   == [absent |-> TRUE]
Exists(u) == acl[u] # NoUser
Current(u) == IF Exists(u) THEN acl[u] ELSE Blank

\* A login with a password succeeds and can run something on some key.
Usable(e) == /\ e # NoUser
             /\ e.on /\ e.pw # {}
             /\ e.selectors \/ (e.keys # {} /\ e.cmds # {})

\* "reset" clears everything first, the selectors too.
buildCreateACLRules(r, key, cmds) ==
    [on |-> TRUE, pw |-> {r}, keys |-> {key}, cmds |-> cmds, wide |-> FALSE,
     selectors |-> FALSE]

\* Mutant: the rules an update would send without "resetkeys".
UpdateKeepsKeys(e, key, cmds) ==
    [e EXCEPT !.keys = @ \cup {key}, !.cmds = cmds, !.wide = FALSE]

\* The rules replace the root grants.  There is no "clearselectors" among
\* them: the selectors of a user made outside Redgres stay.
buildUpdateACLRules(e, key, cmds) ==
    [e EXCEPT !.keys = {key}, !.cmds = cmds, !.wide = FALSE]

\* Mutants: ">password" without "resetpass", and "resetpass" with "on".
RotateKeepsOld(e, r) == [e EXCEPT !.pw = @ \cup {r}]
RotateTurnsOn(e, r)  == [e EXCEPT !.pw = {r}, !.on = TRUE]

\* "resetpass" and the new password.
RotateUser(e, r) == [e EXCEPT !.pw = {r}]

\* "on" or "off" alone.
SetEnabled(e, kind) == [e EXCEPT !.on = (kind = "enable")]

\* ACL SETUSER with the rules that request r's kind builds.
SetUser(r) ==
    LET q == rq[r]
        e == Current(q.user)
    IN  CASE q.kind = "create" -> buildCreateACLRules(r, q.key, q.cmds)
          [] q.kind = "update" -> buildUpdateACLRules(e, q.key, q.cmds)
          [] q.kind = "rotate" -> RotateUser(e, r)
          [] OTHER             -> SetEnabled(e, q.kind)

\* The server runs r's command.
Exec(r) ==
    LET u == rq[r].user
    IN  IF rq[r].kind = "delete"
        THEN /\ acl' = [acl EXCEPT ![u] = NoUser]
             /\ since' = [since EXCEPT ![u] = {}]
        ELSE /\ acl' = [acl EXCEPT ![u] = SetUser(r)]
             /\ since' = [since EXCEPT ![u] =
                            (IF rq[r].kind = "create" THEN @ \ {"handmade"} ELSE @)
                               \cup {rq[r].kind}]

-----------------------------------------------------------------------------
(* What a request may ask for.                                             *)

\* Mutant: the administrator's name compared without folding its case.
ProtectedExact(u) == Fold[u] \in Reserved \/ u = AdminUser

IsProtectedUsername(u) == Fold[u] \in Reserved \cup {Fold[AdminUser]}

\* Mutant: the wildcard characters are not looked for.
PrefixUnchecked(prefix) == prefix \in Pattern \cup {BadPrefix}

NormalizePrefix(prefix) == prefix \in Pattern

resolveCustomCommands(cmds) == IF cmds \subseteq AllowedCommands THEN cmds ELSE {}

\* The commands granted; none when the request is refused.  The empty preset
\* is the default one on create and an error on update.
resolveGrants(kind, preset, cmds) ==
    CASE preset = "custom" -> resolveCustomCommands(cmds)
      [] cmds # {}         -> {}
      [] preset = "none"   -> IF kind = "create" THEN PresetCommands[DefaultPreset] ELSE {}
      [] OTHER             -> PresetCommands[preset]

-----------------------------------------------------------------------------
(* Requests.  "look" is about to read ACL LIST, "write" about to send its  *)
(* one command, "reread" about to read ACL LIST again, "audit" about to    *)
(* record its success.                                                     *)

PC      == {"idle", "look", "write", "reread", "audit", "done"}
Answer  == {"none", "ok", "refused", "unavailable"}
Request == [pc : PC, kind : Kind, user : User, key : Pattern \cup {BadPrefix},
            cmds : SUBSET Command, tries : 0..1, out : Answer]

\* The passwords that a successful answer handed out for u.
Handed(u) == {r \in Req : /\ rq[r].user = u /\ rq[r].out = "ok"
                          /\ rq[r].kind \in {"create", "rotate"}}

Goto(r, pc) == rq' = [rq EXCEPT ![r].pc = pc]
End(r, out) == rq' = [rq EXCEPT ![r].pc = "done", ![r].out = out]

\* Validation, grants and the protected names, before Redis is asked.
Begin(r, kind, u, key, cmds, ok) ==
    /\ rq[r].pc = "idle"
    /\ IF ok
       THEN /\ rq' = [rq EXCEPT ![r] =
                        [pc |-> "look", kind |-> kind, user |-> u, key |-> key,
                         cmds |-> cmds, tries |-> 0, out |-> "none"]]
            /\ past' = [past EXCEPT ![r] = Handed(u) \cup {"old"}]
       ELSE End(r, "refused") /\ UNCHANGED past
    /\ UNCHANGED <<acl, late, lost, since>>

CreateUser(r, u, key, preset, cmds) ==
    LET grant == resolveGrants("create", preset, cmds)
    IN  Begin(r, "create", u, key, grant,
              /\ u \in WellFormed /\ NormalizePrefix(key)
              /\ grant # {} /\ ~IsProtectedUsername(u))

\* NormalizePrefix runs after the first look and only turns a success into a
\* refusal: the request is refused here already.
UpdatePermissions(r, u, key, preset, cmds) ==
    LET grant == resolveGrants("update", preset, cmds)
    IN  Begin(r, "update", u, key, grant,
              NormalizePrefix(key) /\ grant # {} /\ ~IsProtectedUsername(u))

\* Delete also needs the typed name and the owner's password: confirmed.
\* The keys and commands of these requests are not used.
OtherRequest(r, kind, u, confirmed) ==
    Begin(r, kind, u, BadPrefix, {},
          /\ ~IsProtectedUsername(u)
          /\ kind = "delete" => confirmed)

\* The first ACL LIST: create wants the name free, the others want it there.
Look(r) ==
    /\ rq[r].pc = "look"
    /\ IF Exists(rq[r].user) = (rq[r].kind # "create")
       THEN Goto(r, "write") ELSE End(r, "refused")
    /\ UNCHANGED <<acl, late, lost, since, past>>

\* The command runs and its answer arrives.  Create and delete are ready to
\* audit, unless DELUSER found nobody; the others read the user again.
Write(r) ==
    /\ rq[r].pc = "write"
    /\ Exec(r)
    /\ IF rq[r].kind = "delete" /\ ~Exists(rq[r].user) THEN End(r, "refused")
       ELSE Goto(r, IF rq[r].kind \in {"create", "delete"} THEN "audit" ELSE "reread")
    /\ UNCHANGED <<late, lost, past>>

\* The connection breaks after the command ran (ran) or before it: the client
\* library tries once more (MaxRetries = 1), then the request fails.
ConnectionLost(r, ran) ==
    /\ rq[r].pc = "write" /\ lost < MaxLost
    /\ lost' = lost + 1
    /\ IF ran THEN Exec(r) ELSE UNCHANGED <<acl, since>>
    /\ IF rq[r].tries = 0 THEN rq' = [rq EXCEPT ![r].tries = 1]
       ELSE End(r, "unavailable")
    /\ UNCHANGED <<late, past>>

\* The request gives up on an answer while its command is still on its way.
GiveUp(r) ==
    /\ rq[r].pc = "write" /\ lost < MaxLost
    /\ lost' = lost + 1
    /\ late' = late \cup {r}
    /\ End(r, "unavailable")
    /\ UNCHANGED <<acl, since, past>>

\* That command reaches the server.
LateCommand(r) ==
    /\ r \in late
    /\ late' = late \ {r}
    /\ Exec(r)
    /\ UNCHANGED <<rq, lost, past>>

Reread(r) ==
    /\ rq[r].pc = "reread"
    /\ IF Exists(rq[r].user) THEN Goto(r, "audit") ELSE End(r, "refused")
    /\ UNCHANGED <<acl, late, lost, since, past>>

\* The success is recorded and the answer, with its password, sent.
Record(r) ==
    /\ rq[r].pc = "audit"
    /\ End(r, "ok")
    /\ UNCHANGED <<acl, late, lost, since, past>>

\* ACL LIST or the audit fails: 503, and what was written stays.
Unavailable(r) ==
    /\ rq[r].pc \in {"look", "reread", "audit"}
    /\ End(r, "unavailable")
    /\ UNCHANGED <<acl, late, lost, since, past>>

RedisInit ==
    /\ acl \in [User -> {NoUser, Handmade}]
    /\ \A u \in User : IsProtectedUsername(u) => acl[u] = Handmade
    /\ rq = [r \in Req |-> [pc |-> "idle", kind |-> "create", user |-> AdminUser,
                            key |-> BadPrefix, cmds |-> {}, tries |-> 0, out |-> "none"]]
    /\ late = {} /\ lost = 0
    /\ since = [u \in User |-> IF Exists(u) THEN Kind \cup {"handmade"} ELSE {}]
    /\ past = [r \in Req |-> {}]

Start(r) ==
    \E u \in User :
       \/ \E key \in Pattern \cup {BadPrefix}, cmds \in SUBSET Command,
             preset \in NamedPreset \cup {"custom", "none"} :
             \/ CreateUser(r, u, key, preset, cmds)
             \/ UpdatePermissions(r, u, key, preset, cmds)
       \/ \E kind \in Kind \ {"create", "update"}, confirmed \in BOOLEAN :
             OtherRequest(r, kind, u, confirmed)

Call(r) == \/ Look(r) \/ Write(r) \/ GiveUp(r) \/ LateCommand(r)
           \/ Reread(r) \/ Record(r) \/ Unavailable(r)
           \/ \E ran \in BOOLEAN : ConnectionLost(r, ran)

RedisNext == \E r \in Req : Start(r) \/ Call(r)

RedisSpec == RedisInit /\ [][RedisNext]_redisVars

-----------------------------------------------------------------------------
(* Properties.                                                             *)

RedisTypeOK ==
    /\ acl \in [User -> Entry \cup {NoUser}]
    /\ rq \in [Req -> Request]
    /\ late \subseteq Req
    /\ lost \in 0..MaxLost
    /\ since \in [User -> SUBSET (Kind \cup {"handmade"})]
    /\ past \in [Req -> SUBSET (Req \cup {"old"})]

(* A password that was handed out before a rotation, a deletion or a new   *)
(* creation of the same user began never works again once that request has *)
(* been answered with success: neither a repeated command, nor a late one, *)
(* nor a racing update or enable brings it back (service.go RotateUser,    *)
(* DeleteUser, CreateUser).                                                *)
RetiredPasswordStaysDead ==
    \A r \in Req :
       rq[r].out = "ok" /\ rq[r].kind \in {"create", "rotate", "delete"}
          => LET u == rq[r].user
             IN  Exists(u) => acl[u].pw \cap past[r] = {}

(* ACL SETUSER brings a deleted user back when an update, an enable or a   *)
(* rotation looked before the deletion and writes after it.  Such a user   *)
(* can log in and run something only if all three did so; no two of them   *)
(* are enough (service.go buildUpdateACLRules, SetEnabled, RotateUser).    *)
GhostIsPowerless ==
    \A u \in User :
       Usable(acl[u]) => \/ "create" \in since[u]
                         \/ {"update", "enable", "rotate"} \subseteq since[u]

(* The root keys and commands of a managed user are the ones that one      *)
(* request asked for, whole and within the allow-list: requests that       *)
(* interleave never leave one request's prefix with another one's          *)
(* commands, and no channel or category.  What a user may do beyond that,  *)
(* by selectors, was given to it outside Redgres, and it was neither       *)
(* deleted nor created since: an update leaves the selectors, a ghost or a *)
(* user created over a racing SETUSER has none (service.go                 *)
(* buildCreateACLRules, buildUpdateACLRules, presets.go                    *)
(* resolveCustomCommands).                                                 *)
GrantsWhole ==
    \A u \in User :
       Exists(u) =>
          /\ \/ acl[u].wide /\ acl[u].keys = Handmade.keys /\ acl[u].cmds = Handmade.cmds
             \/ acl[u].keys = {} /\ acl[u].cmds = {} /\ ~acl[u].wide
             \/ /\ ~acl[u].wide
                /\ acl[u].cmds \subseteq AllowedCommands
                /\ \E r \in Req : /\ rq[r].user = u
                                  /\ acl[u].keys = {rq[r].key}
                                  /\ acl[u].cmds = rq[r].cmds
          /\ acl[u].selectors => "handmade" \in since[u]

(* No request changes a reserved name or the name Redgres logs in with, in *)
(* any spelling, by any path (acl.go IsProtectedUsername).                 *)
SystemUsersUntouched ==
    [][\A u \in User : Fold[u] \in Reserved \cup {Fold[AdminUser]}
                          => acl'[u] = acl[u]]_redisVars
=============================================================================

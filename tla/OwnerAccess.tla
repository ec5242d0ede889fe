---------------------------- MODULE OwnerAccess ----------------------------
(***************************************************************************)
(* Who is let in: the owner row, login attempts and lockout, sessions, and  *)
(* the requests that need one (internal/auth and httpapi/auth_routes.go),   *)
(* composed with the tool gate, whose tickets only such a request obtains.  *)
(*                                                                          *)
(* A request is one element of Req and is used once. Between two SQLite     *)
(* statements or transactions of a handler any other request may run, so a  *)
(* handler is one action per statement; pc names the next one. The pool has *)
(* one connection, so a transaction is one action. The time `at` is taken   *)
(* once, when the handler starts, as the code does. A password is an opaque *)
(* value and its hash is the value itself; a session's cookie is the name   *)
(* of the login that issued it. A cookie is looked up by its token, but     *)
(* what is done to a session afterwards goes by its row id, which SQLite    *)
(* gives again once the row is gone: the table has no AUTOINCREMENT.        *)
(***************************************************************************)
EXTENDS ToolGate, FiniteSets

CONSTANTS
    Req,               \* HTTP requests, each used once
    Username,          \* normalized user names, "invalid_username" included
    OwnerName,         \* those of them the owner may be given
    Password,          \* passwords that pass ValidatePassword
    IP,                \* effective client addresses
    Loopback,          \* those of them that are loopback addresses
    LockoutThreshold,  \* lockoutThreshold
    SprayThreshold,    \* sprayThreshold
    Window,            \* lockoutWindow, in clock ticks
    MaxLockout,        \* maxLockout, in clock ticks
    MaxStored,         \* maxStoredAttempts
    Idle,              \* cfg.SessionTTL
    Absolute,          \* cfg.AbsoluteSessionTTL
    MaxTime,           \* bound on the clock
    MaxUpsets,         \* bound on failures, restarts and replacements
    NoHash             \* the owner row that a lookup did not find

ASSUME AccessAssumption ==
    /\ OwnerName \subseteq Username
    /\ NoHash \notin Password
    /\ Idle \in Nat /\ Absolute \in Nat
    /\ MaxTime \in Nat /\ MaxUpsets \in Nat

\* The limits of security.go, and what the proofs need to know of a power.
ASSUME LockoutAssumption ==
    /\ LockoutThreshold \in Nat \ {0} /\ MaxLockout \in Nat \ {0}
    /\ Window \in Nat /\ MaxStored \in Nat
    /\ \A n \in 0..MaxStored : 2 ^ n \in Nat \ {0}

VARIABLES
    owner,     \* the owners row: name and password
    attempts,  \* the login_attempts table
    sessions,  \* the sessions table
    req,       \* what each request carries and where it stands
    hist       \* history the properties speak about

authVars == <<owner, attempts, sessions, req, hist>>
accessVars == <<authVars, gateVars, clock>>

Stream  == [via : {"login", "reauth"}, user : Username, ip : IP]
Attempt == [id : Nat, stream : Stream, ok : BOOLEAN, at : 0..MaxTime]
Session == [id : Nat, login : Req, csrf : Req, idle : Nat, absolute : Nat,
            password : Password]
Behind  == {"logout", "session", "password", "launch"}
Place   == {"idle", "lookup", "reserve", "verify", "clear", "insert", "audit", "expire",
            "touch", "mutation", "body", "owner", "commit", "done"}

NewRequest      == [kind |-> "none", pc |-> "idle"]
EndedRequest    == [kind : Behind \cup {"login"}, pc : {"done"}, at : 0..MaxTime,
                    user : Username, ip : IP]
LoginRequest    == [kind : {"login"}, pc : Place, at : 0..MaxTime, user : Username, ip : IP,
                    password : Password, hash : Password \cup {NoHash}, row : Nat]
CookieRequest   == [kind : Behind, pc : Place, at : 0..MaxTime, user : Username, ip : IP,
                    cookie : Req, row : Nat, csrf : Req]
PasswordRequest == [kind : {"password"}, pc : Place, at : 0..MaxTime, user : Username, ip : IP,
                    cookie : Req, password : Password, hash : Password \cup {NoHash}]

\* prior: the logins past their insert when a login deleted the old sessions;
\* straddled: the logins that had read the owner row when it changed; hashed
\* and won: the requests whose attempt was counted, and those that succeeded;
\* upsets: how many failures, restarts and replacements there were.
History == [prior : [Req -> SUBSET Req], straddled : SUBSET Req,
            hashed : SUBSET Req, won : SUBSET Req, upsets : 0..MaxUpsets]

\* The rows and requests have the fields the handlers give them, and the
\* table of attempts never exceeds its cap.
AccessTypeOK ==
    /\ owner \in [name : Username, password : Password]
    /\ attempts \subseteq Attempt /\ Cardinality(attempts) <= MaxStored
    /\ sessions \subseteq Session
    /\ req \in [Req -> {NewRequest} \cup EndedRequest \cup LoginRequest \cup CookieRequest \cup PasswordRequest]
    /\ hist \in History
    /\ GateTypeOK

AccessInit ==
    /\ owner \in [name : OwnerName, password : Password]
    /\ attempts = {}
    /\ sessions = {}
    /\ req = [r \in Req |-> NewRequest]
    /\ hist = [prior |-> [r \in Req |-> {}], straddled |-> {}, hashed |-> {}, won |-> {},
               upsets |-> 0]
    /\ clock = 0
    /\ GateInit

At(r, kind, pc) == req[r].kind = kind /\ req[r].pc = pc
Goto(r, pc)     == req' = [req EXCEPT ![r].pc = pc]

\* The answer is sent and what the handler held is gone.
Ended(q) == [kind |-> q.kind, pc |-> "done", at |-> q.at, user |-> q.user, ip |-> q.ip]
Finish(r) == req' = [req EXCEPT ![r] = Ended(@)]

----------------------------------------------------------------------------
(***************************************************************************)
(* The attempt store (security.go).                                         *)
(***************************************************************************)
InWindow(a, now) == a.at + Window >= now

\* The failures lockoutRemaining counts: those of the stream with no success
\* after them in the order of attempted_at, and of id where it is the same.
CountedFailures(s, now) ==
    LET rows == {a \in attempts : a.stream = s /\ InWindow(a, now)} IN
    {a \in rows :
        /\ ~a.ok
        /\ \A b \in rows : b.ok => b.at < a.at \/ (b.at = a.at /\ b.id < a.id)}

Least(a, b) == IF a < b THEN a ELSE b

\* The delay doubles with every failure from the threshold on, up to a cap.
Delay(failures) == Least(2 ^ (failures - LockoutThreshold), MaxLockout)

\* lockoutRemaining > 0.
Limited(s, now) ==
    LET failed == CountedFailures(s, now) IN
    /\ Cardinality(failed) >= LockoutThreshold
    /\ \E a \in failed : now < a.at + Delay(Cardinality(failed))

\* IPLockoutRemaining > 0.
IPLimited(ip, now) ==
    LET failed == {a \in attempts :
                     /\ a.stream.via = "login" /\ a.stream.ip = ip
                     /\ ~a.ok /\ InWindow(a, now)} IN
    /\ ip \notin Loopback
    /\ Cardinality(failed) >= SprayThreshold
    /\ \E a \in failed : now < a.at + MaxLockout

\* An INTEGER PRIMARY KEY is one more than the largest in the table.
LastId(rows) == CHOOSE i \in {0} \cup {a.id : a \in rows} : \A a \in rows : a.id <= i

\* insertAttempt: rows that left the window go, and then the oldest above
\* the cap.
insertAttempt(rows, s, ok, now) ==
    LET kept  == {a \in rows : InWindow(a, now)}
        fresh == kept \cup {[id |-> LastId(kept) + 1, stream |-> s, ok |-> ok, at |-> now]}
    IN  {a \in fresh : Cardinality({b \in fresh : b.id > a.id}) < MaxStored}

StreamOf(r) ==
    [via  |-> IF req[r].kind = "login" THEN "login" ELSE "reauth",
     user |-> req[r].user, ip |-> req[r].ip]

\* Mutant of ReserveFailure: the attempt is only looked at, and counted later.
ReserveUncounted(r, next) ==
    IF Limited(StreamOf(r), req[r].at)
    THEN Finish(r) /\ UNCHANGED <<attempts, hist>>
    ELSE Goto(r, next) /\ hist' = [hist EXCEPT !.hashed = @ \cup {r}] /\ UNCHANGED attempts

\* ReserveFailure: one transaction, before the slow hash.
ReserveFailure(r, next) ==
    IF Limited(StreamOf(r), req[r].at)
    THEN Finish(r) /\ UNCHANGED <<attempts, hist>>
    ELSE /\ Goto(r, next)
         /\ hist' = [hist EXCEPT !.hashed = @ \cup {r}]
         /\ attempts' = insertAttempt(attempts, StreamOf(r), FALSE, req[r].at)

\* RecordSuccess: the failures of the stream go and a success is recorded.
RecordSuccess(r) ==
    /\ attempts' = insertAttempt(
           {a \in attempts : a.ok \/ a.stream # StreamOf(r)},
           StreamOf(r), TRUE, req[r].at)
    /\ hist' = [hist EXCEPT !.won = @ \cup {r}]

----------------------------------------------------------------------------
(***************************************************************************)
(* Login (handleLogin, CreateSession).                                      *)
(***************************************************************************)
\* A request over the limit of its address is answered at once, without a
\* trace in this state; the others read the owner row next.
LoginBegin(r, user, ip, password) ==
    /\ At(r, "none", "idle")
    /\ ~IPLimited(ip, clock)
    /\ req' = [req EXCEPT ![r] =
         [kind |-> "login", at |-> clock, user |-> user, ip |-> ip, password |-> password,
          hash |-> NoHash, row |-> 0, pc |-> "lookup"]]
    /\ UNCHANGED <<owner, attempts, sessions, hist, gateVars, clock>>

HashFor(user) == IF user = owner.name THEN owner.password ELSE NoHash

LoginLookup(r) ==
    /\ At(r, "login", "lookup")
    /\ req' = [req EXCEPT ![r].pc = "reserve", ![r].hash = HashFor(req[r].user)]
    /\ UNCHANGED <<owner, attempts, sessions, hist, gateVars, clock>>

LoginReserve(r) ==
    /\ At(r, "login", "reserve")
    /\ ReserveFailure(r, "verify")
    /\ UNCHANGED <<owner, sessions, gateVars, clock>>

\* Mutant of LoginVerify: an unknown user passes.
LoginVerifyUnknown(r) ==
    /\ At(r, "login", "verify")
    /\ IF req[r].hash \in {NoHash, req[r].password}
       THEN Goto(r, "clear") /\ RecordSuccess(r)
       ELSE Finish(r) /\ UNCHANGED <<attempts, hist>>
    /\ UNCHANGED <<owner, sessions, gateVars, clock>>

\* Verify against the hash read before, or VerifyUnknown; then RecordSuccess.
LoginVerify(r) ==
    /\ At(r, "login", "verify")
    /\ IF req[r].hash = req[r].password
       THEN Goto(r, "clear") /\ RecordSuccess(r)
       ELSE Finish(r) /\ UNCHANGED <<attempts, hist>>
    /\ UNCHANGED <<owner, sessions, gateVars, clock>>

\* Logins that are past the insert of their session.
Inserted == {r \in Req : req[r].kind = "login" /\ req[r].pc \in {"audit", "done"}}

\* Mutant of OldSessions: only the session of the presented cookie, if any.
NoOldSessions == {}

\* DeleteOwnerSessions: there is one owner.
OldSessions == sessions

\* First statement of CreateSession.
LoginClear(r) ==
    /\ At(r, "login", "clear")
    /\ sessions' = sessions \ OldSessions
    /\ hist' = [hist EXCEPT !.prior[r] = Inserted]
    /\ Goto(r, "insert")
    /\ UNCHANGED <<owner, attempts, gateVars, clock>>

\* Second statement of CreateSession; the handler keeps the row's id.
LoginInsert(r) ==
    /\ At(r, "login", "insert")
    /\ LET id == LastId(sessions) + 1 IN
       /\ sessions' = sessions \cup
            {[id |-> id, login |-> r, csrf |-> r, idle |-> req[r].at + Idle,
              absolute |-> req[r].at + Absolute, password |-> req[r].hash]}
       /\ req' = [req EXCEPT ![r].pc = "audit", ![r].row = id]
    /\ UNCHANGED <<owner, attempts, hist, gateVars, clock>>

\* The row that has this id by now, whoever's it is.
DeleteSession(id) == {s \in sessions : s.id # id}

\* The audit of the login; when it fails the session is deleted again, and
\* the error of that delete is ignored.
LoginAudit(r) ==
    /\ At(r, "login", "audit")
    /\ \/ UNCHANGED sessions
       \/ sessions' = DeleteSession(req[r].row)
    /\ Finish(r)
    /\ UNCHANGED <<owner, attempts, hist, gateVars, clock>>

----------------------------------------------------------------------------
(***************************************************************************)
(* A request with a session cookie: requireSession, requireMutation and the *)
(* handlers behind them.                                                    *)
(***************************************************************************)

\* Mutant of Alive: only the idle deadline, which every request extends.
AliveIdle(s) == clock <= s.idle

\* LookupSession accepts the row.
Alive(s) == clock <= s.idle /\ clock <= s.absolute

\* LookupSession of the cookie of login c. The row's id and CSRF hash and the
\* owner's name, as read here, are used from now on. An unknown cookie is
\* refused without a trace.
SessionLookup(r, kind, c, ip) ==
    /\ At(r, "none", "idle")
    /\ At(c, "login", "done")
    /\ \E s \in sessions :
          /\ s.login = c
          /\ req' = [req EXCEPT ![r] =
               [kind |-> kind, at |-> clock, user |-> owner.name, ip |-> ip, cookie |-> c,
                row |-> s.id, csrf |-> s.csrf,
                pc |-> IF Alive(s) THEN "touch" ELSE "expire"]]
    /\ UNCHANGED <<owner, attempts, sessions, hist, gateVars, clock>>

\* LookupSession deletes the session it found expired, and the request is
\* refused; the error of that delete is ignored.
SessionExpire(r) ==
    /\ req[r].pc = "expire"
    /\ sessions' = DeleteSession(req[r].row)
    /\ Finish(r)
    /\ UNCHANGED <<owner, attempts, hist, gateVars, clock>>

Refresh(s) == [s EXCEPT !.idle = clock + Idle]

\* Mutant of Touched: the session that was read is saved as a whole.
TouchSaved(r) ==
    DeleteSession(req[r].row) \cup
    {[id |-> req[r].row, login |-> req[r].cookie, csrf |-> req[r].csrf, idle |-> clock + Idle,
      absolute |-> req[req[r].cookie].at + Absolute, password |-> owner.password]}

\* TouchSession updates the row with the id that was read, if there is one.
Touched(r) == {IF s.id = req[r].row THEN Refresh(s) ELSE s : s \in sessions}

SessionTouch(r) ==
    /\ req[r].pc = "touch"
    /\ sessions' = Touched(r)
    /\ Goto(r, IF req[r].kind = "session" THEN "body" ELSE "mutation")
    /\ UNCHANGED <<owner, attempts, hist, gateVars, clock>>

\* requireMutation compares the header with the hash read at the lookup. The
\* browser sends a token it was given, by a login or by a GET session; a token
\* is named after the request that drew it.
CheckMutation(r) ==
    /\ req[r].pc = "mutation"
    /\ \E token \in {g \in Req : At(g, "login", "done") \/ At(g, "session", "done")} :
          IF token = req[r].csrf THEN Goto(r, "body") ELSE Finish(r)
    /\ UNCHANGED <<owner, attempts, sessions, hist, gateVars, clock>>

\* GET session: RotateCSRF.
SessionRotate(r) ==
    /\ At(r, "session", "body")
    /\ sessions' = {IF s.id = req[r].row THEN [s EXCEPT !.csrf = r] ELSE s : s \in sessions}
    /\ Finish(r)
    /\ UNCHANGED <<owner, attempts, hist, gateVars, clock>>

\* Logout: the audit, and then the session.
Logout(r) ==
    /\ At(r, "logout", "body")
    /\ sessions' = DeleteSession(req[r].row)
    /\ Finish(r)
    /\ UNCHANGED <<owner, attempts, hist, gateVars, clock>>

\* A tool launch: the ticket is issued before the audit, whose failure leaves
\* it in the store, unannounced.
ToolLaunch(r, id, tool) ==
    /\ At(r, "launch", "body")
    /\ Issue(id, tool)
    /\ Finish(r)
    /\ UNCHANGED <<owner, attempts, sessions, hist, clock>>

----------------------------------------------------------------------------
(***************************************************************************)
(* Change of the owner's password (owner_password.go, reauth.go), and the   *)
(* replacement of the owner from the command line (owner.go).               *)
(***************************************************************************)
ReauthLookup(r, current) ==
    /\ At(r, "password", "body")
    /\ req' = [req EXCEPT ![r] =
         [kind |-> "password", at |-> req[r].at, user |-> req[r].user, ip |-> req[r].ip,
          cookie |-> req[r].cookie, password |-> current,
          hash |-> HashFor(req[r].user), pc |-> "reserve"]]
    /\ UNCHANGED <<owner, attempts, sessions, hist, gateVars, clock>>

ReauthReserve(r) ==
    /\ At(r, "password", "reserve")
    /\ ReserveFailure(r, "verify")
    /\ UNCHANGED <<owner, sessions, gateVars, clock>>

ReauthVerify(r) ==
    /\ At(r, "password", "verify")
    /\ IF req[r].hash = req[r].password
       THEN Goto(r, "owner") /\ RecordSuccess(r)
       ELSE Finish(r) /\ UNCHANGED <<attempts, hist>>
    /\ UNCHANGED <<owner, sessions, gateVars, clock>>

\* LookupOwnerByUsername again, for the row's id: the owner may have been
\* renamed since the session was read.
ChangeLookup(r) ==
    /\ At(r, "password", "owner")
    /\ IF req[r].user = owner.name THEN Goto(r, "commit") ELSE Finish(r)
    /\ UNCHANGED <<owner, attempts, sessions, hist, gateVars, clock>>

\* The logins that read the owner row and have not inserted their session.
Straddling == {r \in Req : req[r].kind = "login" /\ req[r].pc \in {"reserve", "verify", "clear", "insert"}}

\* Mutant of SessionsAfterChange: the change leaves the sessions alone.
SessionsKept == sessions

\* DELETE FROM sessions, in the transaction of the change.
SessionsAfterChange == {}

\* One transaction: the hash, the sessions and the audit. The row is updated
\* by its id, whatever the password is by now.
ChangeCommit(r, new) ==
    /\ At(r, "password", "commit")
    /\ new # req[r].password
    /\ owner' = [owner EXCEPT !.password = new]
    /\ sessions' = SessionsAfterChange
    /\ hist' = [hist EXCEPT !.straddled = @ \cup Straddling]
    /\ Finish(r)
    /\ UNCHANGED <<attempts, gateVars, clock>>

\* CreateOrReplaceOwner with replace, in a process of its own.
ReplaceOwner(name, password) ==
    /\ hist.upsets < MaxUpsets
    /\ owner # [name |-> name, password |-> password]
    /\ owner' = [name |-> name, password |-> password]
    /\ sessions' = SessionsAfterChange
    /\ hist' = [hist EXCEPT !.straddled = @ \cup Straddling, !.upsets = @ + 1]
    /\ UNCHANGED <<attempts, req, gateVars, clock>>

----------------------------------------------------------------------------
\* SQLite, the random source or the audit fails, the body is refused (a weak
\* or the same password, an unknown tool), or the client's process is killed:
\* the handler ends where it stands.
Abandon(r) ==
    /\ hist.upsets < MaxUpsets
    /\ req[r].pc \notin {"idle", "audit", "done"}
    /\ Finish(r)
    /\ hist' = [hist EXCEPT !.upsets = @ + 1]
    /\ UNCHANGED <<owner, attempts, sessions, gateVars, clock>>

\* The process stops and starts: requests in flight and the tool store are
\* gone, the tables are not.
Restart ==
    /\ hist.upsets < MaxUpsets
    /\ hist' = [hist EXCEPT !.upsets = @ + 1]
    /\ req' = [r \in Req |-> IF req[r].pc = "idle" THEN req[r] ELSE Ended(req[r])]
    /\ GateRestart
    /\ UNCHANGED <<owner, attempts, sessions, clock>>

\* Someone presents a ticket at a gate, or a tool cookie that is refused.
Visit ==
    /\ \/ \E id \in TicketId, tool \in Tool :
             (\E i \in issued : i.id = id) /\ Consume(id, tool)
       \/ \E token \in 1..Len(opened), tool \in Tool : ValidSession(token, tool)
    /\ UNCHANGED <<authVars, clock>>

Tick ==
    /\ clock < MaxTime
    /\ clock' = clock + 1
    /\ UNCHANGED <<authVars, gateVars>>

Login(r) ==
    \/ \E user \in Username, ip \in IP, password \in Password : LoginBegin(r, user, ip, password)
    \/ LoginLookup(r)
    \/ LoginReserve(r)
    \/ LoginVerify(r)
    \/ LoginClear(r)
    \/ LoginInsert(r)
    \/ LoginAudit(r)

WithSession(r) ==
    \/ \E kind \in Behind, c \in Req, ip \in IP : SessionLookup(r, kind, c, ip)
    \/ SessionExpire(r)
    \/ SessionTouch(r)
    \/ CheckMutation(r)
    \/ SessionRotate(r)
    \/ Logout(r)
    \/ \E id \in TicketId, tool \in Tool : ToolLaunch(r, id, tool)
    \/ \E current \in Password : ReauthLookup(r, current)
    \/ ReauthReserve(r)
    \/ ReauthVerify(r)
    \/ ChangeLookup(r)
    \/ \E new \in Password : ChangeCommit(r, new)

AccessNext ==
    \/ \E r \in Req : Login(r) \/ WithSession(r) \/ Abandon(r)
    \/ \E name \in OwnerName, password \in Password : ReplaceOwner(name, password)
    \/ Visit
    \/ Restart
    \/ Tick

AccessSpec == AccessInit /\ [][AccessNext]_accessVars

----------------------------------------------------------------------------
(***************************************************************************)
(* Properties.                                                              *)
(***************************************************************************)

\* Parallel guesses do not pass the limit: of the requests of one user and
\* address that started at one time, no more reach the password hash than the
\* threshold allows, plus as many again for every success, which resets the
\* count (ReserveFailure before Verify in Login and Reauthenticate). It is
\* claimed while that time is in the window, as long as the table's cap has not
\* been reached, and unless a request that started later has succeeded
\* meanwhile: its row makes lockoutRemaining pass over every earlier failure.
GuessesBounded ==
    \A r \in hist.hashed :
        LET same == {q \in hist.hashed : StreamOf(q) = StreamOf(r)}
            wins == same \cap hist.won
        IN  /\ Cardinality(hist.hashed) + Cardinality(hist.won) <= MaxStored
            /\ clock <= req[r].at + Window
            /\ \A w \in wins : req[w].at <= req[r].at
            => Cardinality({q \in same \ wins : req[q].at = req[r].at}) <=
                 LockoutThreshold * (1 + Cardinality(wins))

\* A login ends the sessions issued before it: two sessions are valid at once
\* only when neither login was past its insert when the other deleted the old
\* sessions (CreateSession's two statements).
EarlierSessionsEnd ==
    \A s, t \in sessions : s.login \notin hist.prior[t.login]

\* After a change of the password, by a request or from the command line, a
\* session obtained with another password exists only when its login had read
\* the owner row before the change and inserted its session after it.
ChangeRevokes ==
    \A s \in sessions : s.password = owner.password \/ s.login \in hist.straddled

\* However often a session is used, no request is let in later than the
\* absolute lifetime after its login (LookupSession, TouchSession).
LifetimeBounded ==
    \A r \in Req :
        req[r].pc \in {"touch", "mutation", "body"} =>
            req[r].at <= req[req[r].cookie].at + Absolute

\* A session that was deleted, by a logout, a login, an expiry or a change of
\* the password, does not come back, whatever request still carries it. The
\* row that such a request finds under the old id may be another session's:
\* it may extend, re-key or delete that one, but never gives it another
\* token, password or absolute deadline (the UPDATEs and DELETEs of
\* session.go go by id). A row with a token appears once, with its login.
RevokedStaysOut ==
    [][\A t \in sessions' :
          \/ t.login \notin Inserted
          \/ \E s \in sessions :
                /\ s.id = t.id /\ s.login = t.login
                /\ s.absolute = t.absolute /\ s.password = t.password]_accessVars
=============================================================================

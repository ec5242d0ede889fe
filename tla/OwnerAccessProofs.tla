-------------------------- MODULE OwnerAccessProofs --------------------------
(***************************************************************************)
(* Proofs about logins, sessions and the change of the password, for any   *)
(* number of requests, users, passwords and clock ticks and any lifetime.  *)
(* AccessInv is inductive: it says where each request stands and what it   *)
(* carries there (Standing), which logins a login found already inserted   *)
(* (PriorInv), that a hash read before a change is known to be old         *)
(* (HashInv), and when the login behind a session or a cookie began        *)
(* (BirthInv).  The attempt table needs an invariant of its own: RowsInv   *)
(* says that ids are keys and the cap holds, CountInv which request each   *)
(* row was inserted for, and GuessInv that every guess of one time, since  *)
(* the last success of its stream, still has its row.                      *)
(***************************************************************************)
EXTENDS OwnerAccess, ToolGateProofs, FiniteSetTheorems

LoginPlace    == {"lookup", "reserve", "verify", "clear", "insert", "audit"}
CookiePlace   == {"touch", "mutation", "body"}
PasswordPlace == {"reserve", "verify", "owner", "commit"}

\* What a request carries is decided by its kind and its place.
Standing ==
    {NewRequest} \cup EndedRequest
    \cup {q \in LoginRequest : q.pc \in LoginPlace}
    \cup {q \in CookieRequest : q.pc \in CookiePlace \cup {"expire"}}
    \cup {q \in PasswordRequest : q.pc \in PasswordPlace}

\* Finitely many rows, so there is a largest id.
RowsTyped == sessions \subseteq Session /\ IsFiniteSet(sessions)

AccessTyped ==
    /\ owner \in [name : Username, password : Password]
    /\ RowsTyped
    /\ req \in [Req -> Standing]
    /\ hist \in History
    /\ clock \in 0..MaxTime

PriorInv ==
    /\ \A t \in Req : hist.prior[t] \subseteq Inserted
    /\ \A t \in Req : At(t, "login", "insert") => \A s \in sessions : s.login \notin hist.prior[t]
    /\ \A s, t \in sessions : s.login \notin hist.prior[t.login]

HashInv ==
    /\ \A r \in Straddling : req[r].hash \in {NoHash, owner.password} \/ r \in hist.straddled
    /\ \A r \in Straddling : req[r].pc \in {"clear", "insert"} => req[r].hash = req[r].password
    /\ \A s \in sessions : s.password = owner.password \/ s.login \in hist.straddled

BirthInv ==
    /\ \A s \in sessions : s.login \in Inserted /\ s.absolute = req[s.login].at + Absolute
    /\ \A r \in Req : req[r].pc \in CookiePlace =>
          /\ At(req[r].cookie, "login", "done")
          /\ req[r].at <= req[req[r].cookie].at + Absolute

\* The attempt table: ids are keys, and the cap holds.
RowsInv ==
    /\ attempts \subseteq Attempt /\ IsFiniteSet(attempts)
    /\ \A a, b \in attempts : a.id = b.id => a = b
    /\ Cardinality(attempts) <= MaxStored

Uncounted == {"idle", "lookup", "reserve", "expire", "touch", "mutation", "body"}

\* The rows and the requests they were inserted for.
CountInv ==
    /\ IsFiniteSet(hist.hashed) /\ hist.won \subseteq hist.hashed
    /\ Cardinality(attempts) <= Cardinality(hist.hashed) + Cardinality(hist.won)
    /\ \A r \in hist.hashed : req[r].pc \notin Uncounted
    /\ \A r \in hist.won : req[r].pc # "verify"
    /\ \A r \in Req : req[r].pc = "verify" => r \in hist.hashed
    /\ \A r \in Req : req[r].pc # "idle" => req[r].at <= clock
    /\ \A a, b \in attempts : a.stream = b.stream /\ a.ok /\ ~b.ok => a.id < b.id
    /\ \A a \in attempts : a.ok => \E w \in hist.won : StreamOf(w) = a.stream /\ req[w].at = a.at

Guesses(s, t)  == {q \in hist.hashed \ hist.won : StreamOf(q) = s /\ req[q].at = t}
Wins(s)        == {w \in hist.won : StreamOf(w) = s}
Failures(s, t) == {a \in attempts : a.stream = s /\ a.at = t /\ ~a.ok}

\* When GuessesBounded speaks about the requests of stream s that started at t.
Claimed(s, t) ==
    /\ Cardinality(hist.hashed) + Cardinality(hist.won) <= MaxStored
    /\ clock <= t + Window
    /\ \A w \in Wins(s) : req[w].at <= t

\* Every guess since the last success still has its row.
Within(s, t) ==
    /\ Cardinality(Guesses(s, t)) <=
          LockoutThreshold * Cardinality(Wins(s)) + Cardinality(Failures(s, t))
    /\ Cardinality(Failures(s, t)) <= LockoutThreshold

GuessInv == \A s \in Stream, t \in 0..MaxTime : Claimed(s, t) => Within(s, t)

AccessInv == AccessTyped /\ PriorInv /\ HashInv /\ BirthInv

USE DEF RowsTyped

-----------------------------------------------------------------------------
(* Where a request stands tells which record it is.                        *)
LEMMA Where ==
    ASSUME AccessTyped, NEW r \in Req
    PROVE  /\ req[r] \in Standing
           /\ req[r].pc = "idle" => req[r] = NewRequest
           /\ req[r].kind = "login" /\ req[r].pc \in LoginPlace => req[r] \in LoginRequest
           /\ req[r].pc \in CookiePlace \cup {"expire"} => req[r] \in CookieRequest
           /\ req[r].kind = "password" /\ req[r].pc \in PasswordPlace => req[r] \in PasswordRequest
           /\ req[r].pc # "idle" => Ended(req[r]) \in EndedRequest
  <1>1. req[r] \in Standing
    BY DEF AccessTyped
  <1>2. CASE req[r] = NewRequest
    BY <1>1, <1>2 DEF NewRequest, LoginPlace, CookiePlace, PasswordPlace
  <1>3. CASE req[r] \in EndedRequest
    BY <1>1, <1>3 DEF EndedRequest, LoginPlace, CookiePlace, PasswordPlace, Ended
  <1>4. CASE req[r] \in LoginRequest /\ req[r].pc \in LoginPlace
    BY <1>1, <1>4 DEF LoginRequest, LoginPlace, CookiePlace, PasswordPlace, Ended, EndedRequest, Behind
  <1>5. CASE req[r] \in CookieRequest /\ req[r].pc \in CookiePlace \cup {"expire"}
    BY <1>1, <1>5 DEF CookieRequest, LoginPlace, CookiePlace, PasswordPlace, Ended, EndedRequest, Behind
  <1>6. CASE req[r] \in PasswordRequest /\ req[r].pc \in PasswordPlace
    BY <1>1, <1>6 DEF PasswordRequest, LoginPlace, CookiePlace, PasswordPlace, Ended, EndedRequest, Behind
  <1> QED BY <1>1, <1>2, <1>3, <1>4, <1>5, <1>6 DEF Standing

\* The two ways a handler moves on keep the other requests as they are.
LEMMA FinishShape ==
    ASSUME AccessTyped, NEW r \in Req, Finish(r), req[r].pc # "idle"
    PROVE  /\ req' \in [Req -> Standing]
           /\ \A q \in Req \ {r} : req'[q] = req[q]
           /\ req'[r].kind = req[r].kind /\ req'[r].pc = "done" /\ req'[r].at = req[r].at
           /\ req'[r].user = req[r].user /\ req'[r].ip = req[r].ip
  <1>1. Ended(req[r]) \in EndedRequest
    BY Where
  <1> QED BY <1>1 DEF Finish, AccessTyped, Standing, Ended

\* The next place of a request of the same shape.
Follows(r, pc) ==
    \/ req[r].kind = "login" /\ req[r].pc \in LoginPlace /\ pc \in LoginPlace
    \/ req[r].pc \in CookiePlace /\ pc \in CookiePlace
    \/ req[r].kind = "password" /\ req[r].pc \in PasswordPlace /\ pc \in PasswordPlace

\* What a request that only moves keeps.
Carried(r) ==
    /\ req'[r].kind = req[r].kind /\ req'[r].at = req[r].at
    /\ req'[r].user = req[r].user /\ req'[r].ip = req[r].ip
    /\ req[r].pc \in CookiePlace => req'[r].cookie = req[r].cookie
    /\ req[r].kind = "login" => req'[r].hash = req[r].hash /\ req'[r].password = req[r].password

\* A change of place is all that Goto makes of a request.
LEMMA GotoShape ==
    ASSUME AccessTyped, NEW r \in Req, NEW pc, Follows(r, pc), Goto(r, pc)
    PROVE  /\ req' \in [Req -> Standing]
           /\ \A q \in Req \ {r} : req'[q] = req[q]
           /\ req'[r].pc = pc
           /\ Carried(r)
  <1> DEFINE new == [req[r] EXCEPT !.pc = pc]
  <1>1. req' = [req EXCEPT ![r] = new]
    BY DEF Goto, AccessTyped
  <1>2. /\ new \in Standing /\ new.pc = pc
        /\ new.kind = req[r].kind /\ new.at = req[r].at
        /\ new.user = req[r].user /\ new.ip = req[r].ip
        /\ req[r].pc \in CookiePlace => new.cookie = req[r].cookie
        /\ req[r].kind = "login" => new.hash = req[r].hash /\ new.password = req[r].password
    <2>1. CASE req[r].kind = "login" /\ req[r].pc \in LoginPlace /\ pc \in LoginPlace
      <3>1. req[r] \in LoginRequest
        BY <2>1, Where
      <3>2. new \in LoginRequest /\ new.pc = pc
        BY <2>1, <3>1 DEF LoginRequest, LoginPlace, Place
      <3> QED BY <2>1, <3>1, <3>2 DEF Standing, LoginRequest, LoginPlace, CookiePlace
    <2>2. CASE req[r].pc \in CookiePlace /\ pc \in CookiePlace
      <3>1. req[r] \in CookieRequest
        BY <2>2, Where
      <3>2. new \in CookieRequest /\ new.pc = pc
        BY <2>2, <3>1 DEF CookieRequest, CookiePlace, Place
      <3>3. req[r].kind # "login"
        BY <3>1 DEF CookieRequest, Behind
      <3> QED BY <2>2, <3>1, <3>2, <3>3 DEF Standing, CookieRequest
    <2>3. CASE req[r].kind = "password" /\ req[r].pc \in PasswordPlace /\ pc \in PasswordPlace
      <3>1. req[r] \in PasswordRequest
        BY <2>3, Where
      <3>2. new \in PasswordRequest /\ new.pc = pc
        BY <2>3, <3>1 DEF PasswordRequest, PasswordPlace, Place
      <3> QED BY <2>3, <3>1, <3>2 DEF Standing, PasswordRequest, PasswordPlace, CookiePlace
    <2> QED BY <2>1, <2>2, <2>3 DEF Follows
  <1> HIDE DEF new
  <1> QED BY <1>1, <1>2 DEF AccessTyped, Carried

-----------------------------------------------------------------------------
(* What a step may do, as far as the invariant can tell: to a request, to  *)
(* the session rows and to the history.                                    *)

BeforeInsert == {"reserve", "verify", "clear", "insert"}

Onward(q) ==
    /\ req[q].kind = "login" /\ req[q].pc \in {"audit", "done"} =>
          /\ req'[q].kind = "login" /\ req'[q].at = req[q].at
          /\ req'[q].pc = "done" \/ req'[q].pc = req[q].pc
    /\ req'[q].kind = "login" /\ req'[q].pc \in BeforeInsert =>
          \/ /\ Carried(q) /\ req[q].pc \in BeforeInsert
             /\ req'[q].pc \in {"clear", "insert"} =>
                   req[q].pc \in {"clear", "insert"} \/ req[q].hash = req[q].password
          \/ req'[q].pc = "reserve" /\ req'[q].hash \in {NoHash, owner'.password}
    /\ req'[q].kind = "login" /\ req'[q].pc = "insert" =>
          (req[q].kind = "login" /\ req[q].pc = "insert") \/ sessions' = {}
    /\ req'[q].pc \in CookiePlace =>
          \/ Carried(q) /\ req[q].pc \in CookiePlace
          \/ /\ req'[q].cookie \in Req /\ At(req'[q].cookie, "login", "done")
             /\ \E s \in sessions : s.login = req'[q].cookie /\ req'[q].at <= s.absolute

\* No row is added; a row that stays keeps its id, login, deadline and password.
NoNewRow == \A s \in sessions' : \E t \in sessions :
               s.id = t.id /\ s.login = t.login /\ s.absolute = t.absolute /\ s.password = t.password

\* One row is added, by a login that was about to.
NewRow(r) ==
    /\ At(r, "login", "insert")
    /\ req'[r].kind = "login" /\ req'[r].pc = "audit" /\ req'[r].at = req[r].at
    /\ \A s \in sessions' :
          \/ s \in sessions
          \/ /\ s.login = r /\ s.absolute = req[r].at + Absolute
             /\ s.password = req[r].hash
    /\ owner' = owner /\ hist' = hist

HistoryStep ==
    /\ hist.straddled \subseteq hist'.straddled
    /\ owner'.password = owner.password \/ (sessions' = {} /\ Straddling \subseteq hist'.straddled)
    /\ \A t \in Req : hist'.prior[t] = hist.prior[t] \/ (hist'.prior[t] = Inserted /\ sessions' = {})

AccessStep ==
    /\ AccessTyped'
    /\ \A q \in Req : Onward(q)
    /\ NoNewRow \/ \E r \in Req : NewRow(r)
    /\ HistoryStep

\* Such a step preserves the invariant.
LEMMA StepInv ==
    ASSUME AccessInv, AccessStep
    PROVE  AccessInv'
  <1> USE DEF AccessInv, AccessStep
  <1>1. Inserted \subseteq Inserted'
    BY DEF Inserted, Onward
  <1>2. \A r \in Req : NewRow(r) => r \notin Inserted /\ r \in Inserted'
    BY DEF NewRow, Inserted, At
  <1>3. \A s \in sessions : s.login \in Req
    BY DEF AccessTyped, Session
  <1>4. \A s \in sessions' : s.login \in Req
    BY DEF AccessTyped, Session
  <1>5. PriorInv'
    <2>1. \A t \in Req : hist'.prior[t] \subseteq Inserted'
      BY <1>1 DEF PriorInv, HistoryStep
    <2>2. ASSUME NEW t \in Req, At(t, "login", "insert"), NEW s \in sessions'
          PROVE  s.login \notin hist'.prior[t]
      <3>1. hist'.prior[t] = hist.prior[t] /\ hist.prior[t] \subseteq Inserted
        BY <2>2 DEF HistoryStep, PriorInv
      <3>2. CASE NoNewRow
        BY <2>2, <3>1, <3>2 DEF NoNewRow, PriorInv
      <3>3. CASE \E r \in Req : NewRow(r)
        <4>1. PICK r \in Req : NewRow(r)
          BY <3>3
        <4>2. CASE s \in sessions
          BY <2>2, <3>1, <4>2 DEF PriorInv
        <4>3. CASE s.login = r
          BY <1>2, <3>1, <4>1, <4>3
        <4> QED BY <4>1, <4>2, <4>3 DEF NewRow
      <3> QED BY <3>2, <3>3
    <2>3. \A t \in Req : At(t, "login", "insert")' => \A s \in sessions' : s.login \notin hist'.prior[t]
      BY <2>2 DEF Onward, At
    <2>4. ASSUME NEW s \in sessions', NEW t \in sessions'
          PROVE  s.login \notin hist'.prior[t.login]
      <3>1. hist'.prior[t.login] = hist.prior[t.login] /\ hist.prior[t.login] \subseteq Inserted
        BY <1>4, <2>4 DEF HistoryStep, PriorInv
      <3>2. CASE NoNewRow
        BY <3>1, <3>2 DEF NoNewRow, PriorInv
      <3>3. CASE \E r \in Req : NewRow(r)
        <4>1. PICK r \in Req : NewRow(r)
          BY <3>3
        <4>2. CASE s.login = r
          BY <1>2, <3>1, <4>1, <4>2
        <4>3. CASE s \in sessions /\ t \in sessions
          BY <3>1, <4>3 DEF PriorInv
        <4>4. CASE s \in sessions /\ t.login = r
          BY <3>1, <4>1, <4>4 DEF PriorInv, NewRow
        <4> QED BY <4>1, <4>2, <4>3, <4>4 DEF NewRow
      <3> QED BY <3>2, <3>3
    <2> QED BY <2>1, <2>3, <2>4 DEF PriorInv
  <1>6. HashInv'
    <2>1. ASSUME NEW q \in Req, q \in Straddling'
          PROVE  /\ req'[q].hash \in {NoHash, owner'.password} \/ q \in hist'.straddled
                 /\ req'[q].pc \in {"clear", "insert"} => req'[q].hash = req'[q].password
      <3>1. req'[q].kind = "login" /\ req'[q].pc \in BeforeInsert
        BY <2>1 DEF Straddling, BeforeInsert
      <3>2. CASE /\ Carried(q) /\ req[q].pc \in BeforeInsert
                 /\ req'[q].pc \in {"clear", "insert"} =>
                       req[q].pc \in {"clear", "insert"} \/ req[q].hash = req[q].password
        <4>1. /\ req[q].kind = "login"
              /\ req'[q].hash = req[q].hash /\ req'[q].password = req[q].password
          BY <3>1, <3>2 DEF Carried
        <4>2. q \in Straddling
          BY <3>2, <4>1 DEF Straddling, BeforeInsert
        <4> QED BY <3>2, <4>1, <4>2 DEF HashInv, HistoryStep
      <3>3. CASE req'[q].pc = "reserve" /\ req'[q].hash \in {NoHash, owner'.password}
        BY <3>3
      <3> QED BY <3>1, <3>2, <3>3 DEF Onward
    <2>2. ASSUME NEW s \in sessions'
          PROVE  s.password = owner'.password \/ s.login \in hist'.straddled
      <3>1. owner'.password = owner.password
        BY <2>2 DEF HistoryStep
      <3>2. CASE NoNewRow
        BY <3>1, <3>2 DEF NoNewRow, HashInv, HistoryStep
      <3>3. CASE \E r \in Req : NewRow(r)
        <4>1. PICK r \in Req : NewRow(r)
          BY <3>3
        <4>2. CASE s \in sessions
          BY <3>1, <4>1, <4>2 DEF HashInv, NewRow
        <4>3. CASE s.login = r /\ s.password = req[r].hash
          <5>1. r \in Straddling /\ req[r].pc = "insert" /\ req[r].kind = "login"
            BY <4>1 DEF NewRow, At, Straddling
          <5>2. req[r].hash # NoHash
            <6>1. req[r].password \in Password /\ req[r].hash = req[r].password
              BY <5>1, Where DEF HashInv, LoginPlace, LoginRequest
            <6> QED BY <6>1, AccessAssumption
          <5> QED BY <3>1, <4>1, <4>3, <5>1, <5>2 DEF HashInv, NewRow
        <4> QED BY <4>1, <4>2, <4>3 DEF NewRow
      <3> QED BY <3>2, <3>3
    <2>3. \A q \in Straddling' : q \in Req
      BY DEF Straddling
    <2> QED BY <2>1, <2>2, <2>3 DEF HashInv
  <1>7. BirthInv'
    <2>1. \A q \in Inserted : req'[q].at = req[q].at
      BY DEF Inserted, Onward
    <2>2. ASSUME NEW s \in sessions'
          PROVE  s.login \in Inserted' /\ s.absolute = req'[s.login].at + Absolute
      <3>1. CASE NoNewRow
        BY <1>1, <2>1, <3>1 DEF NoNewRow, BirthInv
      <3>2. CASE \E r \in Req : NewRow(r)
        BY <1>1, <1>2, <2>1, <3>2 DEF NewRow, BirthInv
      <3> QED BY <3>1, <3>2
    <2>3. ASSUME NEW c \in Req, At(c, "login", "done")
          PROVE  req'[c].kind = "login" /\ req'[c].pc = "done" /\ req'[c].at = req[c].at
      BY <2>3 DEF At, Onward
    <2>4. ASSUME NEW q \in Req, req'[q].pc \in CookiePlace
          PROVE  /\ req'[req'[q].cookie].kind = "login" /\ req'[req'[q].cookie].pc = "done"
                 /\ req'[q].at <= req'[req'[q].cookie].at + Absolute
      <3>1. CASE Carried(q) /\ req[q].pc \in CookiePlace
        <4>1. req[q].cookie \in Req
          BY <3>1, Where DEF CookieRequest
        <4> QED BY <2>3, <3>1, <4>1 DEF Carried, BirthInv
      <3>2. CASE /\ req'[q].cookie \in Req /\ At(req'[q].cookie, "login", "done")
                 /\ \E s \in sessions : s.login = req'[q].cookie /\ req'[q].at <= s.absolute
        BY <2>3, <3>2 DEF BirthInv
      <3> QED BY <2>4, <3>1, <3>2 DEF Onward
    <2> QED BY <2>2, <2>4 DEF BirthInv, At
  <1> QED BY <1>5, <1>6, <1>7

-----------------------------------------------------------------------------
(* Every action is such a step.                                            *)

\* A request that a step leaves alone.
LEMMA SameOnward ==
    ASSUME NEW q \in Req, req'[q] = req[q]
    PROVE  Onward(q)
  BY DEF Onward, Carried, BeforeInsert

\* The same of a request that ends.
LEMMA EndOnward ==
    ASSUME NEW q \in Req, req'[q].kind = req[q].kind, req'[q].pc = "done", req'[q].at = req[q].at
    PROVE  Onward(q)
  BY DEF Onward, BeforeInsert, CookiePlace

\* Rows that are kept or dropped as they are.
LEMMA FewerRows ==
    ASSUME AccessTyped, sessions' \subseteq sessions
    PROVE  NoNewRow /\ RowsTyped'
  BY FS_Subset DEF NoNewRow, AccessTyped

\* The changes to the history that the steps make.
LEMMA HistoryKept ==
    ASSUME AccessTyped, owner' = owner,
           \/ hist' = hist
           \/ \E r \in Req : hist' = [hist EXCEPT !.hashed = @ \cup {r}]
           \/ \E r \in Req : hist' = [hist EXCEPT !.won = @ \cup {r}]
           \/ hist.upsets < MaxUpsets /\ hist' = [hist EXCEPT !.upsets = @ + 1]
    PROVE  HistoryStep /\ hist' \in History
  <1> USE AccessAssumption
  <1>1. hist' \in History /\ hist'.prior = hist.prior /\ hist'.straddled = hist.straddled
    <2>1. CASE hist' = hist
      BY <2>1 DEF AccessTyped
    <2>2. CASE \E r \in Req : hist' = [hist EXCEPT !.hashed = @ \cup {r}]
      BY <2>2 DEF AccessTyped, History
    <2>3. CASE \E r \in Req : hist' = [hist EXCEPT !.won = @ \cup {r}]
      BY <2>3 DEF AccessTyped, History
    <2>4. CASE hist.upsets < MaxUpsets /\ hist' = [hist EXCEPT !.upsets = @ + 1]
      BY <2>4 DEF AccessTyped, History
    <2> QED BY <2>1, <2>2, <2>3, <2>4
  <1> QED BY <1>1 DEF HistoryStep

\* A handler that ends, whatever rows it drops.
LEMMA FinishStep ==
    ASSUME AccessInv, NEW r \in Req, Finish(r), req[r].pc # "idle",
           NoNewRow, RowsTyped', clock' = clock,
           owner' \in [name : Username, password : Password],
           HistoryStep, hist' \in History
    PROVE  AccessStep
  <1> USE DEF AccessInv
  <1>1. /\ req' \in [Req -> Standing]
        /\ \A q \in Req \ {r} : req'[q] = req[q]
        /\ req'[r].kind = req[r].kind /\ req'[r].pc = "done" /\ req'[r].at = req[r].at
    BY FinishShape
  <1>2. \A q \in Req : Onward(q)
    BY <1>1, SameOnward, EndOnward
  <1>3. AccessTyped'
    BY <1>1 DEF AccessTyped
  <1> QED BY <1>2, <1>3 DEF AccessStep

\* A handler that moves on, when it neither adds nor changes a row.
LEMMA GotoStep ==
    ASSUME AccessInv, NEW r \in Req, NEW pc, Follows(r, pc), Goto(r, pc),
           req[r].pc # "audit",
           pc \in BeforeInsert => req[r].pc \in BeforeInsert,
           pc \in {"clear", "insert"} => req[r].pc \in {"clear", "insert"}
                                        \/ req[r].hash = req[r].password,
           pc = "insert" => sessions' = {},
           NoNewRow, RowsTyped', owner' = owner, clock' = clock,
           HistoryStep, hist' \in History
    PROVE  AccessStep
  <1> USE DEF AccessInv
  <1>1. /\ req' \in [Req -> Standing]
        /\ \A q \in Req \ {r} : req'[q] = req[q]
        /\ req'[r].pc = pc
        /\ Carried(r)
    BY GotoShape
  <1>2. Onward(r)
    <2>1. req[r].pc \notin {"audit", "done"}
      BY DEF Follows, LoginPlace, CookiePlace, PasswordPlace
    <2>2. pc \in CookiePlace => req[r].pc \in CookiePlace
      BY DEF Follows, LoginPlace, CookiePlace, PasswordPlace
    <2> QED BY <1>1, <2>1, <2>2 DEF Onward
  <1>3. \A q \in Req : Onward(q)
    BY <1>1, <1>2, SameOnward
  <1>4. AccessTyped'
    BY <1>1 DEF AccessTyped
  <1> QED BY <1>3, <1>4 DEF AccessStep

\* A set of numbers has a least one.
LEMMA LeastNumber ==
    ASSUME NEW T, T \subseteq Nat, T # {}
    PROVE  \E i \in T : \A j \in T : i <= j
  <1>1. PICK i \in T : \A j \in T : ~(<<j, i>> \in OpToRel(<, Nat))
    BY NatLessThanWellFounded, WFMin
  <1>2. \A x, y \in Nat : x < y => <<x, y>> \in OpToRel(<, Nat)
    BY DEF OpToRel
  <1>3. \A j \in T : i \in Nat /\ j \in Nat /\ ~(j < i)
    BY <1>1, <1>2
  <1>4. \A j \in T : i <= j
    BY <1>3
  <1> QED BY <1>4

\* The ids of finitely many rows are bounded.
LEMMA IdsBounded ==
    ASSUME NEW rows, IsFiniteSet(rows), \A a \in rows : a.id \in Nat
    PROVE  \E m \in Nat : \A a \in rows : a.id <= m
  <1>1. PICK n \in Nat : ExistsSurjection(1..n, rows)
    BY FS_NatSurjection
  <1>2. PICK f \in [1..n -> rows] : \A a \in rows : \E i \in 1..n : f[i] = a
    BY <1>1 DEF ExistsSurjection, Surjection
  <1> DEFINE Bounded(k) == \E m \in Nat : \A i \in 1..k : f[i].id <= m
             Bad == {k \in 0..n : ~Bounded(k)}
  <1>3. Bounded(0)
    <2>1. 0 \in Nat /\ \A i \in 1..0 : f[i].id <= 0
      OBVIOUS
    <2> QED BY <2>1
  <1>4. ASSUME NEW k \in 1..n, Bounded(k - 1) PROVE Bounded(k)
    <2>1. PICK m \in Nat : \A i \in 1..(k - 1) : f[i].id <= m
      BY <1>4
    <2>2. f[k].id \in Nat
      BY <1>2
    <2>3. \A i \in 1..k : f[i].id \in Nat /\ (i = k \/ i \in 1..(k - 1))
      BY <1>2
    <2>4. \A i \in 1..k : f[i].id <= m + f[k].id
      BY <2>1, <2>2, <2>3
    <2>5. m + f[k].id \in Nat
      BY <2>2
    <2> QED BY <2>4, <2>5
  <1>5. Bounded(n)
    <2> HIDE DEF Bounded
    <2>1. SUFFICES ASSUME ~Bounded(n) PROVE FALSE
      OBVIOUS
    <2>2. n \in Bad /\ Bad \subseteq Nat
      BY <2>1
    <2>3. Bad # {}
      BY <2>2
    <2>4. PICK k \in Bad : \A j \in Bad : k <= j
      <3> HIDE DEF Bad
      <3> QED BY <2>2, <2>3, LeastNumber
    <2>5. k \in 1..n /\ ~Bounded(k)
      BY <1>3, <2>4
    <2>6. k - 1 \in 0..n /\ k - 1 \notin Bad
      BY <2>4, <2>5
    <2> QED BY <1>4, <2>5, <2>6
  <1> QED BY <1>2, <1>5

\* So the table has a last id.
LEMMA LastIdMax ==
    ASSUME NEW rows, IsFiniteSet(rows), \A a \in rows : a.id \in Nat
    PROVE  LastId(rows) \in Nat /\ \A a \in rows : a.id <= LastId(rows)
  <1> DEFINE Upper == {m \in Nat : \A a \in rows : a.id <= m}
  <1>1. Upper # {}
    BY IdsBounded
  <1>2. PICK u \in Upper : \A m \in Upper : u <= m
    BY <1>1, LeastNumber
  <1>3. u \in {0} \cup {a.id : a \in rows}
    <2>1. SUFFICES ASSUME u # 0, \A a \in rows : a.id # u PROVE FALSE
      OBVIOUS
    <2>2. u - 1 \in Nat /\ \A a \in rows : a.id <= u - 1
      BY <2>1
    <2> QED BY <1>2, <2>2
  <1>4. \E i \in {0} \cup {a.id : a \in rows} : \A a \in rows : a.id <= i
    BY <1>3
  <1>5. LastId(rows) \in {0} \cup {a.id : a \in rows} /\ \A a \in rows : a.id <= LastId(rows)
    BY <1>4 DEF LastId
  <1> QED BY <1>5

\* Rows that are rewritten one by one stay finitely many.
LEMMA FiniteRewrite ==
    ASSUME NEW S, IsFiniteSet(S), NEW f
    PROVE  IsFiniteSet({f[x] : x \in S})
  <1> DEFINE T == {f[x] : x \in S}
             g == [x \in S |-> f[x]]
  <1>1. g \in Surjection(S, T)
    BY DEF Surjection
  <1> HIDE DEF T, g
  <1>2. IsFiniteSet(T)
    BY <1>1, FS_Surjection
  <1> QED BY <1>2 DEF T

\* Login, one step per statement of handleLogin and CreateSession.
LEMMA LoginStep ==
    ASSUME AccessInv, NEW r \in Req, Login(r)
    PROVE  AccessStep
  <1> USE AccessAssumption DEF AccessInv
  <1>0. owner \in [name : Username, password : Password]
    BY DEF AccessTyped
  <1>1. ASSUME NEW user \in Username, NEW ip \in IP, NEW password \in Password,
               LoginBegin(r, user, ip, password)
        PROVE  AccessStep
    <2> DEFINE new == [kind |-> "login", at |-> clock, user |-> user, ip |-> ip,
                       password |-> password, hash |-> NoHash, row |-> 0, pc |-> "lookup"]
    <2>1. /\ req[r].kind = "none" /\ req[r].pc = "idle" /\ req' = [req EXCEPT ![r] = new]
          /\ UNCHANGED <<owner, sessions, hist, clock>>
      BY <1>1 DEF LoginBegin, At
    <2>2. new \in Standing
      BY DEF AccessTyped, Standing, LoginRequest, LoginPlace, Place
    <2>3. req'[r] = new /\ \A q \in Req \ {r} : req'[q] = req[q]
      BY <2>1 DEF AccessTyped
    <2>4. Onward(r)
      BY <2>1, <2>3 DEF Onward, BeforeInsert, CookiePlace
    <2>5. AccessTyped'
      BY <2>1, <2>2 DEF AccessTyped
    <2>6. NoNewRow /\ HistoryStep
      BY <2>1, FewerRows, HistoryKept
    <2> QED BY <2>3, <2>4, <2>5, <2>6, SameOnward DEF AccessStep
  <1>2. CASE LoginLookup(r)
    <2> DEFINE new == [req[r] EXCEPT !.pc = "reserve", !.hash = HashFor(req[r].user)]
    <2>1. /\ req[r].kind = "login" /\ req[r].pc = "lookup"
          /\ UNCHANGED <<owner, sessions, hist, clock>>
      BY <1>2 DEF LoginLookup, At
    <2>2. req[r] \in LoginRequest
      BY <2>1, Where DEF LoginPlace
    <2>3. HashFor(req[r].user) \in {NoHash, owner.password} /\ owner.password \in Password
      BY DEF HashFor, AccessTyped
    <2>4. req' = [req EXCEPT ![r] = new]
      BY <1>2 DEF LoginLookup, AccessTyped
    <2>5. /\ new \in Standing /\ new.kind = "login" /\ new.pc = "reserve"
          /\ new.hash \in {NoHash, owner.password}
      BY <2>2, <2>3 DEF Standing, LoginRequest, LoginPlace, Place
    <2> HIDE DEF new
    <2>6. req'[r] = new /\ \A q \in Req \ {r} : req'[q] = req[q]
      BY <2>4 DEF AccessTyped
    <2>7. Onward(r)
      BY <2>1, <2>5, <2>6 DEF Onward, BeforeInsert, CookiePlace
    <2>8. AccessTyped'
      BY <2>1, <2>4, <2>5 DEF AccessTyped
    <2>9. NoNewRow /\ HistoryStep
      BY <2>1, FewerRows, HistoryKept
    <2> QED BY <2>6, <2>7, <2>8, <2>9, SameOnward DEF AccessStep
  <1>3. CASE LoginReserve(r)
    <2>1. /\ req[r].kind = "login" /\ req[r].pc = "reserve"
          /\ UNCHANGED <<owner, sessions, clock>>
          /\ \/ Finish(r) /\ hist' = hist
             \/ Goto(r, "verify") /\ hist' = [hist EXCEPT !.hashed = @ \cup {r}]
      BY <1>3 DEF LoginReserve, At, ReserveFailure
    <2>2. NoNewRow /\ RowsTyped' /\ HistoryStep /\ hist' \in History
      BY <2>1, FewerRows, HistoryKept
    <2>3. Follows(r, "verify")
      BY <2>1 DEF Follows, LoginPlace
    <2> QED BY <1>0, <2>1, <2>2, <2>3, FinishStep, GotoStep DEF BeforeInsert
  <1>4. CASE LoginVerify(r)
    <2>1. /\ req[r].kind = "login" /\ req[r].pc = "verify"
          /\ UNCHANGED <<owner, sessions, clock>>
          /\ \/ Finish(r) /\ hist' = hist
             \/ /\ Goto(r, "clear") /\ req[r].hash = req[r].password
                /\ hist' = [hist EXCEPT !.won = @ \cup {r}]
      BY <1>4 DEF LoginVerify, At, RecordSuccess
    <2>2. NoNewRow /\ RowsTyped' /\ HistoryStep /\ hist' \in History
      BY <2>1, FewerRows, HistoryKept
    <2>3. Follows(r, "clear")
      BY <2>1 DEF Follows, LoginPlace
    <2> QED BY <1>0, <2>1, <2>2, <2>3, FinishStep, GotoStep DEF BeforeInsert
  <1>5. CASE LoginClear(r)
    <2>1. /\ req[r].kind = "login" /\ req[r].pc = "clear" /\ Goto(r, "insert")
          /\ UNCHANGED <<owner, clock>> /\ sessions' = {}
          /\ hist' = [hist EXCEPT !.prior[r] = Inserted]
      BY <1>5 DEF LoginClear, At, OldSessions
    <2>2. Inserted \subseteq Req
      BY DEF Inserted
    <2>3. hist' \in History /\ HistoryStep
      BY <2>1, <2>2 DEF HistoryStep, AccessTyped, History
    <2>4. Follows(r, "insert")
      BY <2>1 DEF Follows, LoginPlace
    <2>5. NoNewRow /\ RowsTyped'
      BY <2>1, FewerRows
    <2> QED BY <2>1, <2>3, <2>4, <2>5, GotoStep DEF BeforeInsert
  <1>6. CASE LoginInsert(r)
    <2> DEFINE n   == LastId(sessions) + 1
               row == [id |-> n, login |-> r, csrf |-> r, idle |-> req[r].at + Idle,
                       absolute |-> req[r].at + Absolute, password |-> req[r].hash]
               new == [req[r] EXCEPT !.pc = "audit", !.row = n]
    <2>1. /\ req[r].kind = "login" /\ req[r].pc = "insert"
          /\ sessions' = sessions \cup {row}
          /\ UNCHANGED <<owner, hist, clock>>
      BY <1>6 DEF LoginInsert, At
    <2>2. req[r] \in LoginRequest /\ r \in Straddling
      BY <2>1, Where DEF LoginPlace, Straddling
    <2>3. req[r].hash \in Password /\ req[r].at \in Nat
      BY <2>1, <2>2 DEF HashInv, LoginRequest
    <2>4. n \in Nat
      <3>1. \A s \in sessions : s.id \in Nat
        BY DEF AccessTyped, Session
      <3> QED BY <3>1, LastIdMax DEF AccessTyped
    <2>5. row \in Session /\ row.login = r /\ row.absolute = req[r].at + Absolute
          /\ row.password = req[r].hash
      BY <2>3, <2>4 DEF Session
    <2>6. req' = [req EXCEPT ![r] = new]
      BY <1>6 DEF LoginInsert, AccessTyped
    <2>7. /\ new \in Standing /\ new.kind = "login" /\ new.pc = "audit" /\ new.at = req[r].at
      BY <2>1, <2>2, <2>4 DEF Standing, LoginRequest, LoginPlace, Place
    <2> HIDE DEF n, row, new
    <2>8. req'[r] = new /\ \A q \in Req \ {r} : req'[q] = req[q]
      BY <2>6 DEF AccessTyped
    <2>9. Onward(r)
      BY <2>1, <2>7, <2>8 DEF Onward, BeforeInsert, CookiePlace
    <2>10. NewRow(r)
      BY <2>1, <2>5, <2>7, <2>8 DEF NewRow, At
    <2>11. HistoryStep
      BY <2>1, HistoryKept
    <2>12. AccessTyped'
      BY <2>1, <2>5, <2>6, <2>7, FS_AddElement DEF AccessTyped
    <2> QED BY <2>8, <2>9, <2>10, <2>11, <2>12, SameOnward DEF AccessStep
  <1>7. CASE LoginAudit(r)
    <2>1. /\ req[r].pc = "audit" /\ Finish(r) /\ sessions' \subseteq sessions
          /\ UNCHANGED <<owner, hist, clock>>
      BY <1>7 DEF LoginAudit, DeleteSession, At
    <2>2. NoNewRow /\ RowsTyped' /\ HistoryStep /\ hist' \in History
      BY <2>1, FewerRows, HistoryKept
    <2> QED BY <1>0, <2>1, <2>2, FinishStep
  <1> QED BY <1>1, <1>2, <1>3, <1>4, <1>5, <1>6, <1>7 DEF Login

\* The requests behind requireSession and requireMutation.
LEMMA WithSessionStep ==
    ASSUME AccessInv, NEW r \in Req, WithSession(r)
    PROVE  AccessStep
  <1> USE AccessAssumption DEF AccessInv
  <1>0. owner \in [name : Username, password : Password] /\ clock \in Nat
    BY DEF AccessTyped
  <1>1. ASSUME NEW kind \in Behind, NEW c \in Req, NEW ip \in IP, SessionLookup(r, kind, c, ip)
        PROVE  AccessStep
    <2>1. /\ req[r].kind = "none" /\ req[r].pc = "idle" /\ At(c, "login", "done")
          /\ UNCHANGED <<owner, sessions, hist, clock>>
      BY <1>1 DEF SessionLookup, At
    <2>2. PICK s \in sessions :
            /\ s.login = c
            /\ req' = [req EXCEPT ![r] =
                 [kind |-> kind, at |-> clock, user |-> owner.name, ip |-> ip, cookie |-> c,
                  row |-> s.id, csrf |-> s.csrf,
                  pc |-> IF Alive(s) THEN "touch" ELSE "expire"]]
      BY <1>1 DEF SessionLookup
    <2> DEFINE new == [kind |-> kind, at |-> clock, user |-> owner.name, ip |-> ip, cookie |-> c,
                       row |-> s.id, csrf |-> s.csrf,
                       pc |-> IF Alive(s) THEN "touch" ELSE "expire"]
    <2>3. s.id \in Nat /\ s.csrf \in Req
      BY DEF AccessTyped, Session
    <2>4. /\ new \in Standing /\ new.at = clock /\ new.cookie = c /\ new.pc \in {"touch", "expire"}
          /\ new.pc = "touch" => clock <= s.absolute
      BY <2>3 DEF AccessTyped, Standing, CookieRequest, CookiePlace, Place, Alive
    <2>5. req' = [req EXCEPT ![r] = new]
      BY <2>2
    <2> HIDE DEF new
    <2>6. req'[r] = new /\ \A q \in Req \ {r} : req'[q] = req[q]
      BY <2>5 DEF AccessTyped
    <2>7. Onward(r)
      BY <2>1, <2>2, <2>4, <2>6 DEF Onward, BeforeInsert, CookiePlace
    <2>8. AccessTyped'
      BY <2>1, <2>4, <2>5 DEF AccessTyped
    <2>9. NoNewRow /\ HistoryStep
      BY <2>1, FewerRows, HistoryKept
    <2> QED BY <2>6, <2>7, <2>8, <2>9, SameOnward DEF AccessStep
  <1>2. CASE SessionExpire(r)
    <2>1. /\ req[r].pc = "expire" /\ Finish(r) /\ sessions' \subseteq sessions
          /\ UNCHANGED <<owner, hist, clock>>
      BY <1>2 DEF SessionExpire, DeleteSession
    <2>2. NoNewRow /\ RowsTyped' /\ HistoryStep /\ hist' \in History
      BY <2>1, FewerRows, HistoryKept
    <2> QED BY <1>0, <2>1, <2>2, FinishStep
  <1>3. CASE SessionTouch(r)
    <2> DEFINE next == IF req[r].kind = "session" THEN "body" ELSE "mutation"
    <2>1. /\ req[r].pc = "touch" /\ Goto(r, next)
          /\ sessions' = {IF s.id = req[r].row THEN Refresh(s) ELSE s : s \in sessions}
          /\ UNCHANGED <<owner, hist, clock>>
      BY <1>3 DEF SessionTouch, Touched
    <2>2. \A s \in sessions : /\ Refresh(s) \in Session /\ Refresh(s).id = s.id
                             /\ Refresh(s).login = s.login
                             /\ Refresh(s).absolute = s.absolute
                             /\ Refresh(s).password = s.password
      BY <1>0 DEF AccessTyped, Session, Refresh
    <2>3. NoNewRow /\ RowsTyped'
      <3> DEFINE f == [s \in sessions |-> IF s.id = req[r].row THEN Refresh(s) ELSE s]
      <3>1. sessions' = {f[s] : s \in sessions}
        BY <2>1
      <3>2. IsFiniteSet(sessions')
        <4> HIDE DEF f
        <4> QED BY <3>1, FiniteRewrite DEF AccessTyped
      <3> QED BY <2>1, <2>2, <3>2 DEF NoNewRow, AccessTyped
    <2>4. HistoryStep /\ hist' \in History
      BY <2>1, HistoryKept
    <2>5. Follows(r, next)
      BY <2>1 DEF Follows, CookiePlace
    <2>6. next \notin BeforeInsert
      BY DEF BeforeInsert
    <2> HIDE DEF next
    <2> QED BY <2>1, <2>3, <2>4, <2>5, <2>6, GotoStep DEF BeforeInsert
  <1>4. CASE CheckMutation(r)
    <2>1. /\ req[r].pc = "mutation" /\ (Goto(r, "body") \/ Finish(r))
          /\ UNCHANGED <<owner, sessions, hist, clock>>
      BY <1>4 DEF CheckMutation
    <2>2. NoNewRow /\ RowsTyped' /\ HistoryStep /\ hist' \in History
      BY <2>1, FewerRows, HistoryKept
    <2>3. Follows(r, "body")
      BY <2>1 DEF Follows, CookiePlace
    <2> QED BY <1>0, <2>1, <2>2, <2>3, FinishStep, GotoStep DEF BeforeInsert
  <1>5. CASE SessionRotate(r)
    <2> DEFINE Fresh(s) == [s EXCEPT !.csrf = r]
    <2>1. /\ req[r].pc = "body" /\ Finish(r)
          /\ sessions' = {IF s.id = req[r].row THEN Fresh(s) ELSE s : s \in sessions}
          /\ UNCHANGED <<owner, hist, clock>>
      BY <1>5 DEF SessionRotate, At
    <2>2. \A s \in sessions : /\ Fresh(s) \in Session /\ Fresh(s).id = s.id
                             /\ Fresh(s).login = s.login
                             /\ Fresh(s).absolute = s.absolute
                             /\ Fresh(s).password = s.password
      BY DEF AccessTyped, Session
    <2> HIDE DEF Fresh
    <2>3. NoNewRow /\ RowsTyped'
      <3> DEFINE f == [s \in sessions |-> IF s.id = req[r].row THEN Fresh(s) ELSE s]
      <3>1. sessions' = {f[s] : s \in sessions}
        BY <2>1
      <3>2. IsFiniteSet(sessions')
        <4> HIDE DEF f
        <4> QED BY <3>1, FiniteRewrite DEF AccessTyped
      <3> QED BY <2>1, <2>2, <3>2 DEF NoNewRow, AccessTyped
    <2>4. HistoryStep /\ hist' \in History
      BY <2>1, HistoryKept
    <2> QED BY <1>0, <2>1, <2>3, <2>4, FinishStep
  <1>6. CASE Logout(r)
    <2>1. /\ req[r].pc = "body" /\ Finish(r) /\ sessions' \subseteq sessions
          /\ UNCHANGED <<owner, hist, clock>>
      BY <1>6 DEF Logout, DeleteSession, At
    <2>2. NoNewRow /\ RowsTyped' /\ HistoryStep /\ hist' \in History
      BY <2>1, FewerRows, HistoryKept
    <2> QED BY <1>0, <2>1, <2>2, FinishStep
  <1>7. ASSUME NEW id \in TicketId, NEW tool \in Tool, ToolLaunch(r, id, tool)
        PROVE  AccessStep
    <2>1. /\ req[r].pc = "body" /\ Finish(r)
          /\ UNCHANGED <<owner, sessions, hist, clock>>
      BY <1>7 DEF ToolLaunch, At
    <2>2. NoNewRow /\ RowsTyped' /\ HistoryStep /\ hist' \in History
      BY <2>1, FewerRows, HistoryKept
    <2> QED BY <1>0, <2>1, <2>2, FinishStep
  <1>8. ASSUME NEW current \in Password, ReauthLookup(r, current)
        PROVE  AccessStep
    <2> DEFINE new == [kind |-> "password", at |-> req[r].at, user |-> req[r].user,
                       ip |-> req[r].ip, cookie |-> req[r].cookie, password |-> current,
                       hash |-> HashFor(req[r].user), pc |-> "reserve"]
    <2>1. /\ req[r].kind = "password" /\ req[r].pc = "body" /\ req' = [req EXCEPT ![r] = new]
          /\ UNCHANGED <<owner, sessions, hist, clock>>
      BY <1>8 DEF ReauthLookup, At
    <2>2. req[r] \in CookieRequest
      BY <2>1, Where DEF CookiePlace
    <2>3. HashFor(req[r].user) \in Password \cup {NoHash}
      BY <1>0 DEF HashFor
    <2>4. new \in Standing /\ new.kind = "password" /\ new.pc = "reserve"
      BY <2>2, <2>3 DEF Standing, CookieRequest, PasswordRequest, PasswordPlace, Place
    <2> HIDE DEF new
    <2>5. req'[r] = new /\ \A q \in Req \ {r} : req'[q] = req[q]
      BY <2>1 DEF AccessTyped
    <2>6. Onward(r)
      BY <2>1, <2>4, <2>5 DEF Onward, CookiePlace
    <2>7. AccessTyped'
      BY <2>1, <2>4 DEF AccessTyped
    <2>8. NoNewRow /\ HistoryStep
      BY <2>1, FewerRows, HistoryKept
    <2> QED BY <2>5, <2>6, <2>7, <2>8, SameOnward DEF AccessStep
  <1>9. CASE ReauthReserve(r)
    <2>1. /\ req[r].kind = "password" /\ req[r].pc = "reserve"
          /\ UNCHANGED <<owner, sessions, clock>>
          /\ \/ Finish(r) /\ hist' = hist
             \/ Goto(r, "verify") /\ hist' = [hist EXCEPT !.hashed = @ \cup {r}]
      BY <1>9 DEF ReauthReserve, At, ReserveFailure
    <2>2. NoNewRow /\ RowsTyped' /\ HistoryStep /\ hist' \in History
      BY <2>1, FewerRows, HistoryKept
    <2>3. Follows(r, "verify")
      BY <2>1 DEF Follows, PasswordPlace
    <2> QED BY <1>0, <2>1, <2>2, <2>3, FinishStep, GotoStep DEF BeforeInsert
  <1>10. CASE ReauthVerify(r)
    <2>1. /\ req[r].kind = "password" /\ req[r].pc = "verify"
          /\ UNCHANGED <<owner, sessions, clock>>
          /\ \/ Finish(r) /\ hist' = hist
             \/ Goto(r, "owner") /\ hist' = [hist EXCEPT !.won = @ \cup {r}]
      BY <1>10 DEF ReauthVerify, At, RecordSuccess
    <2>2. NoNewRow /\ RowsTyped' /\ HistoryStep /\ hist' \in History
      BY <2>1, FewerRows, HistoryKept
    <2>3. Follows(r, "owner")
      BY <2>1 DEF Follows, PasswordPlace
    <2> QED BY <1>0, <2>1, <2>2, <2>3, FinishStep, GotoStep DEF BeforeInsert
  <1>11. CASE ChangeLookup(r)
    <2>1. /\ req[r].kind = "password" /\ req[r].pc = "owner"
          /\ Goto(r, "commit") \/ Finish(r)
          /\ UNCHANGED <<owner, sessions, hist, clock>>
      BY <1>11 DEF ChangeLookup, At
    <2>2. NoNewRow /\ RowsTyped' /\ HistoryStep /\ hist' \in History
      BY <2>1, FewerRows, HistoryKept
    <2>3. Follows(r, "commit")
      BY <2>1 DEF Follows, PasswordPlace
    <2> QED BY <1>0, <2>1, <2>2, <2>3, FinishStep, GotoStep DEF BeforeInsert
  <1>12. ASSUME NEW new \in Password, ChangeCommit(r, new)
         PROVE  AccessStep
    <2>1. /\ req[r].pc = "commit" /\ Finish(r) /\ clock' = clock /\ sessions' = {}
          /\ owner' = [owner EXCEPT !.password = new]
          /\ hist' = [hist EXCEPT !.straddled = @ \cup Straddling]
      BY <1>12 DEF ChangeCommit, At, SessionsAfterChange
    <2>2. owner' \in [name : Username, password : Password]
      BY <1>0, <2>1
    <2>3. Straddling \subseteq Req
      BY DEF Straddling
    <2>4. HistoryStep /\ hist' \in History
      BY <2>1, <2>3 DEF HistoryStep, AccessTyped, History
    <2>5. NoNewRow /\ RowsTyped'
      BY <2>1, FewerRows
    <2> QED BY <2>1, <2>2, <2>4, <2>5, FinishStep
  <1> QED BY <1>1, <1>2, <1>3, <1>4, <1>5, <1>6, <1>7, <1>8, <1>9, <1>10, <1>11, <1>12
          DEF WithSession

\* What else happens: failures, the command line, visits to a tool, time.
LEMMA OtherStep ==
    ASSUME AccessInv,
           \/ \E r \in Req : Abandon(r)
           \/ \E name \in OwnerName, password \in Password : ReplaceOwner(name, password)
           \/ Visit \/ Restart \/ Tick
           \/ UNCHANGED accessVars
    PROVE  AccessStep
  <1> USE AccessAssumption DEF AccessInv
  <1>0. owner \in [name : Username, password : Password] /\ clock \in Nat
    BY DEF AccessTyped
  <1>1. ASSUME NEW r \in Req, Abandon(r) PROVE AccessStep
    <2>1. /\ req[r].pc # "idle" /\ Finish(r) /\ UNCHANGED <<owner, sessions, clock>>
          /\ hist.upsets < MaxUpsets /\ hist' = [hist EXCEPT !.upsets = @ + 1]
      BY <1>1 DEF Abandon
    <2>2. NoNewRow /\ RowsTyped' /\ HistoryStep /\ hist' \in History
      BY <2>1, FewerRows, HistoryKept
    <2> QED BY <1>0, <2>1, <2>2, FinishStep
  <1>2. ASSUME NEW name \in OwnerName, NEW password \in Password, ReplaceOwner(name, password)
        PROVE  AccessStep
    <2>1. /\ sessions' = {} /\ UNCHANGED <<req, clock>>
          /\ owner' = [name |-> name, password |-> password]
          /\ hist.upsets < MaxUpsets
          /\ hist' = [hist EXCEPT !.straddled = @ \cup Straddling, !.upsets = @ + 1]
      BY <1>2 DEF ReplaceOwner, SessionsAfterChange
    <2>2. Straddling \subseteq Req
      BY DEF Straddling
    <2>3. HistoryStep /\ hist' \in History
      <3>1. hist \in History /\ hist.upsets + 1 \in 0..MaxUpsets
        BY <2>1 DEF AccessTyped, History
      <3>2. hist' \in History
        BY <2>1, <2>2, <3>1 DEF History
      <3>3. hist'.prior = hist.prior /\ hist'.straddled = hist.straddled \cup Straddling
        BY <2>1, <3>1 DEF History
      <3> QED BY <2>1, <3>2, <3>3 DEF HistoryStep
    <2>4. NoNewRow /\ RowsTyped'
      BY <2>1, FewerRows
    <2>5. AccessTyped'
      BY <2>1, <2>3, <2>4 DEF AccessTyped
    <2> QED BY <2>1, <2>3, <2>4, <2>5, SameOnward DEF AccessStep
  <1>3. CASE Restart
    <2>1. /\ UNCHANGED <<owner, sessions, clock>>
          /\ hist.upsets < MaxUpsets /\ hist' = [hist EXCEPT !.upsets = @ + 1]
          /\ req' = [r \in Req |-> IF req[r].pc = "idle" THEN req[r] ELSE Ended(req[r])]
      BY <1>3 DEF Restart
    <2>2. NoNewRow /\ RowsTyped' /\ HistoryStep /\ hist' \in History
      BY <2>1, FewerRows, HistoryKept
    <2>3. req' \in [Req -> Standing]
      BY <2>1, Where DEF Standing
    <2>4. \A q \in Req : Onward(q)
      BY <2>1, SameOnward, EndOnward DEF Ended
    <2>5. AccessTyped'
      BY <2>1, <2>2, <2>3 DEF AccessTyped
    <2> QED BY <2>2, <2>4, <2>5 DEF AccessStep
  <1>4. CASE Visit \/ Tick \/ UNCHANGED accessVars
    <2>1. UNCHANGED <<owner, sessions, req, hist>> /\ clock' \in 0..MaxTime
      BY <1>4 DEF Visit, Tick, authVars, accessVars, AccessTyped
    <2>2. NoNewRow /\ HistoryStep
      BY <2>1, FewerRows, HistoryKept
    <2>3. AccessTyped'
      BY <2>1 DEF AccessTyped
    <2> QED BY <2>1, <2>2, <2>3, SameOnward DEF AccessStep
  <1> QED BY <1>1, <1>2, <1>3, <1>4

\* The first state: no request has started.
LEMMA AccessInitInv == AccessInit => AccessInv
  <1> SUFFICES ASSUME AccessInit PROVE AccessInv
    OBVIOUS
  <1> USE AccessAssumption
  <1>1. AccessTyped
    BY FS_EmptySet DEF AccessInit, AccessTyped, Standing, History
  <1>2. \A r \in Req : req[r].kind = "none" /\ req[r].pc = "idle"
    BY DEF AccessInit, NewRequest
  <1>3. PriorInv
    BY <1>2 DEF AccessInit, PriorInv, At
  <1>4. HashInv
    BY <1>2 DEF AccessInit, HashInv, Straddling
  <1>5. BirthInv
    BY <1>2 DEF AccessInit, BirthInv, CookiePlace
  <1> QED BY <1>1, <1>3, <1>4, <1>5 DEF AccessInv

\* Every step is one of those, or changes nothing.
LEMMA NextStep == AccessInv /\ [AccessNext]_accessVars => AccessStep
  BY LoginStep, WithSessionStep, OtherStep DEF AccessNext

-----------------------------------------------------------------------------
(* The attempt table: what insertAttempt does to a finite set of rows.     *)

\* The rows of a table with unique ids that have fewer than MaxStored newer
\* ones are at most MaxStored: all but the oldest of them are newer than it.
LEMMA CapHolds ==
    ASSUME NEW fresh, IsFiniteSet(fresh), \A a \in fresh : a.id \in Nat,
           \A a, b \in fresh : a.id = b.id => a = b
    PROVE  Cardinality({a \in fresh : Cardinality({b \in fresh : b.id > a.id}) < MaxStored})
             <= MaxStored
  <1> DEFINE Newer(a) == {b \in fresh : b.id > a.id}
             K == {a \in fresh : Cardinality(Newer(a)) < MaxStored}
             Ids == {a.id : a \in K}
  <1> USE LockoutAssumption
  <1>1. CASE K = {}
    <2>1. Cardinality(K) <= MaxStored
      <3> HIDE DEF K
      <3> QED BY <1>1, FS_EmptySet
    <2> QED BY <2>1
  <1>2. CASE K # {}
    <2>1. Ids # {} /\ Ids \subseteq Nat
      BY <1>2
    <2> HIDE DEF Ids
    <2>2. PICK i \in Ids : \A j \in Ids : i <= j
      BY <2>1, LeastNumber
    <2>3. PICK m \in K : \A a \in K : m.id <= a.id
      <3> HIDE DEF K
      <3>1. PICK m \in K : m.id = i
        BY <2>2 DEF Ids
      <3> QED BY <2>2, <3>1 DEF Ids
    <2>4. \A a \in K \ {m} : a \in fresh /\ m.id # a.id
      BY <2>3
    <2>5. K \ {m} \subseteq Newer(m)
      BY <2>3, <2>4
    <2>6. IsFiniteSet(Newer(m)) /\ Cardinality(Newer(m)) \in Nat /\ IsFiniteSet(K)
      BY FS_Subset, FS_CardinalityType
    <2>7. Cardinality(K \ {m}) <= Cardinality(Newer(m))
      BY <2>5, <2>6, FS_Subset
    <2>8. Cardinality(K \ {m}) = Cardinality(K) - 1 /\ Cardinality(K) \in Nat
      BY <2>3, <2>6, FS_RemoveElement, FS_CardinalityType
    <2>9. Cardinality(Newer(m)) < MaxStored
      BY <2>3
    <2>10. Cardinality(K) <= MaxStored
      <3> HIDE DEF K, Newer
      <3> QED BY <2>6, <2>7, <2>8, <2>9
    <2> QED BY <2>10
  <1> QED BY <1>1, <1>2

\* How a table may differ from the rows it was made from: one new row, later
\* than the others; nothing in the window is lost below the cap.
Adds(rows, out, new) ==
    /\ out \subseteq rows \cup {new}
    /\ new \notin rows
    /\ \A a \in out : a # new => a \in rows /\ a.id < new.id
    /\ Cardinality(out) <= Cardinality(rows) + 1
    /\ Cardinality(rows) + 1 <= MaxStored =>
          /\ new \in out
          /\ \A a \in rows : InWindow(a, new.at) => a \in out

\* insertAttempt adds one row above all others, drops nothing of the window
\* below the cap, and leaves a table that keeps its keys and its cap.
LEMMA InsertAdds ==
    ASSUME NEW rows, rows \subseteq Attempt, IsFiniteSet(rows),
           \A a, b \in rows : a.id = b.id => a = b,
           NEW s \in Stream, NEW ok \in BOOLEAN, NEW now \in 0..MaxTime
    PROVE  LET out == insertAttempt(rows, s, ok, now) IN
           /\ out \subseteq Attempt /\ IsFiniteSet(out) /\ Cardinality(out) <= MaxStored
           /\ \A a, b \in out : a.id = b.id => a = b
           /\ \E n \in Nat : Adds(rows, out, [id |-> n, stream |-> s, ok |-> ok, at |-> now])
  <1> USE LockoutAssumption, AccessAssumption
  <1> DEFINE kept  == {a \in rows : InWindow(a, now)}
             n     == LastId(kept) + 1
             new   == [id |-> n, stream |-> s, ok |-> ok, at |-> now]
             fresh == kept \cup {new}
             Newer(a) == {b \in fresh : b.id > a.id}
             out   == {a \in fresh : Cardinality(Newer(a)) < MaxStored}
  <1>1. out = insertAttempt(rows, s, ok, now)
    BY DEF insertAttempt
  <1>2. IsFiniteSet(kept) /\ Cardinality(kept) <= Cardinality(rows)
        /\ Cardinality(kept) \in Nat /\ Cardinality(rows) \in Nat
    BY FS_Subset, FS_CardinalityType
  <1>3. \A a \in kept : a \in rows /\ a.id \in Nat /\ a \in Attempt
    BY DEF Attempt
  <1>4. n \in Nat /\ \A a \in kept : a.id < n
    <2>1. LastId(kept) \in Nat /\ \A a \in kept : a.id <= LastId(kept)
      BY <1>2, <1>3, LastIdMax
    <2> QED BY <1>3, <2>1
  <1> HIDE DEF n
  <1>5. new \in Attempt /\ new.id = n /\ new.at = now
    BY <1>4 DEF Attempt
  <1>6. InWindow(new, now)
    BY <1>5 DEF InWindow
  <1> HIDE DEF new
  <1>7. new \notin kept /\ new \notin rows
    BY <1>4, <1>5, <1>6
  <1>8. fresh \subseteq Attempt /\ \A a \in fresh : a.id \in Nat
    BY <1>3, <1>4, <1>5
  <1>9. \A a, b \in fresh : a.id = b.id => a = b
    BY <1>3, <1>4, <1>5
  <1>10. IsFiniteSet(fresh) /\ Cardinality(fresh) = Cardinality(kept) + 1
    BY <1>2, <1>7, FS_AddElement
  <1>11. Cardinality(out) <= MaxStored
    BY <1>8, <1>9, <1>10, CapHolds
  <1>12. IsFiniteSet(out) /\ Cardinality(out) <= Cardinality(fresh)
    BY <1>10, FS_Subset
  <1>13. ASSUME Cardinality(rows) + 1 <= MaxStored PROVE out = fresh
    <2>1. ASSUME NEW a \in fresh PROVE Cardinality(Newer(a)) < MaxStored
      <3>1. Newer(a) \subseteq fresh \ {a}
        BY <1>8
      <3>2. IsFiniteSet(fresh \ {a}) /\ Cardinality(fresh \ {a}) = Cardinality(fresh) - 1
        BY <1>10, FS_RemoveElement
      <3>3. IsFiniteSet(Newer(a)) /\ Cardinality(Newer(a)) <= Cardinality(fresh \ {a})
        BY <3>1, <3>2, FS_Subset
      <3>4. Cardinality(Newer(a)) \in Nat
        BY <3>3, FS_CardinalityType
      <3> HIDE DEF Newer, fresh, kept
      <3> QED BY <1>2, <1>10, <1>13, <3>2, <3>3, <3>4
    <2> QED BY <2>1
  <1>14. Adds(rows, out, new)
    <2>1. out \subseteq rows \cup {new}
      OBVIOUS
    <2>2. \A a \in out : a # new => a \in rows /\ a.id < new.id
      BY <1>4, <1>5
    <2>3. Cardinality(out) <= Cardinality(rows) + 1
      <3>1. Cardinality(out) \in Nat
        BY <1>12, FS_CardinalityType
      <3> HIDE DEF out, fresh, kept
      <3> QED BY <1>2, <1>10, <1>12, <3>1
    <2>4. ASSUME Cardinality(rows) + 1 <= MaxStored
          PROVE  new \in out /\ \A a \in rows : InWindow(a, new.at) => a \in out
      <3>1. new \in fresh /\ \A a \in rows : InWindow(a, new.at) => a \in fresh
        BY <1>5
      <3> HIDE DEF out, fresh, kept
      <3> QED BY <1>13, <2>4, <3>1
    <2> HIDE DEF out, fresh, kept
    <2> QED BY <1>7, <2>1, <2>2, <2>3, <2>4 DEF Adds
  <1>15. out \subseteq Attempt /\ \A a, b \in out : a.id = b.id => a = b
    BY <1>8, <1>9
  <1>16. \E k \in Nat : Adds(rows, out, [id |-> k, stream |-> s, ok |-> ok, at |-> now])
    <2> HIDE DEF out, fresh, kept
    <2> QED BY <1>4, <1>14 DEF new
  <1> HIDE DEF out
  <1> QED BY <1>1, <1>11, <1>12, <1>15, <1>16

-----------------------------------------------------------------------------
(* What a step does to the attempts: nothing, or it counts a guess, or it  *)
(* records a success; and how requests move meanwhile.                     *)

\* A request keeps its user, address and time, and a counted one stays so.
Moved(q) ==
    /\ req[q].pc # "idle" =>
          /\ req'[q].pc # "idle" /\ req'[q].kind = req[q].kind /\ req'[q].at = req[q].at
          /\ req'[q].user = req[q].user /\ req'[q].ip = req[q].ip
    /\ req[q].pc = "idle" /\ req'[q].pc # "idle" => req'[q].at <= clock'
    /\ req[q].pc \notin Uncounted => req'[q].pc \notin Uncounted

\* No request comes to its hash.
NoneReaches(R) == \A q \in R : req'[q].pc = "verify" => req[q].pc = "verify"

Quiet ==
    /\ attempts' = attempts /\ hist'.hashed = hist.hashed /\ hist'.won = hist.won
    /\ NoneReaches(Req)

Reserves(r) ==
    /\ req[r].pc = "reserve" /\ req'[r].pc = "verify" /\ ~Limited(StreamOf(r), req[r].at)
    /\ attempts' = insertAttempt(attempts, StreamOf(r), FALSE, req[r].at)
    /\ hist'.hashed = hist.hashed \cup {r} /\ hist'.won = hist.won
    /\ NoneReaches(Req \ {r})

Succeeds(r) ==
    /\ req[r].pc = "verify" /\ req'[r].pc # "verify"
    /\ attempts' = insertAttempt({a \in attempts : a.ok \/ a.stream # StreamOf(r)},
                                 StreamOf(r), TRUE, req[r].at)
    /\ hist'.hashed = hist.hashed /\ hist'.won = hist.won \cup {r}
    /\ NoneReaches(Req)

AttemptStep ==
    /\ clock <= clock'
    /\ \A q \in Req : Moved(q)
    /\ Quiet \/ \E r \in Req : Reserves(r) \/ Succeeds(r)

\* A handler that ends without touching the attempts.
LEMMA FinishAttempt ==
    ASSUME AccessTyped, NEW r \in Req, Finish(r), req[r].pc # "idle", clock' = clock,
           attempts' = attempts, hist'.hashed = hist.hashed, hist'.won = hist.won
    PROVE  AttemptStep
  <1>1. /\ \A q \in Req \ {r} : req'[q] = req[q]
        /\ req'[r].kind = req[r].kind /\ req'[r].pc = "done" /\ req'[r].at = req[r].at
        /\ req'[r].user = req[r].user /\ req'[r].ip = req[r].ip
    BY FinishShape
  <1>2. \A q \in Req : Moved(q)
    BY <1>1 DEF Moved, Uncounted
  <1>3. Quiet
    BY <1>1 DEF Quiet, NoneReaches
  <1>4. clock <= clock'
    BY AccessAssumption DEF AccessTyped
  <1> QED BY <1>2, <1>3, <1>4 DEF AttemptStep

\* The same of one that moves on.
LEMMA GotoAttempt ==
    ASSUME AccessTyped, NEW r \in Req, NEW pc, Follows(r, pc), Goto(r, pc),
           pc \notin {"idle", "verify"}, req[r].pc \notin Uncounted => pc \notin Uncounted,
           clock' = clock,
           attempts' = attempts, hist'.hashed = hist.hashed, hist'.won = hist.won
    PROVE  AttemptStep
  <1>1. \A q \in Req \ {r} : req'[q] = req[q]
    BY GotoShape
  <1>2. req'[r].pc = pc /\ Carried(r)
    BY GotoShape
  <1>3. \A q \in Req : Moved(q)
    BY <1>1, <1>2 DEF Moved, Uncounted, Carried, Follows, LoginPlace, CookiePlace, PasswordPlace
  <1>4. Quiet
    BY <1>1, <1>2 DEF Quiet, NoneReaches
  <1>5. clock <= clock'
    BY AccessAssumption DEF AccessTyped
  <1> QED BY <1>3, <1>4, <1>5 DEF AttemptStep

\* ReserveFailure, of a login or a reauthentication.
LEMMA ReserveAttempt ==
    ASSUME AccessTyped, NEW r \in Req, Follows(r, "verify"), req[r].pc = "reserve",
           ReserveFailure(r, "verify"), clock' = clock
    PROVE  AttemptStep
  <1>1. CASE Limited(StreamOf(r), req[r].at)
    BY <1>1, FinishAttempt DEF ReserveFailure
  <1>2. CASE ~Limited(StreamOf(r), req[r].at)
    <2>1. /\ Goto(r, "verify") /\ hist' = [hist EXCEPT !.hashed = @ \cup {r}]
          /\ attempts' = insertAttempt(attempts, StreamOf(r), FALSE, req[r].at)
      BY <1>2 DEF ReserveFailure
    <2>2. \A q \in Req \ {r} : req'[q] = req[q]
      BY <2>1, GotoShape
    <2>3. req'[r].pc = "verify" /\ Carried(r)
      BY <2>1, GotoShape
    <2>4. \A q \in Req : Moved(q)
      BY <2>2, <2>3 DEF Moved, Uncounted, Carried
    <2>5. hist'.hashed = hist.hashed \cup {r} /\ hist'.won = hist.won
      BY <2>1 DEF AccessTyped, History
    <2>6. Reserves(r)
      BY <1>2, <2>1, <2>2, <2>3, <2>5 DEF Reserves, NoneReaches
    <2>7. clock <= clock'
      BY AccessAssumption DEF AccessTyped
    <2> QED BY <2>4, <2>6, <2>7 DEF AttemptStep
  <1> QED BY <1>1, <1>2

\* The comparison of the hash, and RecordSuccess.
LEMMA VerifyAttempt ==
    ASSUME AccessTyped, NEW r \in Req, NEW pc \in {"clear", "owner"}, Follows(r, pc),
           req[r].pc = "verify", clock' = clock,
           \/ Goto(r, pc) /\ RecordSuccess(r)
           \/ Finish(r) /\ UNCHANGED <<attempts, hist>>
    PROVE  AttemptStep
  <1>1. CASE Finish(r) /\ UNCHANGED <<attempts, hist>>
    BY <1>1, FinishAttempt
  <1>2. CASE Goto(r, pc) /\ RecordSuccess(r)
    <2>1. \A q \in Req \ {r} : req'[q] = req[q]
      BY <1>2, GotoShape
    <2>2. req'[r].pc = pc /\ Carried(r)
      BY <1>2, GotoShape
    <2>3. \A q \in Req : Moved(q)
      BY <2>1, <2>2 DEF Moved, Uncounted, Carried
    <2>4. hist'.hashed = hist.hashed /\ hist'.won = hist.won \cup {r}
      BY <1>2 DEF RecordSuccess, AccessTyped, History
    <2>5. Succeeds(r)
      BY <1>2, <2>1, <2>2, <2>4 DEF Succeeds, RecordSuccess, NoneReaches
    <2>6. clock <= clock'
      BY AccessAssumption DEF AccessTyped
    <2> QED BY <2>3, <2>5, <2>6 DEF AttemptStep
  <1> QED BY <1>1, <1>2

\* A request that begins, or that is given another record before its hash or
\* after it.
LEMMA RecordAttempt ==
    ASSUME AccessTyped, NEW r \in Req, NEW new, req' = [req EXCEPT ![r] = new],
           new.pc \notin {"idle", "verify"},
           req[r].pc \notin Uncounted => new.pc \notin Uncounted,
           \/ req[r].pc = "idle" /\ new.at = clock
           \/ /\ new.kind = req[r].kind /\ new.at = req[r].at
              /\ new.user = req[r].user /\ new.ip = req[r].ip /\ req[r].pc # "idle",
           clock' = clock, attempts' = attempts, hist' = hist
    PROVE  AttemptStep
  <1>1. req'[r] = new /\ \A q \in Req \ {r} : req'[q] = req[q]
    BY DEF AccessTyped
  <1>2. clock <= clock
    BY AccessAssumption DEF AccessTyped
  <1>3. \A q \in Req : Moved(q)
    BY <1>1, <1>2 DEF Moved, Uncounted
  <1>4. Quiet
    BY <1>1 DEF Quiet, NoneReaches, Uncounted
  <1> QED BY <1>2, <1>3, <1>4 DEF AttemptStep

\* The statements of a login.
LEMMA LoginAttempt ==
    ASSUME AccessInv, NEW r \in Req, Login(r)
    PROVE  AttemptStep
  <1> USE DEF AccessInv
  <1>1. ASSUME NEW user \in Username, NEW ip \in IP, NEW password \in Password,
               LoginBegin(r, user, ip, password)
        PROVE  AttemptStep
    BY <1>1, RecordAttempt DEF LoginBegin, At, Uncounted
  <1>2. CASE LoginLookup(r)
    <2> DEFINE new == [req[r] EXCEPT !.pc = "reserve", !.hash = HashFor(req[r].user)]
    <2>1. req[r] \in LoginRequest
      BY <1>2, Where DEF LoginLookup, At, LoginPlace
    <2>2. req' = [req EXCEPT ![r] = new]
      BY <1>2 DEF LoginLookup, AccessTyped
    <2>3. /\ new.pc = "reserve" /\ new.kind = req[r].kind /\ new.at = req[r].at
          /\ new.user = req[r].user /\ new.ip = req[r].ip
      BY <2>1 DEF LoginRequest
    <2>4. /\ req[r].pc = "lookup" /\ clock' = clock /\ attempts' = attempts /\ hist' = hist
      BY <1>2 DEF LoginLookup, At
    <2> HIDE DEF new
    <2> QED BY <2>2, <2>3, <2>4, RecordAttempt DEF Uncounted
  <1>3. CASE LoginReserve(r)
    BY <1>3, ReserveAttempt DEF LoginReserve, At, Follows, LoginPlace
  <1>4. CASE LoginVerify(r)
    BY <1>4, VerifyAttempt DEF LoginVerify, At, Follows, LoginPlace
  <1>5. CASE LoginClear(r)
    <2>1. /\ req[r].kind = "login" /\ req[r].pc = "clear" /\ Goto(r, "insert")
          /\ clock' = clock /\ attempts' = attempts
      BY <1>5 DEF LoginClear, At
    <2>2. hist'.hashed = hist.hashed /\ hist'.won = hist.won
      BY <1>5 DEF LoginClear, AccessTyped, History
    <2>3. Follows(r, "insert")
      BY <2>1 DEF Follows, LoginPlace
    <2> QED BY <2>1, <2>2, <2>3, GotoAttempt DEF Uncounted
  <1>6. CASE LoginInsert(r)
    <2> DEFINE new == [req[r] EXCEPT !.pc = "audit", !.row = LastId(sessions) + 1]
    <2>1. req[r] \in LoginRequest
      BY <1>6, Where DEF LoginInsert, At, LoginPlace
    <2>2. req' = [req EXCEPT ![r] = new]
      BY <1>6 DEF LoginInsert, AccessTyped
    <2>3. /\ new.pc = "audit" /\ new.kind = req[r].kind /\ new.at = req[r].at
          /\ new.user = req[r].user /\ new.ip = req[r].ip
      BY <2>1 DEF LoginRequest
    <2>4. req[r].pc = "insert" /\ clock' = clock /\ attempts' = attempts /\ hist' = hist
      BY <1>6 DEF LoginInsert, At
    <2> HIDE DEF new
    <2> QED BY <2>2, <2>3, <2>4, RecordAttempt DEF Uncounted
  <1>7. CASE LoginAudit(r)
    BY <1>7, FinishAttempt DEF LoginAudit, At
  <1> QED BY <1>1, <1>2, <1>3, <1>4, <1>5, <1>6, <1>7 DEF Login

\* The requests with a cookie.
LEMMA WithSessionAttempt ==
    ASSUME AccessInv, NEW r \in Req, WithSession(r)
    PROVE  AttemptStep
  <1> USE DEF AccessInv
  <1>0. clock <= clock
    BY AccessAssumption DEF AccessTyped
  <1>1. ASSUME NEW kind \in Behind, NEW c \in Req, NEW ip \in IP, SessionLookup(r, kind, c, ip)
        PROVE  AttemptStep
    <2>1. PICK s \in sessions :
            req' = [req EXCEPT ![r] =
              [kind |-> kind, at |-> clock, user |-> owner.name, ip |-> ip, cookie |-> c,
               row |-> s.id, csrf |-> s.csrf,
               pc |-> IF Alive(s) THEN "touch" ELSE "expire"]]
      BY <1>1 DEF SessionLookup
    <2> DEFINE new == [kind |-> kind, at |-> clock, user |-> owner.name, ip |-> ip, cookie |-> c,
                       row |-> s.id, csrf |-> s.csrf,
                       pc |-> IF Alive(s) THEN "touch" ELSE "expire"]
    <2>2. /\ req[r].pc = "idle" /\ req' = [req EXCEPT ![r] = new]
          /\ clock' = clock /\ attempts' = attempts /\ hist' = hist
      BY <1>1, <2>1 DEF SessionLookup, At
    <2>3. new.pc \in {"touch", "expire"} /\ new.at = clock
      OBVIOUS
    <2> HIDE DEF new
    <2> QED BY <2>2, <2>3, RecordAttempt DEF Uncounted
  <1>2. CASE SessionExpire(r)
    BY <1>2, FinishAttempt DEF SessionExpire
  <1>3. CASE SessionTouch(r)
    <2>1. /\ req[r].pc = "touch" /\ (Goto(r, "body") \/ Goto(r, "mutation"))
          /\ clock' = clock /\ attempts' = attempts /\ hist' = hist
      BY <1>3 DEF SessionTouch
    <2>2. Follows(r, "body") /\ Follows(r, "mutation")
      BY <2>1 DEF Follows, CookiePlace
    <2> QED BY <2>1, <2>2, GotoAttempt DEF Uncounted
  <1>4. CASE CheckMutation(r)
    <2>1. /\ req[r].pc = "mutation" /\ (Goto(r, "body") \/ Finish(r))
          /\ clock' = clock /\ attempts' = attempts /\ hist' = hist
      BY <1>4 DEF CheckMutation
    <2>2. Follows(r, "body")
      BY <2>1 DEF Follows, CookiePlace
    <2> QED BY <2>1, <2>2, GotoAttempt, FinishAttempt DEF Uncounted
  <1>5. CASE SessionRotate(r)
    BY <1>5, FinishAttempt DEF SessionRotate, At
  <1>6. CASE Logout(r)
    BY <1>6, FinishAttempt DEF Logout, At
  <1>7. ASSUME NEW id \in TicketId, NEW tool \in Tool, ToolLaunch(r, id, tool)
        PROVE  AttemptStep
    BY <1>7, FinishAttempt DEF ToolLaunch, At
  <1>8. ASSUME NEW current \in Password, ReauthLookup(r, current)
        PROVE  AttemptStep
    BY <1>8, RecordAttempt DEF ReauthLookup, At, Uncounted
  <1>9. CASE ReauthReserve(r)
    BY <1>9, ReserveAttempt DEF ReauthReserve, At, Follows, PasswordPlace
  <1>10. CASE ReauthVerify(r)
    BY <1>10, VerifyAttempt DEF ReauthVerify, At, Follows, PasswordPlace
  <1>11. CASE ChangeLookup(r)
    <2>1. /\ req[r].kind = "password" /\ req[r].pc = "owner" /\ (Goto(r, "commit") \/ Finish(r))
          /\ clock' = clock /\ attempts' = attempts /\ hist' = hist
      BY <1>11 DEF ChangeLookup, At
    <2>2. Follows(r, "commit")
      BY <2>1 DEF Follows, PasswordPlace
    <2> QED BY <2>1, <2>2, GotoAttempt, FinishAttempt DEF Uncounted
  <1>12. ASSUME NEW new \in Password, ChangeCommit(r, new)
         PROVE  AttemptStep
    <2>1. /\ req[r].pc = "commit" /\ Finish(r) /\ clock' = clock /\ attempts' = attempts
          /\ hist' = [hist EXCEPT !.straddled = @ \cup Straddling]
      BY <1>12 DEF ChangeCommit, At
    <2>2. hist'.hashed = hist.hashed /\ hist'.won = hist.won
      BY <2>1 DEF AccessTyped, History
    <2> QED BY <2>1, <2>2, FinishAttempt
  <1> QED BY <1>1, <1>2, <1>3, <1>4, <1>5, <1>6, <1>7, <1>8, <1>9, <1>10, <1>11, <1>12
          DEF WithSession

\* Failures, the command line, visits to a tool, time.
LEMMA OtherAttempt ==
    ASSUME AccessInv,
           \/ \E r \in Req : Abandon(r)
           \/ \E name \in OwnerName, password \in Password : ReplaceOwner(name, password)
           \/ Visit \/ Restart \/ Tick
           \/ UNCHANGED accessVars
    PROVE  AttemptStep
  <1> USE DEF AccessInv
  <1>0. clock <= clock /\ clock <= clock + 1
    BY AccessAssumption DEF AccessTyped
  <1>1. ASSUME NEW r \in Req, Abandon(r) PROVE AttemptStep
    <2>1. /\ req[r].pc # "idle" /\ Finish(r) /\ clock' = clock /\ attempts' = attempts
          /\ hist' = [hist EXCEPT !.upsets = @ + 1]
      BY <1>1 DEF Abandon
    <2>2. hist'.hashed = hist.hashed /\ hist'.won = hist.won
      BY <2>1 DEF AccessTyped, History
    <2> QED BY <2>1, <2>2, FinishAttempt
  <1>2. ASSUME NEW name \in OwnerName, NEW password \in Password, ReplaceOwner(name, password)
        PROVE  AttemptStep
    <2>1. req' = req /\ clock' = clock /\ attempts' = attempts
      BY <1>2 DEF ReplaceOwner
    <2>2. hist'.hashed = hist.hashed /\ hist'.won = hist.won
      BY <1>2 DEF ReplaceOwner, AccessTyped, History
    <2> QED BY <1>0, <2>1, <2>2 DEF AttemptStep, Moved, Quiet, NoneReaches
  <1>3. CASE Restart
    <2>1. /\ clock' = clock /\ attempts' = attempts
          /\ req' = [r \in Req |-> IF req[r].pc = "idle" THEN req[r] ELSE Ended(req[r])]
      BY <1>3 DEF Restart
    <2>2. hist'.hashed = hist.hashed /\ hist'.won = hist.won
      BY <1>3 DEF Restart, AccessTyped, History
    <2>3. \A q \in Req : Moved(q)
      BY <2>1 DEF Moved, Ended, Uncounted
    <2>4. Quiet
      BY <2>1, <2>2 DEF Quiet, NoneReaches, Ended
    <2> QED BY <1>0, <2>1, <2>3, <2>4 DEF AttemptStep
  <1>4. CASE Visit \/ Tick \/ UNCHANGED accessVars
    <2>1. /\ attempts' = attempts /\ req' = req /\ hist' = hist
          /\ clock' = clock \/ clock' = clock + 1
      BY <1>4 DEF Visit, Tick, authVars, accessVars
    <2> QED BY <1>0, <2>1 DEF AttemptStep, Moved, Quiet, NoneReaches
  <1> QED BY <1>1, <1>2, <1>3, <1>4

\* So every step leaves the attempts alone, counts a guess or records a success.
LEMMA NextAttempt == AccessInv /\ [AccessNext]_accessVars => AttemptStep
  BY LoginAttempt, WithSessionAttempt, OtherAttempt DEF AccessNext

-----------------------------------------------------------------------------
(* The attempts and the guesses they stand for.                            *)

\* A request that has started belongs to a stream.
LEMMA StreamTyped ==
    ASSUME AccessTyped, NEW r \in Req, req[r].pc # "idle"
    PROVE  StreamOf(r) \in Stream /\ req[r].at \in 0..MaxTime
  <1>1. Ended(req[r]) \in EndedRequest
    BY Where
  <1> QED BY <1>1 DEF Ended, EndedRequest, StreamOf, Stream

\* The table after a step: the rows it was made from, and the new one.
LEMMA ReserveAdds ==
    ASSUME AccessTyped, RowsInv, NEW r \in Req, Reserves(r)
    PROVE  /\ RowsInv'
           /\ \E n \in Nat : Adds(attempts, attempts',
                 [id |-> n, stream |-> StreamOf(r), ok |-> FALSE, at |-> req[r].at])
  <1>1. StreamOf(r) \in Stream /\ req[r].at \in 0..MaxTime
    BY StreamTyped DEF Reserves
  <1> QED BY <1>1, InsertAdds DEF RowsInv, Reserves

\* What RecordSuccess leaves of the table before it inserts its own row.
Remaining(r) == {a \in attempts : a.ok \/ a.stream # StreamOf(r)}

\* The same of RecordSuccess, whose row is inserted into what remains.
LEMMA SuccessAdds ==
    ASSUME AccessTyped, RowsInv, NEW r \in Req, Succeeds(r)
    PROVE  /\ RowsInv'
           /\ IsFiniteSet(Remaining(r)) /\ Cardinality(Remaining(r)) <= Cardinality(attempts)
           /\ \E n \in Nat : Adds(Remaining(r), attempts',
                 [id |-> n, stream |-> StreamOf(r), ok |-> TRUE, at |-> req[r].at])
  <1>1. StreamOf(r) \in Stream /\ req[r].at \in 0..MaxTime
    BY StreamTyped DEF Succeeds
  <1>2. Remaining(r) \subseteq attempts
    BY DEF Remaining
  <1>3. IsFiniteSet(Remaining(r)) /\ Cardinality(Remaining(r)) <= Cardinality(attempts)
    BY <1>2, FS_Subset DEF RowsInv
  <1>4. /\ Remaining(r) \subseteq Attempt
        /\ \A a, b \in Remaining(r) : a.id = b.id => a = b
    BY <1>2 DEF RowsInv
  <1>5. attempts' = insertAttempt(Remaining(r), StreamOf(r), TRUE, req[r].at)
    BY DEF Succeeds, Remaining
  <1> QED BY <1>1, <1>3, <1>4, <1>5, InsertAdds DEF RowsInv

\* Every step keeps the keys and the cap of the table.
LEMMA RowsStep ==
    ASSUME AccessTyped, RowsInv, AttemptStep
    PROVE  RowsInv'
  <1>1. CASE Quiet
    BY <1>1 DEF Quiet, RowsInv
  <1> QED BY <1>1, ReserveAdds, SuccessAdds DEF AttemptStep

\* What a counted request is counted as does not change.
LEMMA SameGuess ==
    ASSUME CountInv, AttemptStep, AccessTyped, NEW q \in hist.hashed
    PROVE  /\ q \in Req /\ req[q].pc # "idle" /\ req'[q].pc \notin Uncounted
           /\ StreamOf(q)' = StreamOf(q) /\ req'[q].at = req[q].at
  <1>1. q \in Req /\ req[q].pc \notin Uncounted
    BY DEF CountInv, AccessTyped, History
  <1> QED BY <1>1 DEF AttemptStep, Moved, Uncounted, StreamOf

\* No request carries a time that has not come.
LEMMA StartsInThePast ==
    ASSUME CountInv, AttemptStep, AccessTyped, AccessTyped'
    PROVE  \A q \in Req : req'[q].pc # "idle" => req'[q].at <= clock'
  <1> SUFFICES ASSUME NEW q \in Req, req'[q].pc # "idle" PROVE req'[q].at <= clock'
    OBVIOUS
  <1>1. CASE req[q].pc = "idle"
    BY <1>1 DEF AttemptStep, Moved
  <1>2. CASE req[q].pc # "idle"
    <2>1. req[q].at \in 0..MaxTime /\ clock \in 0..MaxTime /\ clock' \in 0..MaxTime
      BY <1>2, StreamTyped DEF AccessTyped
    <2> QED BY <1>2, <2>1, AccessAssumption DEF AttemptStep, Moved, CountInv
  <1> QED BY <1>1, <1>2

\* Requests that move on without an attempt leave the counts as they are.
LEMMA QuietCount ==
    ASSUME CountInv, AttemptStep, AccessTyped, AccessTyped', Quiet
    PROVE  CountInv'
  <1> USE DEF CountInv
  <1>1. \A q \in hist'.hashed : req'[q].pc \notin Uncounted
    BY SameGuess DEF Quiet
  <1>2. \A q \in hist'.won : req'[q].pc # "verify"
    BY SameGuess DEF Quiet, NoneReaches
  <1>3. \A q \in Req : req'[q].pc = "verify" => q \in hist'.hashed
    BY DEF Quiet, NoneReaches
  <1>4. \A q \in Req : req'[q].pc # "idle" => req'[q].at <= clock'
    BY StartsInThePast
  <1>5. \A a \in attempts' : a.ok => \E w \in hist'.won : StreamOf(w)' = a.stream /\ req'[w].at = a.at
    BY SameGuess DEF Quiet
  <1> QED BY <1>1, <1>2, <1>3, <1>4, <1>5 DEF Quiet

\* A guess is counted: one more request, and one more row, at the end.
LEMMA ReserveCount ==
    ASSUME CountInv, RowsInv, AttemptStep, AccessTyped, AccessTyped', NEW r \in Req, Reserves(r)
    PROVE  CountInv'
  <1> USE DEF CountInv
  <1>1. r \notin hist.hashed
    BY DEF Reserves, Uncounted
  <1>2. IsFiniteSet(hist'.hashed) /\ Cardinality(hist'.hashed) = Cardinality(hist.hashed) + 1
    BY <1>1, FS_AddElement DEF Reserves
  <1>3. IsFiniteSet(hist.won)
    BY FS_Subset
  <1>4. PICK n \in Nat : Adds(attempts, attempts',
              [id |-> n, stream |-> StreamOf(r), ok |-> FALSE, at |-> req[r].at])
    BY ReserveAdds
  <1> DEFINE new == [id |-> n, stream |-> StreamOf(r), ok |-> FALSE, at |-> req[r].at]
  <1>5. \A a \in attempts' : a = new \/ (a \in attempts /\ a.id < new.id)
    BY <1>4 DEF Adds
  <1>6. new.id = n /\ ~new.ok
    OBVIOUS
  <1>7. Cardinality(attempts') <= Cardinality(hist'.hashed) + Cardinality(hist'.won)
    <2>1. Cardinality(attempts') <= Cardinality(attempts) + 1
      BY <1>4 DEF Adds
    <2>2. /\ Cardinality(attempts) \in Nat /\ Cardinality(attempts') \in Nat
          /\ Cardinality(hist.hashed) \in Nat /\ Cardinality(hist.won) \in Nat
      BY <1>3, ReserveAdds, FS_CardinalityType DEF RowsInv
    <2>3. /\ hist'.won = hist.won
          /\ Cardinality(attempts) <= Cardinality(hist.hashed) + Cardinality(hist.won)
      BY DEF Reserves
    <2> QED BY <1>2, <2>1, <2>2, <2>3
  <1> HIDE DEF new
  <1>8. \A q \in hist'.hashed : req'[q].pc \notin Uncounted
    BY SameGuess DEF Reserves, Uncounted
  <1>9. \A q \in hist'.won : req'[q].pc # "verify"
    BY <1>1, SameGuess DEF Reserves, NoneReaches
  <1>10. \A q \in Req : req'[q].pc = "verify" => q \in hist'.hashed
    BY DEF Reserves, NoneReaches
  <1>11. \A a, b \in attempts' : a.stream = b.stream /\ a.ok /\ ~b.ok => a.id < b.id
    BY <1>5, <1>6
  <1>12. \A a \in attempts' : a.ok => \E w \in hist'.won : StreamOf(w)' = a.stream /\ req'[w].at = a.at
    <2> SUFFICES ASSUME NEW a \in attempts', a.ok
                 PROVE  \E w \in hist'.won : StreamOf(w)' = a.stream /\ req'[w].at = a.at
      OBVIOUS
    <2>1. a \in attempts
      BY <1>5, <1>6
    <2>2. PICK w \in hist.won : StreamOf(w) = a.stream /\ req[w].at = a.at
      BY <2>1
    <2>3. w \in hist.hashed /\ w \in hist'.won
      BY DEF Reserves
    <2> QED BY <2>2, <2>3, SameGuess
  <1>13. hist'.won \subseteq hist'.hashed
    BY DEF Reserves
  <1> QED BY <1>2, <1>7, <1>8, <1>9, <1>10, <1>11, <1>12, <1>13, StartsInThePast

\* A success: the failures of its stream go, and its row is the last.
LEMMA SuccessCount ==
    ASSUME CountInv, RowsInv, AttemptStep, AccessTyped, AccessTyped', NEW r \in Req, Succeeds(r)
    PROVE  CountInv'
  <1> USE DEF CountInv
  <1>1. r \in hist.hashed /\ r \notin hist.won
    BY DEF Succeeds
  <1>2. IsFiniteSet(hist.won)
    BY FS_Subset
  <1>3. IsFiniteSet(hist'.won) /\ Cardinality(hist'.won) = Cardinality(hist.won) + 1
    BY <1>1, <1>2, FS_AddElement DEF Succeeds
  <1>4. PICK n \in Nat : Adds(Remaining(r), attempts',
              [id |-> n, stream |-> StreamOf(r), ok |-> TRUE, at |-> req[r].at])
    BY SuccessAdds
  <1> DEFINE new == [id |-> n, stream |-> StreamOf(r), ok |-> TRUE, at |-> req[r].at]
  <1>5. \A a \in attempts' : a = new \/ (a \in Remaining(r) /\ a.id < new.id)
    BY <1>4 DEF Adds
  <1>6. new.id = n /\ new.ok /\ new.stream = StreamOf(r) /\ new.at = req[r].at
    OBVIOUS
  <1>7. Cardinality(attempts') <= Cardinality(hist'.hashed) + Cardinality(hist'.won)
    <2>1. Cardinality(attempts') <= Cardinality(Remaining(r)) + 1
      BY <1>4 DEF Adds
    <2>2. IsFiniteSet(Remaining(r)) /\ Cardinality(Remaining(r)) <= Cardinality(attempts)
      BY SuccessAdds
    <2>3. /\ Cardinality(attempts) \in Nat /\ Cardinality(attempts') \in Nat
          /\ Cardinality(Remaining(r)) \in Nat
          /\ Cardinality(hist.hashed) \in Nat /\ Cardinality(hist.won) \in Nat
      BY <1>2, <2>2, SuccessAdds, FS_CardinalityType DEF RowsInv
    <2>4. /\ hist'.hashed = hist.hashed
          /\ Cardinality(attempts) <= Cardinality(hist.hashed) + Cardinality(hist.won)
      BY DEF Succeeds
    <2> QED BY <1>3, <2>1, <2>2, <2>3, <2>4
  <1> HIDE DEF new
  <1>8. \A q \in hist'.hashed : req'[q].pc \notin Uncounted
    BY SameGuess DEF Succeeds
  <1>9. \A q \in hist'.won : req'[q].pc # "verify"
    BY SameGuess DEF Succeeds, NoneReaches
  <1>10. \A q \in Req : req'[q].pc = "verify" => q \in hist'.hashed
    BY DEF Succeeds, NoneReaches
  <1>11. \A a, b \in attempts' : a.stream = b.stream /\ a.ok /\ ~b.ok => a.id < b.id
    BY <1>5, <1>6 DEF Remaining
  <1>12. \A a \in attempts' : a.ok => \E w \in hist'.won : StreamOf(w)' = a.stream /\ req'[w].at = a.at
    <2> SUFFICES ASSUME NEW a \in attempts', a.ok
                 PROVE  \E w \in hist'.won : StreamOf(w)' = a.stream /\ req'[w].at = a.at
      OBVIOUS
    <2>1. PICK w \in hist.won \cup {r} : StreamOf(w) = a.stream /\ req[w].at = a.at
      BY <1>5, <1>6 DEF Remaining
    <2>2. w \in hist.hashed /\ w \in hist'.won
      BY <1>1 DEF Succeeds
    <2> QED BY <2>1, <2>2, SameGuess
  <1>13. hist'.won \subseteq hist'.hashed
    BY <1>1 DEF Succeeds
  <1>14. IsFiniteSet(hist'.hashed)
    BY DEF Succeeds
  <1> QED BY <1>3, <1>7, <1>8, <1>9, <1>10, <1>11, <1>12, <1>13, <1>14, StartsInThePast

\* The delay of the lockout is never zero.
LEMMA DelayPositive ==
    ASSUME NEW n \in Nat, n >= LockoutThreshold, n <= MaxStored
    PROVE  Delay(n) \in Nat /\ Delay(n) >= 1
  <1>1. n - LockoutThreshold \in 0..MaxStored
    BY LockoutAssumption
  <1>2. 2 ^ (n - LockoutThreshold) \in Nat \ {0}
    BY <1>1, LockoutAssumption
  <1> QED BY <1>2, LockoutAssumption DEF Delay, Least

\* While the claim holds, a stream that is not limited at t has fewer failures
\* of that time than the threshold: lockoutRemaining counts each of them.
LEMMA FewFailures ==
    ASSUME CountInv, RowsInv, AccessTyped, NEW s \in Stream, NEW t \in 0..MaxTime,
           ~Limited(s, t), Claimed(s, t)
    PROVE  Cardinality(Failures(s, t)) < LockoutThreshold
  <1> USE LockoutAssumption, AccessAssumption
  <1> DEFINE failed == CountedFailures(s, t)
  <1>1. \A a \in attempts : a.id \in Nat /\ a.at \in Nat
    BY DEF RowsInv, Attempt
  <1>2. Failures(s, t) \subseteq failed
    <2> SUFFICES ASSUME NEW a \in Failures(s, t) PROVE a \in failed
      OBVIOUS
    <2>1. a \in attempts /\ a.stream = s /\ a.at = t /\ ~a.ok
      BY DEF Failures
    <2>2. InWindow(a, t)
      BY <1>1, <2>1 DEF InWindow
    <2>3. ASSUME NEW b \in attempts, b.stream = s, b.ok
          PROVE  b.at < a.at \/ (b.at = a.at /\ b.id < a.id)
      <3>1. PICK w \in hist.won : StreamOf(w) = s /\ req[w].at = b.at
        BY <2>3 DEF CountInv
      <3>2. b.at <= t
        BY <3>1 DEF Claimed, Wins
      <3>3. b.id < a.id
        BY <2>1, <2>3 DEF CountInv
      <3> QED BY <1>1, <2>1, <3>2, <3>3
    <2> QED BY <2>1, <2>2, <2>3 DEF CountedFailures
  <1>3. failed \subseteq attempts
    BY DEF CountedFailures
  <1>4. /\ IsFiniteSet(failed) /\ Cardinality(failed) \in Nat
        /\ Cardinality(failed) <= Cardinality(attempts) /\ Cardinality(attempts) \in Nat
    BY <1>3, FS_Subset, FS_CardinalityType DEF RowsInv
  <1>5. IsFiniteSet(Failures(s, t)) /\ Cardinality(Failures(s, t)) <= Cardinality(failed)
    BY <1>2, <1>4, FS_Subset
  <1>6. Cardinality(Failures(s, t)) \in Nat
    BY <1>5, FS_CardinalityType
  <1>7. CASE Cardinality(failed) < LockoutThreshold
    <2> HIDE DEF failed
    <2> QED BY <1>4, <1>5, <1>6, <1>7
  <1>8. CASE Cardinality(failed) >= LockoutThreshold
    <2>1. Cardinality(failed) <= MaxStored
      <3> HIDE DEF failed
      <3> QED BY <1>4 DEF RowsInv
    <2>2. Delay(Cardinality(failed)) \in Nat /\ Delay(Cardinality(failed)) >= 1
      BY <1>4, <1>8, <2>1, DelayPositive
    <2>3. \A a \in failed : ~(t < a.at + Delay(Cardinality(failed)))
      BY <1>8 DEF Limited
    <2>4. ASSUME NEW a \in Failures(s, t) PROVE FALSE
      <3>1. a \in failed /\ a.at = t
        BY <1>2 DEF Failures
      <3>2. ~(t < t + Delay(Cardinality(failed)))
        BY <2>3, <3>1
      <3> HIDE DEF failed
      <3> QED BY <2>2, <3>2
    <2>5. Failures(s, t) = {}
      BY <2>4
    <2> QED BY <2>5, FS_EmptySet
  <1> QED BY <1>4, <1>7, <1>8

\* What is claimed after a step was claimed before it.
LEMMA ClaimedBefore ==
    ASSUME CountInv, CountInv', AttemptStep, AccessTyped, AccessTyped',
           hist.hashed \subseteq hist'.hashed, hist.won \subseteq hist'.won,
           NEW s \in Stream, NEW t \in 0..MaxTime, Claimed(s, t)'
    PROVE  Claimed(s, t)
  <1> USE LockoutAssumption, AccessAssumption
  <1>1. IsFiniteSet(hist'.won) /\ IsFiniteSet(hist'.hashed)
    BY FS_Subset DEF CountInv
  <1>2. /\ Cardinality(hist.hashed) <= Cardinality(hist'.hashed)
        /\ Cardinality(hist.won) <= Cardinality(hist'.won)
        /\ IsFiniteSet(hist.hashed) /\ IsFiniteSet(hist.won)
    BY <1>1, FS_Subset
  <1>3. /\ Cardinality(hist.hashed) \in Nat /\ Cardinality(hist.won) \in Nat
        /\ Cardinality(hist'.hashed) \in Nat /\ Cardinality(hist'.won) \in Nat
    BY <1>1, <1>2, FS_CardinalityType
  <1>4. /\ Cardinality(hist'.hashed) + Cardinality(hist'.won) <= MaxStored
        /\ clock' <= t + Window
        /\ \A w \in Wins(s)' : req'[w].at <= t
    BY DEF Claimed
  <1>5. Cardinality(hist.hashed) + Cardinality(hist.won) <= MaxStored
    BY <1>2, <1>3, <1>4
  <1>6. clock <= t + Window
    BY <1>4 DEF AttemptStep, AccessTyped
  <1>7. ASSUME NEW w \in Wins(s) PROVE req[w].at <= t
    <2>1. w \in hist.won /\ w \in hist.hashed /\ StreamOf(w) = s
      BY DEF Wins, CountInv
    <2>2. StreamOf(w)' = s /\ req'[w].at = req[w].at
      BY <2>1, SameGuess
    <2>3. w \in Wins(s)'
      BY <2>1, <2>2 DEF Wins
    <2> QED BY <1>4, <2>2, <2>3
  <1> QED BY <1>5, <1>6, <1>7 DEF Claimed

\* What is counted is finite.
LEMMA CountsTyped ==
    ASSUME CountInv, RowsInv, NEW s, NEW t
    PROVE  /\ IsFiniteSet(Guesses(s, t)) /\ Cardinality(Guesses(s, t)) \in Nat
           /\ IsFiniteSet(Wins(s)) /\ Cardinality(Wins(s)) \in Nat
           /\ IsFiniteSet(Failures(s, t)) /\ Cardinality(Failures(s, t)) \in Nat
  <1>1. Guesses(s, t) \subseteq hist.hashed /\ Wins(s) \subseteq hist.hashed
        /\ Failures(s, t) \subseteq attempts
    BY DEF Guesses, Wins, Failures, CountInv
  <1>2. IsFiniteSet(Guesses(s, t)) /\ IsFiniteSet(Wins(s)) /\ IsFiniteSet(Failures(s, t))
    BY <1>1, FS_Subset DEF CountInv, RowsInv
  <1> QED BY <1>2, FS_CardinalityType

\* No guess is counted and no row goes.
LEMMA QuietGuess ==
    ASSUME CountInv, CountInv', RowsInv, GuessInv, AttemptStep, AccessTyped, AccessTyped', Quiet
    PROVE  GuessInv'
  <1> SUFFICES ASSUME NEW s \in Stream, NEW t \in 0..MaxTime, Claimed(s, t)'
               PROVE  Within(s, t)'
    BY DEF GuessInv
  <1>1. hist'.hashed = hist.hashed /\ hist'.won = hist.won /\ attempts' = attempts
    BY DEF Quiet
  <1>2. Within(s, t)
    BY <1>1, ClaimedBefore DEF GuessInv
  <1>3. hist.won \subseteq hist.hashed
    BY DEF CountInv
  <1>4. Guesses(s, t)' = Guesses(s, t)
    BY <1>1, SameGuess DEF Guesses
  <1>5. Wins(s)' = Wins(s)
    BY <1>1, <1>3, SameGuess DEF Wins
  <1>6. Failures(s, t)' = Failures(s, t)
    BY <1>1 DEF Failures
  <1> QED BY <1>2, <1>4, <1>5, <1>6 DEF Within

\* A guess adds one row to the failures of its stream and time, and to none
\* other: below the cap nothing in the window is dropped.
LEMMA ReserveGuess ==
    ASSUME CountInv, CountInv', RowsInv, RowsInv', GuessInv, AttemptStep,
           AccessTyped, AccessTyped', NEW r \in Req, Reserves(r)
    PROVE  GuessInv'
  <1> USE LockoutAssumption, AccessAssumption
  <1> SUFFICES ASSUME NEW s \in Stream, NEW t \in 0..MaxTime, Claimed(s, t)'
               PROVE  Within(s, t)'
    BY DEF GuessInv
  <1>1. /\ hist'.hashed = hist.hashed \cup {r} /\ hist'.won = hist.won
        /\ hist.won \subseteq hist.hashed /\ r \notin hist.hashed
    BY DEF Reserves, CountInv, Uncounted
  <1>2. Claimed(s, t)
    BY <1>1, ClaimedBefore
  <1>3. Within(s, t)
    BY <1>2 DEF GuessInv
  <1>4. PICK n \in Nat : Adds(attempts, attempts',
              [id |-> n, stream |-> StreamOf(r), ok |-> FALSE, at |-> req[r].at])
    BY ReserveAdds
  <1> DEFINE new == [id |-> n, stream |-> StreamOf(r), ok |-> FALSE, at |-> req[r].at]
  <1>5. ~new.ok /\ new.stream = StreamOf(r) /\ new.at = req[r].at /\ Adds(attempts, attempts', new)
    BY <1>4
  <1> HIDE DEF new
  <1>6. Cardinality(attempts) + 1 <= MaxStored
    <2>1. Cardinality(hist'.hashed) = Cardinality(hist.hashed) + 1
      BY <1>1, FS_AddElement DEF CountInv
    <2>2. IsFiniteSet(hist.won)
      BY FS_Subset DEF CountInv
    <2>3. /\ Cardinality(attempts) \in Nat
          /\ Cardinality(hist.hashed) \in Nat /\ Cardinality(hist.won) \in Nat
      BY <2>2, FS_CardinalityType DEF RowsInv, CountInv
    <2>4. /\ Cardinality(attempts) <= Cardinality(hist.hashed) + Cardinality(hist.won)
          /\ Cardinality(hist'.hashed) + Cardinality(hist'.won) <= MaxStored
      BY DEF CountInv, Claimed
    <2> QED BY <1>1, <2>1, <2>3, <2>4
  <1>7. req[r].at <= t + Window /\ req[r].at \in Nat
    <2>1. req[r].pc # "idle"
      BY DEF Reserves
    <2>2. req[r].at <= clock /\ req[r].at \in 0..MaxTime
      BY <2>1, StreamTyped DEF CountInv
    <2> QED BY <1>2, <2>2 DEF Claimed, AccessTyped
  <1>8. \A a \in Failures(s, t) : a \in attempts'
    <2> SUFFICES ASSUME NEW a \in Failures(s, t) PROVE a \in attempts'
      OBVIOUS
    <2>1. a \in attempts /\ a.at = t
      BY DEF Failures
    <2>2. InWindow(a, new.at)
      BY <1>5, <1>7, <2>1 DEF InWindow
    <2> QED BY <1>5, <1>6, <2>1, <2>2 DEF Adds
  <1>9. new \in attempts' /\ new \notin attempts /\ \A a \in attempts' : a \in attempts \/ a = new
    BY <1>5, <1>6 DEF Adds
  <1>10. Wins(s)' = Wins(s)
    BY <1>1, SameGuess DEF Wins
  <1>11. r \in hist'.hashed \ hist'.won /\ StreamOf(r)' = StreamOf(r) /\ req'[r].at = req[r].at
    BY <1>1 DEF AttemptStep, Moved, Reserves, StreamOf
  <1>12. CASE StreamOf(r) = s /\ req[r].at = t
    <2>1. Failures(s, t)' = Failures(s, t) \cup {new} /\ new \notin Failures(s, t)
      BY <1>5, <1>8, <1>9, <1>12 DEF Failures
    <2>2. Guesses(s, t)' = Guesses(s, t) \cup {r} /\ r \notin Guesses(s, t)
      BY <1>1, <1>11, <1>12, SameGuess DEF Guesses
    <2>3. Cardinality(Failures(s, t)) < LockoutThreshold
      BY <1>2, <1>12, FewFailures DEF Reserves
    <2>4. /\ Cardinality(Failures(s, t) \cup {new}) = Cardinality(Failures(s, t)) + 1
          /\ Cardinality(Guesses(s, t) \cup {r}) = Cardinality(Guesses(s, t)) + 1
      BY <2>1, <2>2, CountsTyped, FS_AddElement
    <2>5. /\ Cardinality(Guesses(s, t)) \in Nat /\ Cardinality(Failures(s, t)) \in Nat
          /\ LockoutThreshold * Cardinality(Wins(s)) \in Nat
      BY CountsTyped
    <2>6. Cardinality(Guesses(s, t)) <=
            LockoutThreshold * Cardinality(Wins(s)) + Cardinality(Failures(s, t))
      BY <1>3 DEF Within
    <2>7. /\ Cardinality(Guesses(s, t)) + 1 <=
               LockoutThreshold * Cardinality(Wins(s)) + (Cardinality(Failures(s, t)) + 1)
          /\ Cardinality(Failures(s, t)) + 1 <= LockoutThreshold
      BY <2>3, <2>5, <2>6
    <2> QED BY <1>10, <2>1, <2>2, <2>4, <2>7 DEF Within
  <1>13. CASE ~(StreamOf(r) = s /\ req[r].at = t)
    <2>1. Failures(s, t)' = Failures(s, t)
      BY <1>5, <1>8, <1>9, <1>13 DEF Failures
    <2>2. Guesses(s, t)' = Guesses(s, t)
      BY <1>1, <1>11, <1>13, SameGuess DEF Guesses
    <2> QED BY <1>3, <1>10, <2>1, <2>2 DEF Within
  <1> QED BY <1>12, <1>13

\* A success takes the failures of its stream and is one more success.
LEMMA SuccessGuess ==
    ASSUME CountInv, CountInv', RowsInv, RowsInv', GuessInv, AttemptStep,
           AccessTyped, AccessTyped', NEW r \in Req, Succeeds(r)
    PROVE  GuessInv'
  <1> USE LockoutAssumption, AccessAssumption
  <1> SUFFICES ASSUME NEW s \in Stream, NEW t \in 0..MaxTime, Claimed(s, t)'
               PROVE  Within(s, t)'
    BY DEF GuessInv
  <1>1. /\ hist'.hashed = hist.hashed /\ hist'.won = hist.won \cup {r}
        /\ hist.won \subseteq hist.hashed /\ r \in hist.hashed /\ r \notin hist.won
    BY DEF Succeeds, CountInv
  <1>2. Claimed(s, t)
    BY <1>1, ClaimedBefore
  <1>3. Within(s, t)
    BY <1>2 DEF GuessInv
  <1>4. PICK n \in Nat : Adds(Remaining(r), attempts',
              [id |-> n, stream |-> StreamOf(r), ok |-> TRUE, at |-> req[r].at])
    BY SuccessAdds
  <1> DEFINE new == [id |-> n, stream |-> StreamOf(r), ok |-> TRUE, at |-> req[r].at]
  <1>5. new.ok /\ new.at = req[r].at /\ Adds(Remaining(r), attempts', new)
    BY <1>4
  <1> HIDE DEF new
  <1>6. Cardinality(Remaining(r)) + 1 <= MaxStored
    <2>1. IsFiniteSet(hist.won)
      BY FS_Subset DEF CountInv
    <2>2. Cardinality(hist'.won) = Cardinality(hist.won) + 1
      BY <1>1, <2>1, FS_AddElement
    <2>3. IsFiniteSet(Remaining(r)) /\ Cardinality(Remaining(r)) <= Cardinality(attempts)
      BY SuccessAdds
    <2>4. /\ Cardinality(attempts) \in Nat /\ Cardinality(Remaining(r)) \in Nat
          /\ Cardinality(hist.hashed) \in Nat /\ Cardinality(hist.won) \in Nat
      BY <2>1, <2>3, FS_CardinalityType DEF RowsInv, CountInv
    <2>5. /\ Cardinality(attempts) <= Cardinality(hist.hashed) + Cardinality(hist.won)
          /\ Cardinality(hist'.hashed) + Cardinality(hist'.won) <= MaxStored
      BY DEF CountInv, Claimed
    <2> QED BY <1>1, <2>2, <2>3, <2>4, <2>5
  <1>7. req[r].at <= t + Window /\ req[r].at \in Nat
    <2>1. req[r].pc # "idle"
      BY DEF Succeeds
    <2>2. req[r].at <= clock /\ req[r].at \in 0..MaxTime
      BY <2>1, StreamTyped DEF CountInv
    <2> QED BY <1>2, <2>2 DEF Claimed, AccessTyped
  <1>8. \A a \in attempts' : a \in Remaining(r) \/ a.ok
    BY <1>5 DEF Adds
  <1>9. StreamOf(r)' = StreamOf(r) /\ req'[r].at = req[r].at
    BY <1>1, SameGuess
  <1>10. Guesses(s, t)' \subseteq Guesses(s, t)
    BY <1>1, SameGuess DEF Guesses
  <1>11. CASE StreamOf(r) = s
    <2>1. Failures(s, t)' = {}
      BY <1>8, <1>11 DEF Failures, Remaining
    <2>2. Wins(s)' = Wins(s) \cup {r} /\ r \notin Wins(s)
      BY <1>1, <1>9, <1>11, SameGuess DEF Wins
    <2>3. Cardinality(Wins(s) \cup {r}) = Cardinality(Wins(s)) + 1
      BY <2>2, CountsTyped, FS_AddElement
    <2>4. IsFiniteSet(Guesses(s, t)) /\ Cardinality(Guesses(s, t)) \in Nat
      BY CountsTyped
    <2>5. IsFiniteSet(Guesses(s, t)') /\ Cardinality(Guesses(s, t)') <= Cardinality(Guesses(s, t))
      BY <1>10, <2>4, FS_Subset
    <2>6. Cardinality(Guesses(s, t)') \in Nat
      BY <2>5, FS_CardinalityType
    <2>7. Cardinality(Wins(s)) \in Nat /\ Cardinality(Failures(s, t)) \in Nat
      BY CountsTyped
    <2>8. \A w \in Nat : LockoutThreshold * (w + 1) = LockoutThreshold * w + LockoutThreshold
                         /\ LockoutThreshold * w \in Nat
      OBVIOUS
    <2>9. /\ Cardinality(Guesses(s, t)) <=
               LockoutThreshold * Cardinality(Wins(s)) + Cardinality(Failures(s, t))
          /\ Cardinality(Failures(s, t)) <= LockoutThreshold
      BY <1>3 DEF Within
    <2>10. Cardinality(Guesses(s, t)') <= LockoutThreshold * (Cardinality(Wins(s)) + 1) + 0
      BY <2>4, <2>5, <2>6, <2>7, <2>8, <2>9
    <2>11. Cardinality({}) = 0
      BY FS_EmptySet
    <2> QED BY <2>1, <2>2, <2>3, <2>10, <2>11 DEF Within
  <1>12. CASE StreamOf(r) # s
    <2>1. \A a \in Failures(s, t) : a \in attempts'
      <3> SUFFICES ASSUME NEW a \in Failures(s, t) PROVE a \in attempts'
        OBVIOUS
      <3>1. a \in Remaining(r) /\ a.at = t
        BY <1>12 DEF Failures, Remaining
      <3>2. InWindow(a, new.at)
        BY <1>5, <1>7, <3>1 DEF InWindow
      <3> QED BY <1>5, <1>6, <3>1, <3>2 DEF Adds
    <2>2. Failures(s, t)' = Failures(s, t)
      BY <1>8, <2>1 DEF Failures, Remaining
    <2>3. Wins(s)' = Wins(s)
      BY <1>1, <1>9, <1>12, SameGuess DEF Wins
    <2>4. Guesses(s, t)' = Guesses(s, t)
      BY <1>1, <1>9, <1>12, SameGuess DEF Guesses
    <2> QED BY <1>3, <2>2, <2>3, <2>4 DEF Within
  <1> QED BY <1>11, <1>12

-----------------------------------------------------------------------------
(* The theorems.                                                           *)

\* AccessInv holds in every reachable state.
THEOREM AccessInvariant == AccessSpec => []AccessInv
  <1>1. AccessInv /\ [AccessNext]_accessVars => AccessInv'
    BY NextStep, StepInv
  <1> QED BY AccessInitInv, <1>1, PTL DEF AccessSpec

\* The table of attempts stays below its cap, with unique ids.
THEOREM AttemptsCapped == AccessSpec => []RowsInv
  <1>1. AccessInit => RowsInv
    BY FS_EmptySet, LockoutAssumption DEF AccessInit, RowsInv
  <1>2. AccessInv /\ RowsInv /\ [AccessNext]_accessVars => RowsInv'
    BY NextAttempt, RowsStep DEF AccessInv
  <1> QED BY <1>1, <1>2, AccessInvariant, PTL DEF AccessSpec

\* Of the requests of one user and address that started at one time, no more
\* reach the password hash than the threshold allows, plus as many again for
\* every success: the row that ReserveFailure inserts before the hash is seen
\* by every later one, for any number of requests, threshold and window.
THEOREM GuessesAreBounded == AccessSpec => []GuessesBounded
  <1> DEFINE Inv == RowsInv /\ CountInv /\ GuessInv
  <1>1. AccessInit => Inv
    <2> SUFFICES ASSUME AccessInit PROVE Inv
      OBVIOUS
    <2> USE LockoutAssumption, AccessAssumption DEF AccessInit
    <2>1. RowsInv /\ hist.hashed = {} /\ hist.won = {}
      BY FS_EmptySet DEF RowsInv
    <2>2. \A r \in Req : req[r].pc = "idle"
      BY DEF NewRequest
    <2>3. CountInv
      BY <2>1, <2>2, FS_EmptySet DEF CountInv
    <2>4. ASSUME NEW s, NEW t PROVE Within(s, t)
      <3>1. Guesses(s, t) = {} /\ Wins(s) = {} /\ Failures(s, t) = {}
        BY <2>1 DEF Guesses, Wins, Failures
      <3> QED BY <3>1, FS_EmptySet DEF Within
    <2> QED BY <2>1, <2>3, <2>4 DEF GuessInv
  <1>2. AccessInv /\ AccessInv' /\ Inv /\ [AccessNext]_accessVars => Inv'
    <2> SUFFICES ASSUME AccessInv, AccessInv', Inv, AttemptStep PROVE Inv'
      BY NextAttempt
    <2>1. AccessTyped /\ AccessTyped' /\ RowsInv'
      BY RowsStep DEF AccessInv
    <2>2. CountInv'
      BY <2>1, QuietCount, ReserveCount, SuccessCount DEF AttemptStep
    <2>3. GuessInv'
      BY <2>1, <2>2, QuietGuess, ReserveGuess, SuccessGuess DEF AttemptStep
    <2> QED BY <2>1, <2>2, <2>3
  <1>3. AccessInv /\ Inv => GuessesBounded
    <2> USE LockoutAssumption, AccessAssumption
    <2> SUFFICES ASSUME AccessInv, Inv, NEW r \in hist.hashed,
                        LET same == {q \in hist.hashed : StreamOf(q) = StreamOf(r)}
                            wins == same \cap hist.won
                        IN  /\ Cardinality(hist.hashed) + Cardinality(hist.won) <= MaxStored
                            /\ clock <= req[r].at + Window
                            /\ \A w \in wins : req[w].at <= req[r].at
                 PROVE  LET same == {q \in hist.hashed : StreamOf(q) = StreamOf(r)}
                            wins == same \cap hist.won
                        IN  Cardinality({q \in same \ wins : req[q].at = req[r].at}) <=
                              LockoutThreshold * (1 + Cardinality(wins))
      BY DEF GuessesBounded
    <2> DEFINE s == StreamOf(r)
               t == req[r].at
               same == {q \in hist.hashed : StreamOf(q) = StreamOf(r)}
    <2>1. r \in Req /\ req[r].pc # "idle"
      BY DEF CountInv, Uncounted, AccessInv, AccessTyped, History
    <2>2. s \in Stream /\ t \in 0..MaxTime
      BY <2>1, StreamTyped DEF AccessInv
    <2>3. Wins(s) = same \cap hist.won
      BY DEF Wins, CountInv
    <2>4. Guesses(s, t) = {q \in same \ (same \cap hist.won) : req[q].at = req[r].at}
      BY DEF Guesses
    <2>5. Claimed(s, t)
      BY <2>3 DEF Claimed
    <2>6. Within(s, t)
      BY <2>2, <2>5 DEF GuessInv
    <2>7. /\ Cardinality(Guesses(s, t)) \in Nat /\ Cardinality(Wins(s)) \in Nat
          /\ Cardinality(Failures(s, t)) \in Nat
      BY CountsTyped
    <2>8. \A w \in Nat : LockoutThreshold * (1 + w) = LockoutThreshold * w + LockoutThreshold
                         /\ LockoutThreshold * w \in Nat
      OBVIOUS
    <2>9. Cardinality(Guesses(s, t)) <= LockoutThreshold * (1 + Cardinality(Wins(s)))
      <3> HIDE DEF s, t, same
      <3> QED BY <2>6, <2>7, <2>8 DEF Within
    <2> QED BY <2>3, <2>4, <2>9
  <1> HIDE DEF Inv
  <1> QED BY <1>1, <1>2, <1>3, AccessInvariant, PTL DEF AccessSpec

\* Two sessions are valid at once only when their logins overlapped between
\* the delete and the insert of CreateSession (session.go).
THEOREM LoginEndsEarlier == AccessSpec => []EarlierSessionsEnd
  <1>1. AccessInv => EarlierSessionsEnd
    BY DEF AccessInv, PriorInv, EarlierSessionsEnd
  <1> QED BY <1>1, AccessInvariant, PTL

\* A change of the password ends every session obtained with another one,
\* but for logins that straddle the change (owner_password.go, owner.go).
THEOREM ChangeEndsSessions == AccessSpec => []ChangeRevokes
  <1>1. AccessInv => ChangeRevokes
    BY DEF AccessInv, HashInv, ChangeRevokes
  <1> QED BY <1>1, AccessInvariant, PTL

\* No request is let in later than the absolute lifetime after its login,
\* however often the session was touched (LookupSession, TouchSession).
THEOREM SessionsHaveAnEnd == AccessSpec => []LifetimeBounded
  <1>1. AccessInv => LifetimeBounded
    BY DEF AccessInv, BirthInv, LifetimeBounded, CookiePlace
  <1> QED BY <1>1, AccessInvariant, PTL

\* A deleted session does not come back, and a request that still carries its
\* row id gives the session that has the id by now no other token, password or
\* absolute deadline: only a login's insert makes a row, with its own token
\* (TouchSession and RotateCSRF are UPDATEs of the idle deadline and of the
\* CSRF hash, by an id that SQLite gives again).
THEOREM RevokedForGood == AccessSpec => RevokedStaysOut
  <1> DEFINE Out == \A t \in sessions' :
                       \/ t.login \notin Inserted
                       \/ \E s \in sessions :
                             /\ s.id = t.id /\ s.login = t.login
                             /\ s.absolute = t.absolute /\ s.password = t.password
  <1>1. ASSUME AccessInv, AccessStep PROVE Out
    <2>1. CASE NoNewRow
      BY <2>1 DEF NoNewRow
    <2>2. CASE \E r \in Req : NewRow(r)
      BY <2>2 DEF NewRow, At, Inserted
    <2> QED BY <1>1, <2>1, <2>2 DEF AccessStep
  <1>2. AccessInv /\ [AccessNext]_accessVars => [Out]_accessVars
    BY <1>1, NextStep
  <1> QED BY <1>2, AccessInvariant, PTL DEF AccessSpec, RevokedStaysOut

\* The tool gate as the owner's requests and its visitors use it is the gate
\* that ToolGate specifies: every step of the composition is a step of the
\* gate, a passage of time or none of its business (toolgate.Memory).
THEOREM AccessImplementsGate == AccessSpec => GateSpec
  <1>1. AccessInit => GateInit /\ clock = 0
    BY DEF AccessInit
  <1>2. ASSUME AccessInv, AccessNext
        PROVE  [GateNext \/ GateTick]_<<gateVars, clock>>
    <2>1. CASE UNCHANGED <<gateVars, clock>>
      BY <2>1
    <2>2. ASSUME NEW r \in Req, NEW id \in TicketId, NEW tool \in Tool, ToolLaunch(r, id, tool)
          PROVE  GateNext
      BY <2>2 DEF ToolLaunch, GateNext
    <2>3. CASE Visit
      BY <2>3 DEF Visit, GateNext
    <2>4. CASE Restart
      BY <2>4 DEF Restart, GateNext
    <2>5. CASE Tick
      BY <1>2, <2>5 DEF Tick, GateTick, AccessInv, AccessTyped
    <2>6. ASSUME NEW r \in Req, Login(r) PROVE UNCHANGED <<gateVars, clock>>
      BY <2>6 DEF Login, LoginBegin, LoginLookup, LoginReserve, LoginVerify, LoginClear,
                  LoginInsert, LoginAudit
    <2>7. ASSUME NEW r \in Req, WithSession(r)
          PROVE  \/ UNCHANGED <<gateVars, clock>>
                 \/ \E id \in TicketId, tool \in Tool : ToolLaunch(r, id, tool)
      BY <2>7 DEF WithSession, SessionLookup, SessionExpire, SessionTouch, CheckMutation,
                  SessionRotate, Logout, ReauthLookup, ReauthReserve, ReauthVerify,
                  ChangeLookup, ChangeCommit
    <2>8. ASSUME NEW r \in Req, Abandon(r) PROVE UNCHANGED <<gateVars, clock>>
      BY <2>8 DEF Abandon
    <2>9. ASSUME NEW name, NEW password, ReplaceOwner(name, password)
          PROVE  UNCHANGED <<gateVars, clock>>
      BY <2>9 DEF ReplaceOwner
    <2> QED BY <1>2, <2>1, <2>2, <2>3, <2>4, <2>5, <2>6, <2>7, <2>8, <2>9 DEF AccessNext
  <1>3. AccessInv /\ [AccessNext]_accessVars => [GateNext \/ GateTick]_<<gateVars, clock>>
    <2>1. UNCHANGED accessVars => UNCHANGED <<gateVars, clock>>
      BY DEF accessVars
    <2> QED BY <1>2, <2>1
  <1> QED BY <1>1, <1>3, AccessInvariant, PTL DEF AccessSpec, GateSpec

\* So a ticket that a launch obtained opens at most one tool session.
COROLLARY LaunchOnce == AccessSpec => []OneLaunchPerTicket
  BY AccessImplementsGate, TicketsAreOneTime, PTL

\* The rows and requests have the fields the handlers give them, the attempts
\* stay below maxStoredAttempts (insertAttempt) and the gate has its types.
THEOREM AccessTypeCorrect == AccessSpec => []AccessTypeOK
  <1>1. Standing \subseteq {NewRequest} \cup EndedRequest \cup LoginRequest \cup CookieRequest
                             \cup PasswordRequest
    BY DEF Standing
  <1>2. AccessInv /\ RowsInv /\ GateTypeOK => AccessTypeOK
    BY <1>1 DEF AccessInv, AccessTyped, RowsInv, AccessTypeOK
  <1> QED BY <1>2, AccessInvariant, AttemptsCapped, AccessImplementsGate, GateTypeCorrect, PTL
=============================================================================

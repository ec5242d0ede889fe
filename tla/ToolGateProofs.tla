--------------------------- MODULE ToolGateProofs ---------------------------
(***************************************************************************)
(* A launch ticket is good for one tool session, for any number of tickets, *)
(* tools and presentations and any passage of time. OneLaunchPerTicket is   *)
(* not inductive: that a ticket still in the store was issued TicketTTL     *)
(* before it expires, to one tool, and has not been redeemed is GateInv.    *)
(***************************************************************************)
EXTENDS ToolGate, TLAPS

\* The store starts empty.
LEMMA GateInitInv == GateInit /\ clock = 0 => GateInv
  BY DEF GateInit, GateInv, GateTypeOK, OneLaunchPerTicket

\* Issue adds one ticket under a name never used, and drops expired ones.
LEMMA IssueInv ==
    ASSUME GateInv, NEW id \in TicketId, NEW tool \in Tool, Issue(id, tool), clock' = clock
    PROVE  GateInv'
  <1> USE GateAssumption DEF GateInv
  <1>1. GateTypeOK'
    BY DEF GateTypeOK, Issue, gcLocked, Ticket, ToolSession, Issuance
  <1>2. issued \subseteq issued' /\ opened' = opened
    BY DEF Issue
  <1>3. OneLaunchPerTicket'
    BY <1>2 DEF OneLaunchPerTicket
  <1>4. \A s, t \in issued' : s.id = t.id => s = t
    BY DEF Issue
  <1>5. ASSUME NEW t \in tickets'
        PROVE  /\ [id |-> t.id, tool |-> t.tool, at |-> t.expires - TicketTTL] \in issued'
               /\ t.expires >= TicketTTL
               /\ \A i \in DOMAIN opened' : opened'[i].ticket # t.id
    <2>1. CASE t \in tickets
      BY <1>2, <2>1
    <2>2. CASE t = [id |-> id, tool |-> tool, expires |-> clock + TicketTTL]
      <3>1. (clock + TicketTTL) - TicketTTL = clock /\ clock + TicketTTL >= TicketTTL
        BY DEF GateTypeOK
      <3>2. \A i \in DOMAIN opened : opened[i].ticket # id
        BY DEF OneLaunchPerTicket, Issue
      <3> QED BY <1>2, <2>2, <3>1, <3>2 DEF Issue
    <2> QED BY <1>5, <2>1, <2>2 DEF Issue, gcLocked
  <1> QED BY <1>1, <1>3, <1>4, <1>5

\* Consume deletes the ticket it was shown, so that what it opens is the only
\* session of that ticket.
LEMMA ConsumeInv ==
    ASSUME GateInv, NEW id \in TicketId, NEW tool \in Tool, Consume(id, tool), clock' = clock
    PROVE  GateInv'
  <1> USE GateAssumption DEF GateInv
  <1>1. /\ tickets' = {t \in tickets : t.id # id}
        /\ issued' = issued
    BY DEF Consume, TicketsAfter
  <1>2. CASE UNCHANGED <<toolSessions, opened>>
    BY <1>1, <1>2 DEF GateTypeOK, OneLaunchPerTicket
  <1>3. CASE /\ \E t \in tickets : t.id = id /\ Redeemable(t, tool)
             /\ toolSessions' = toolSessions \cup
                  {[token |-> Len(opened) + 1, tool |-> tool, expires |-> clock + ToolSessionTTL]}
             /\ opened' = Append(opened, [ticket |-> id, tool |-> tool, at |-> clock])
    <2> DEFINE new == [ticket |-> id, tool |-> tool, at |-> clock]
    <2>1. PICK t \in tickets : t.id = id /\ t.tool = tool /\ clock < t.expires
      BY <1>3 DEF Redeemable
    <2>2. new \in Launch /\ opened \in Seq(Launch)
      BY DEF GateTypeOK, Launch
    <2>3. /\ opened' \in Seq(Launch)
          /\ DOMAIN opened' = DOMAIN opened \cup {Len(opened) + 1}
          /\ Len(opened) + 1 \notin DOMAIN opened
          /\ opened'[Len(opened) + 1] = new
          /\ \A i \in DOMAIN opened : opened'[i] = opened[i]
      BY <1>3, <2>2
    <2>4. GateTypeOK'
      <3>1. toolSessions' \subseteq ToolSession
        BY <1>3, <2>2 DEF GateTypeOK, ToolSession
      <3> QED BY <1>1, <2>3, <3>1 DEF GateTypeOK
    <2>5. \A i \in DOMAIN opened : opened[i].ticket # id
      BY <2>1
    <2>6. \A i, j \in DOMAIN opened' : opened'[i].ticket = opened'[j].ticket => i = j
      BY <2>3, <2>5 DEF OneLaunchPerTicket
    <2>7. \E s \in issued : s.id = id /\ s.tool = tool /\ clock < s.at + TicketTTL
      <3> DEFINE s == [id |-> t.id, tool |-> t.tool, at |-> t.expires - TicketTTL]
      <3>1. s \in issued
        OBVIOUS
      <3>2. t.expires \in Nat /\ (t.expires - TicketTTL) + TicketTTL = t.expires
        BY DEF GateTypeOK, Ticket
      <3> QED BY <2>1, <3>1, <3>2
    <2>8. OneLaunchPerTicket'
      BY <1>1, <2>3, <2>6, <2>7 DEF OneLaunchPerTicket
    <2>9. \A u \in tickets' : \A i \in DOMAIN opened' : opened'[i].ticket # u.id
      <3> SUFFICES ASSUME NEW u \in tickets', NEW i \in DOMAIN opened'
                   PROVE  opened'[i].ticket # u.id
        OBVIOUS
      <3>1. u \in tickets /\ u.id # id
        BY <1>1
      <3>2. CASE i \in DOMAIN opened
        BY <2>3, <3>1, <3>2
      <3>3. CASE i = Len(opened) + 1
        BY <2>3, <3>1, <3>3
      <3> QED BY <2>3, <3>2, <3>3
    <2> QED BY <1>1, <2>4, <2>8, <2>9
  <1> QED BY <1>2, <1>3 DEF Consume

\* The other steps drop tickets and sessions, or let time pass.
LEMMA GateRestInv ==
    ASSUME GateInv,
           \/ \E token \in 1..Len(opened), tool \in Tool : ValidSession(token, tool) /\ UNCHANGED clock
           \/ GateRestart /\ UNCHANGED clock
           \/ GateTick
           \/ UNCHANGED <<gateVars, clock>>
    PROVE  GateInv'
  <1>1. /\ tickets' \subseteq tickets /\ toolSessions' \subseteq toolSessions
        /\ issued' = issued /\ opened' = opened /\ clock' \in Nat
    BY DEF ValidSession, GateRestart, GateTick, gateVars, GateInv, GateTypeOK
  <1> QED BY <1>1 DEF GateInv, GateTypeOK, OneLaunchPerTicket

\* A ticket opens at most one tool session, of its own tool and before it
\* expires, whatever is presented where and when (Memory.Issue and Consume).
THEOREM TicketsAreOneTime == GateSpec => []OneLaunchPerTicket
  <1>1. GateInv /\ [GateNext \/ GateTick]_<<gateVars, clock>> => GateInv'
    BY IssueInv, ConsumeInv, GateRestInv DEF GateNext
  <1>2. GateInv => OneLaunchPerTicket
    BY DEF GateInv
  <1> QED BY GateInitInv, <1>1, <1>2, PTL DEF GateSpec

\* What the store holds is well formed.
THEOREM GateTypeCorrect == GateSpec => []GateTypeOK
  <1>1. GateInv /\ [GateNext \/ GateTick]_<<gateVars, clock>> => GateInv'
    BY IssueInv, ConsumeInv, GateRestInv DEF GateNext
  <1>2. GateInv => GateTypeOK
    BY DEF GateInv
  <1> QED BY GateInitInv, <1>1, <1>2, PTL DEF GateSpec
=============================================================================

------------------------------ MODULE ToolGate ------------------------------
(***************************************************************************)
(* The launch tickets and tool sessions of internal/toolgate: a process-    *)
(* local store behind one mutex, and the gate that stands before pgAdmin    *)
(* and RedisInsight. Each method of Memory holds the mutex from its first   *)
(* read to its last write, so each is one action. Who may issue a ticket is *)
(* the subject of OwnerAccess; anyone may present one.                      *)
(*                                                                          *)
(* Tickets and tokens are random: a ticket is named by an element of        *)
(* TicketId that was not used before, a token by the position in opened of  *)
(* the launch that minted it. issued and opened are history: what was ever  *)
(* issued and which tool sessions were ever opened.                         *)
(***************************************************************************)
EXTENDS Naturals, Sequences

CONSTANTS
    TicketId,        \* names of launch tickets
    Tool,            \* the gated tools (ToolPgAdmin, ToolRedisInsight)
    TicketTTL,       \* ticketTTL, in clock ticks
    ToolSessionTTL   \* sessionTTL, in clock ticks

ASSUME GateAssumption == TicketTTL \in Nat /\ ToolSessionTTL \in Nat

VARIABLES
    tickets,       \* Memory.tickets
    toolSessions,  \* Memory.sessions
    issued,        \* history: every ticket ever issued, with its time
    opened,        \* history: every tool session ever opened, in order
    clock          \* the wall clock

gateVars == <<tickets, toolSessions, issued, opened>>

Ticket      == [id : TicketId, tool : Tool, expires : Nat]
ToolSession == [token : Nat, tool : Tool, expires : Nat]
Issuance    == [id : TicketId, tool : Tool, at : Nat]
Launch      == [ticket : TicketId, tool : Tool, at : Nat]

GateTypeOK ==
    /\ tickets \subseteq Ticket
    /\ toolSessions \subseteq ToolSession
    /\ issued \subseteq Issuance
    /\ opened \in Seq(Launch)
    /\ clock \in Nat

GateInit ==
    /\ tickets = {}
    /\ toolSessions = {}
    /\ issued = {}
    /\ opened = << >>

----------------------------------------------------------------------------
\* What gcLocked keeps of tickets or sessions.
gcLocked(items) == {i \in items : clock < i.expires}

\* Issue, after the random ticket is drawn.
Issue(id, tool) ==
    /\ \A i \in issued : i.id # id
    /\ tickets' = gcLocked(tickets) \cup
                  {[id |-> id, tool |-> tool, expires |-> clock + TicketTTL]}
    /\ toolSessions' = gcLocked(toolSessions)
    /\ issued' = issued \cup {[id |-> id, tool |-> tool, at |-> clock]}
    /\ UNCHANGED opened

\* The condition under which Consume accepts a ticket at the gate of a tool.
Redeemable(t, tool) == t.tool = tool /\ clock < t.expires

\* Mutant of TicketsAfter: only a refused ticket is deleted.
TicketsKept(id, tool) ==
    {t \in tickets : t.id # id \/ Redeemable(t, tool)}

\* Consume deletes the ticket it was shown, accepted or not.
TicketsAfter(id, tool) == {t \in tickets : t.id # id}

\* Consume on the launch path: refused, or a new tool session; when the
\* random source fails the ticket is gone and nothing was opened.
Consume(id, tool) ==
    /\ tickets' = TicketsAfter(id, tool)
    /\ \/ /\ \E t \in tickets : t.id = id /\ Redeemable(t, tool)
          /\ toolSessions' = toolSessions \cup
               {[token |-> Len(opened) + 1, tool |-> tool, expires |-> clock + ToolSessionTTL]}
          /\ opened' = Append(opened, [ticket |-> id, tool |-> tool, at |-> clock])
       \/ UNCHANGED <<toolSessions, opened>>
    /\ UNCHANGED issued

\* The gate accepts a request with this cookie.
Admits(token, tool) ==
    \E s \in toolSessions : s.token = token /\ s.tool = tool /\ clock < s.expires

\* ValidSession deletes the session it refuses, the session of another tool
\* included.
ValidSession(token, tool) ==
    /\ ~Admits(token, tool)
    /\ toolSessions' = {s \in toolSessions : s.token # token}
    /\ UNCHANGED <<tickets, issued, opened>>

\* A restart empties the process-local store.
GateRestart ==
    /\ tickets' = {}
    /\ toolSessions' = {}
    /\ UNCHANGED <<issued, opened>>

GateNext ==
    /\ \/ \E id \in TicketId, tool \in Tool : Issue(id, tool) \/ Consume(id, tool)
       \/ \E token \in 1..Len(opened), tool \in Tool : ValidSession(token, tool)
       \/ GateRestart
    /\ UNCHANGED clock

GateTick ==
    /\ clock' \in Nat
    /\ clock' >= clock
    /\ UNCHANGED gateVars

\* The store under every caller and any passage of time.
GateSpec == GateInit /\ clock = 0 /\ [][GateNext \/ GateTick]_<<gateVars, clock>>

----------------------------------------------------------------------------
\* A ticket opens at most one tool session, at the tool it was issued for and
\* before it expires, however often and wherever it is presented.
OneLaunchPerTicket ==
    /\ \A i, j \in DOMAIN opened : opened[i].ticket = opened[j].ticket => i = j
    /\ \A i \in DOMAIN opened : \E s \in issued :
          /\ s.id = opened[i].ticket
          /\ s.tool = opened[i].tool
          /\ opened[i].at < s.at + TicketTTL

\* The inductive form: a ticket in the store expires TicketTTL after its
\* issuance, was issued once and has not been used.
GateInv ==
    /\ GateTypeOK
    /\ OneLaunchPerTicket
    /\ \A t \in tickets :
          /\ [id |-> t.id, tool |-> t.tool, at |-> t.expires - TicketTTL] \in issued
          /\ t.expires >= TicketTTL
          /\ \A i \in DOMAIN opened : opened[i].ticket # t.id
    /\ \A s, t \in issued : s.id = t.id => s = t
=============================================================================

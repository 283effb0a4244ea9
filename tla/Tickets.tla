--------------------------------- MODULE Tickets ---------------------------------
(***************************************************************************)
(* internal/app/app.go: the tickets a browser exchanges its token for at    *)
(* /api/auth/ticket and shows once at /ws, where it cannot set a header.    *)
(*                                                                          *)
(* Steps: the clock is read; a section locked by ticketMu; the upgrade.     *)
(* The clock of a request that issues a ticket is read before it waits for  *)
(* the lock, so tickets are pruned and dated by a time that may be past.    *)
(*                                                                          *)
(* Abstracted: a ticket is the number of the call that drew it (16 random   *)
(* bytes); what the middleware of the first endpoint does, and what follows *)
(* the upgrade (module Hub).  ByIssueTime, RoomForOneMore and KeptAfterUse   *)
(* are mutants of the definition after them.                                *)
(***************************************************************************)
EXTENDS Integers, FiniteSets, Functions

CONSTANTS
  MaxTickets,  \* bound: calls of /api/auth/ticket
  Socket,      \* calls of /ws
  Limit,       \* tickets the table may hold (1000)
  TTL,         \* how long a ticket is good for (60 s)
  MaxTime      \* bound: the clock

ASSUME TicketsAssumption == {MaxTickets, Limit, TTL, MaxTime} \subseteq Nat

VARIABLES
  now,      \* the clock
  tickets,  \* App.tickets: a ticket and when it expires
  issue,    \* the calls of /api/auth/ticket: where each is, the time it read
  socket    \* the calls of /ws: where each is, what it shows, by what it came in, when

vars == <<now, tickets, issue, socket>>

Ticket == 1 .. MaxTickets
NoTicket == 0

\* A call of /ws at pc, which has read no clock yet.
Coming(pc, ticket, token, by) ==
  [pc |-> pc, ticket |-> ticket, token |-> token, by |-> by, at |-> 0]

Init ==
  /\ now = 0
  /\ tickets = [t \in {} |-> 0]
  /\ issue = [t \in Ticket |-> [pc |-> "none", at |-> 0]]
  /\ socket = [s \in Socket |-> Coming("none", NoTicket, FALSE, "none")]

Given == {t \in Ticket : issue[t].pc = "given"}

-------------------------------------------------------------------------------
(* /api/auth/ticket *)

\* now := time.Now(), before ticketMu.Lock()
ReadsClock(t) ==
  /\ issue[t].pc = "none"
  /\ issue' = [issue EXCEPT ![t] = [pc |-> "lock", at |-> now]]
  /\ UNCHANGED <<now, tickets, socket>>

\* What the loop over the table leaves: now.After(exp) deletes.
ByIssueTime(at) == {t \in DOMAIN tickets : ~(at > issue[t].at)}
Unexpired(at) == {t \in DOMAIN tickets : ~(at > tickets[t])}

RoomForOneMore(left) == Cardinality(DOMAIN left) <= Limit
Room(left) == Cardinality(DOMAIN left) < Limit

Issues(t) ==
  LET at == issue[t].at
      left == Restrict(tickets, Unexpired(at))
      room == Room(left) IN
  /\ issue[t].pc = "lock"
  /\ tickets' = IF room THEN [u \in DOMAIN left \cup {t} |->
                                IF u = t THEN at + TTL ELSE left[u]]
                        ELSE left
  /\ issue' = [issue EXCEPT ![t].pc = IF room THEN "given" ELSE "refused"]
  /\ UNCHANGED <<now, socket>>

-------------------------------------------------------------------------------
(* /ws *)

\* A browser shows a ticket it was given, or none, and perhaps the token as a
\* parameter.  A client that can set the Authorization header needs neither.
Connects(s) ==
  /\ socket[s].pc = "none"
  /\ \/ \E t \in Given \cup {NoTicket}, token \in BOOLEAN :
          socket' = [socket EXCEPT ![s] = Coming("check", t, token, "none")]
     \/ socket' = [socket EXCEPT ![s] = Coming("upgrade", NoTicket, FALSE, "header")]
  /\ UNCHANGED <<now, tickets, issue>>

\* delete(a.tickets, ticket)
KeptAfterUse(t) == tickets
RemovedByUse(t) == Restrict(tickets, DOMAIN tickets \ {t})

\* The locked section, and the token as a fallback when it does not accept.
Checks(s) ==
  LET t == socket[s].ticket
      accepted == t \in DOMAIN tickets /\ now < tickets[t] IN
  /\ socket[s].pc = "check"
  /\ tickets' = IF accepted THEN RemovedByUse(t) ELSE tickets
  /\ socket' = [socket EXCEPT
       ![s].at = now,
       ![s].by = IF accepted THEN "ticket"
                 ELSE IF socket[s].token THEN "token" ELSE "none",
       ![s].pc = IF accepted \/ socket[s].token THEN "upgrade" ELSE "refused"]
  /\ UNCHANGED <<now, issue>>

\* A handshake that fails, for its origin or otherwise, has used the ticket up.
Upgrades(s) ==
  /\ socket[s].pc = "upgrade"
  /\ \E to \in {"open", "failed"} : socket' = [socket EXCEPT ![s].pc = to]
  /\ UNCHANGED <<now, tickets, issue>>

-------------------------------------------------------------------------------
Tick ==
  /\ now < MaxTime
  /\ now' = now + 1
  /\ UNCHANGED <<tickets, issue, socket>>

Next ==
  \/ \E t \in Ticket : ReadsClock(t) \/ Issues(t)
  \/ \E s \in Socket : Connects(s) \/ Checks(s) \/ Upgrades(s)
  \/ Tick

Spec == Init /\ [][Next]_vars

-------------------------------------------------------------------------------
SocketCalls ==
  [pc : {"none", "check", "upgrade", "open", "failed", "refused"},
   ticket : Ticket \cup {NoTicket}, token : BOOLEAN,
   by : {"none", "ticket", "token", "header"}, at : 0 .. now]

\* The table stays bounded, and dates no ticket later than its call could.
TypeOK ==
  /\ now \in 0 .. MaxTime
  /\ Cardinality(DOMAIN tickets) <= Limit
  /\ \A t \in DOMAIN tickets : t \in Given /\ tickets[t] = issue[t].at + TTL
  /\ issue \in [Ticket -> [pc : {"none", "lock", "given", "refused"}, at : 0 .. now]]
  /\ socket \in [Socket -> SocketCalls]

Expiry(t) == issue[t].at + TTL
Users(t) == {s \in Socket : socket[s].by = "ticket" /\ socket[s].ticket = t}

\* "Single-use short-lived (60s)" (app.go:434): of all calls of /ws that show one
\* ticket, however they interleave, one is let in by it, before it expires; and a
\* ticket shown in time is only refused when another call has used it: the pruning of
\* other requests, which go by a clock they read before they got the lock, never
\* removes a ticket that is still good (app.go:440-446, 475-482).
AdmitsOnceInTime ==
  \A t \in Ticket :
    LET shown == {s \in Socket : socket[s].ticket = t /\ socket[s].pc \notin {"none", "check"}} IN
    /\ Cardinality(Users(t)) <= 1
    /\ \A s \in Users(t) : socket[s].at < Expiry(t)
    /\ (\E s \in shown : socket[s].at < Expiry(t)) => Users(t) # {}
===============================================================================

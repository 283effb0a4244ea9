----------------------------- MODULE DashboardProofs -----------------------------
(***************************************************************************)
(* Theorems about the two tables that the dashboard's API writes while      *)
(* requests read them, for any number of calls: Tickets, for any limit and  *)
(* lifetime, and after it MockRules, for any prefixes and any number of     *)
(* rules.                                                                   *)
(***************************************************************************)
EXTENDS Tickets, MockRules, FiniteSetTheorems, SequenceTheorems, TLAPS

-------------------------------------------------------------------------------
(* The tickets. *)

LEMMA ConstantsAreNat ==
  MaxTickets \in Nat /\ Limit \in Nat /\ TTL \in Nat /\ MaxTime \in Nat
  BY TicketsAssumption

\* A table of tickets is finite, and a smaller one holds no more.
LEMMA Smaller ==
  ASSUME NEW S \in SUBSET Ticket, NEW T \in SUBSET S
  PROVE  IsFiniteSet(T) /\ Cardinality(T) \in Nat /\ Cardinality(T) <= Cardinality(S)
<1>1. IsFiniteSet(Ticket)
  BY ConstantsAreNat, FS_Interval DEF Ticket
<1>2. IsFiniteSet(S)
  BY <1>1, FS_Subset
<1> QED
  BY <1>2, FS_Subset, FS_CardinalityType

LEMMA OneMore ==
  ASSUME NEW S, NEW x, IsFiniteSet(S)
  PROVE  /\ Cardinality(S) \in Nat
         /\ Cardinality(S \cup {x}) \in Nat
         /\ Cardinality(S \cup {x}) <= Cardinality(S) + 1
<1>1. IsFiniteSet(S \cup {x}) /\ Cardinality(S) \in Nat
  BY FS_AddElement, FS_CardinalityType
<1>2. Cardinality(S \cup {x}) = IF x \in S THEN Cardinality(S) ELSE Cardinality(S) + 1
  BY FS_AddElement
<1> QED
  BY <1>1, <1>2

\* What an issuer leaves and adds: the locked section of /api/auth/ticket.
LEMMA Issued ==
  ASSUME TypeOK, NEW t \in Ticket, Issues(t)
  PROVE  /\ DOMAIN tickets' \subseteq DOMAIN tickets \cup {t}
         /\ \A u \in DOMAIN tickets \ {t} :
              ~(issue[t].at > tickets[u]) => u \in DOMAIN tickets' /\ tickets'[u] = tickets[u]
         /\ \A u \in DOMAIN tickets' \ {t} : tickets'[u] = tickets[u]
         /\ t \in DOMAIN tickets' => tickets'[t] = issue[t].at + TTL /\ issue'[t].pc = "given"
         /\ issue'[t].pc = "given" => t \in DOMAIN tickets'
         /\ Cardinality(DOMAIN tickets') <= Limit
<1> DEFINE at == issue[t].at
           left == Restrict(tickets, Unexpired(at))
<1>1. t \notin DOMAIN tickets
  BY DEF TypeOK, Given, Issues
<1>2. /\ DOMAIN left = Unexpired(at)
      /\ \A u \in Unexpired(at) : left[u] = tickets[u]
  BY DEF Restrict
<1>3. Unexpired(at) \subseteq DOMAIN tickets /\ DOMAIN tickets \subseteq Ticket
  BY DEF Unexpired, TypeOK, Given
<1>4. CASE Room(left)
  <2>1. tickets' = [u \in DOMAIN left \cup {t} |-> IF u = t THEN at + TTL ELSE left[u]]
    BY <1>4 DEF Issues
  <2>2. Cardinality(DOMAIN left \cup {t}) <= Limit
    <3>1. IsFiniteSet(DOMAIN left) /\ Cardinality(DOMAIN left) \in Nat
      BY <1>2, <1>3, Smaller
    <3>2. /\ Cardinality(DOMAIN left \cup {t}) <= Cardinality(DOMAIN left) + 1
          /\ Cardinality(DOMAIN left \cup {t}) \in Nat
      BY <3>1, OneMore
    <3>3. Cardinality(DOMAIN left) < Limit
      BY <1>4 DEF Room
    <3> QED
      BY <3>1, <3>2, <3>3, ConstantsAreNat
  <2>3. issue'[t].pc = "given"
    BY <1>4 DEF Issues, TypeOK
  <2> QED
    BY <1>1, <1>2, <1>3, <2>1, <2>2, <2>3 DEF Unexpired
<1>5. CASE ~Room(left)
  <2>1. tickets' = left
    BY <1>5 DEF Issues
  <2>2. Cardinality(DOMAIN left) <= Limit
    <3>1. Cardinality(DOMAIN left) <= Cardinality(DOMAIN tickets)
      BY <1>2, <1>3, Smaller
    <3>2. Cardinality(DOMAIN left) \in Nat /\ Cardinality(DOMAIN tickets) \in Nat
      BY <1>2, <1>3, Smaller
    <3> QED
      BY <3>1, <3>2, ConstantsAreNat DEF TypeOK
  <2>3. issue'[t].pc = "refused"
    BY <1>5 DEF Issues, TypeOK
  <2> QED
    BY <1>1, <1>2, <1>3, <2>1, <2>2, <2>3 DEF Unexpired
<1> QED
  BY <1>4, <1>5

-------------------------------------------------------------------------------
LEMMA TypeAtStart == Init => TypeOK
<1> SUFFICES ASSUME Init PROVE TypeOK
  OBVIOUS
<1>1. DOMAIN tickets = {} /\ Cardinality(DOMAIN tickets) = 0
  BY FS_EmptySet DEF Init
<1> QED
  BY <1>1, ConstantsAreNat DEF Init, Coming, TypeOK, SocketCalls

LEMMA TypeStep == TypeOK /\ [Next]_vars => TypeOK'
<1> SUFFICES ASSUME TypeOK, [Next]_vars PROVE TypeOK'
  OBVIOUS
<1> USE ConstantsAreNat
<1>1. ASSUME NEW t \in Ticket, ReadsClock(t) PROVE TypeOK'
  BY <1>1 DEF ReadsClock, TypeOK, Given, SocketCalls
<1>2. ASSUME NEW t \in Ticket, Issues(t) PROVE TypeOK'
  <2>1. /\ now' = now /\ socket' = socket
        /\ issue' \in [Ticket -> [pc : {"none", "lock", "given", "refused"}, at : 0 .. now]]
        /\ issue'[t].at = issue[t].at
        /\ \A u \in Ticket \ {t} : issue'[u] = issue[u]
    BY <1>2 DEF Issues, TypeOK
  <2>2. ASSUME NEW u \in DOMAIN tickets'
        PROVE  u \in Given' /\ tickets'[u] = issue'[u].at + TTL
    <3>1. CASE u = t
      BY <1>2, <2>1, <3>1, Issued DEF Given
    <3>2. CASE u # t
      BY <1>2, <2>1, <3>2, Issued DEF Given, TypeOK
    <3> QED
      BY <3>1, <3>2
  <2>3. Cardinality(DOMAIN tickets') <= Limit
    BY <1>2, Issued
  <2> QED
    BY <2>1, <2>2, <2>3 DEF TypeOK, SocketCalls
<1>3. ASSUME NEW s \in Socket, Connects(s) PROVE TypeOK'
  <2>1. socket' \in [Socket -> SocketCalls]
    <3>1. ASSUME NEW t \in Ticket \cup {NoTicket}, NEW token \in BOOLEAN,
                 NEW pc \in {"check", "upgrade"}, NEW by \in {"none", "header"}
          PROVE  Coming(pc, t, token, by) \in SocketCalls
      <4>1. 0 \in 0 .. now
        BY DEF TypeOK
      <4> QED
        BY <4>1, Zenon DEF Coming, SocketCalls
    <3>2. PICK c \in SocketCalls : socket' = [socket EXCEPT ![s] = c]
      BY <1>3, <3>1 DEF Connects, Given
    <3> QED
      BY <3>2 DEF TypeOK
  <2> QED
    BY <1>3, <2>1 DEF Connects, TypeOK, Given, SocketCalls
<1>4. ASSUME NEW s \in Socket, Checks(s) PROVE TypeOK'
  <2> DEFINE t == socket[s].ticket
  <2>1. /\ now' = now /\ issue' = issue
        /\ socket' \in [Socket -> SocketCalls]
    BY <1>4 DEF Checks, TypeOK, SocketCalls
  <2>2. tickets' = tickets \/ tickets' = Restrict(tickets, DOMAIN tickets \ {t})
    BY <1>4 DEF Checks, RemovedByUse
  <2>3. /\ DOMAIN tickets' \subseteq DOMAIN tickets
        /\ \A u \in DOMAIN tickets' : tickets'[u] = tickets[u]
    BY <2>2 DEF Restrict
  <2>4. Cardinality(DOMAIN tickets') <= Limit
    <3>1. DOMAIN tickets \subseteq Ticket
      BY DEF TypeOK, Given
    <3>2. Cardinality(DOMAIN tickets') <= Cardinality(DOMAIN tickets)
      BY <2>3, <3>1, Smaller
    <3>3. Cardinality(DOMAIN tickets) \in Nat /\ Cardinality(DOMAIN tickets') \in Nat
      BY <2>3, <3>1, Smaller
    <3> QED
      BY <3>2, <3>3 DEF TypeOK
  <2> QED
    BY <2>1, <2>3, <2>4 DEF TypeOK, Given, SocketCalls
<1>5. ASSUME NEW s \in Socket, Upgrades(s) PROVE TypeOK'
  BY <1>5 DEF Upgrades, TypeOK, Given, SocketCalls
<1>6. CASE Tick
  BY <1>6 DEF Tick, TypeOK, Given, SocketCalls
<1>7. CASE UNCHANGED vars
  BY <1>7 DEF vars, TypeOK, Given, SocketCalls
<1> QED
  BY <1>1, <1>2, <1>3, <1>4, <1>5, <1>6, <1>7 DEF Next

\* The table never holds more than Limit tickets, whatever clocks its issuers read and
\* however many sockets redeem meanwhile, and dates each by its own call (app.go:447).
THEOREM TypeCorrect == Spec => []TypeOK
  BY TypeAtStart, TypeStep, PTL DEF Spec

-------------------------------------------------------------------------------
\* A ticket that is still good is in the table unless it was used.
GoodUnlessUsed ==
  \A t \in Given : now < Expiry(t) =>
    t \in DOMAIN tickets \/ \E s \in Socket : socket[s].by = "ticket" /\ socket[s].ticket = t

\* A used ticket was given, is gone from the table, was in time, and has one user.
UsedIsGone ==
  \A s \in Socket : socket[s].by = "ticket" =>
    /\ socket[s].ticket \in Given /\ socket[s].ticket \notin DOMAIN tickets
    /\ socket[s].at < Expiry(socket[s].ticket)
    /\ \A r \in Socket : socket[r].by = "ticket" /\ socket[r].ticket = socket[s].ticket => r = s

\* A socket shows what was given to it, and nothing lets it in before it was checked.
ShownWasGiven ==
  \A s \in Socket :
    /\ socket[s].ticket # NoTicket => socket[s].ticket \in Given
    /\ socket[s].pc \in {"none", "check"} => socket[s].by = "none"

\* A ticket that was shown in time was used, by this socket or by another.
InTimeWasUsed ==
  \A s \in Socket :
    /\ socket[s].ticket # NoTicket /\ socket[s].pc \notin {"none", "check"}
    /\ socket[s].at < Expiry(socket[s].ticket)
    => \E r \in Socket : socket[r].by = "ticket" /\ socket[r].ticket = socket[s].ticket

Inv == TypeOK /\ GoodUnlessUsed /\ UsedIsGone /\ ShownWasGiven /\ InTimeWasUsed

-------------------------------------------------------------------------------
LEMMA InvAtStart == Init => Inv
<1> SUFFICES ASSUME Init PROVE Inv
  OBVIOUS
<1>1. Given = {}
  BY DEF Init, Given
<1>2. \A s \in Socket : /\ socket[s].ticket = NoTicket /\ socket[s].pc = "none"
                        /\ socket[s].by = "none"
  BY DEF Init, Coming
<1>3. TypeOK
  BY TypeAtStart
<1> QED
  BY <1>1, <1>2, <1>3
  DEF Inv, GoodUnlessUsed, UsedIsGone, ShownWasGiven, InTimeWasUsed

\* A step that changes no socket and no ticket given before, and takes nothing that
\* is good out of the table nor anything that was used into it.
LEMMA Keeps ==
  ASSUME Inv, TypeOK', socket' = socket, now' \in Nat, now' >= now,
         \A t \in Ticket : t \in Given => t \in Given' /\ issue'[t].at = issue[t].at,
         \A t \in Given : t \in DOMAIN tickets' => t \in DOMAIN tickets,
         \A t \in Given : now < Expiry(t) /\ t \in DOMAIN tickets => t \in DOMAIN tickets',
         \A t \in Given' \ Given : t \in DOMAIN tickets'
  PROVE  Inv'
<1> USE ConstantsAreNat
<1>1. /\ \A t \in Given : Expiry(t)' = Expiry(t) /\ t \in Given'
      /\ Given \subseteq Ticket /\ now \in Nat /\ \A t \in Given : Expiry(t) \in Nat
  BY DEF Expiry, Given, Inv, TypeOK
<1>2. GoodUnlessUsed'
  <2> SUFFICES ASSUME NEW t \in Given', now' < Expiry(t)', t \notin DOMAIN tickets'
               PROVE  \E s \in Socket : socket[s].by = "ticket" /\ socket[s].ticket = t
    BY DEF GoodUnlessUsed
  <2>1. t \in Given /\ now < Expiry(t)
    BY <1>1
  <2> QED
    BY <2>1 DEF Inv, GoodUnlessUsed
<1>3. UsedIsGone'
  BY <1>1 DEF Inv, UsedIsGone
<1>4. ShownWasGiven'
  BY <1>1 DEF Inv, ShownWasGiven
<1>5. InTimeWasUsed'
  BY <1>1 DEF Inv, InTimeWasUsed, ShownWasGiven
<1> QED
  BY <1>2, <1>3, <1>4, <1>5 DEF Inv

\* A step that changes one socket, which nothing has let in by a ticket before or
\* after, and shows a ticket that was given and is no longer good or is used.
LEMMA Moves ==
  ASSUME Inv, TypeOK', NEW s \in Socket,
         UNCHANGED <<now, tickets, issue>>,
         \A r \in Socket \ {s} : socket'[r] = socket[r],
         socket'[s].by = "ticket" <=> socket[s].by = "ticket",
         socket[s].by = "ticket" => /\ socket'[s].ticket = socket[s].ticket
                                    /\ socket'[s].at = socket[s].at,
         socket'[s].ticket # NoTicket => socket'[s].ticket \in Given,
         socket'[s].pc \in {"none", "check"} => socket'[s].by = "none",
         /\ socket'[s].ticket # NoTicket /\ socket'[s].pc \notin {"none", "check"}
         /\ socket'[s].at < Expiry(socket'[s].ticket)
         => \E r \in Socket : socket[r].by = "ticket" /\ socket[r].ticket = socket'[s].ticket
  PROVE  Inv'
<1>1. Given' = Given /\ \A t : Expiry(t)' = Expiry(t)
  BY DEF Given, Expiry
<1>2. \A r \in Socket : /\ socket'[r].by = "ticket" <=> socket[r].by = "ticket"
                        /\ socket[r].by = "ticket" => /\ socket'[r].ticket = socket[r].ticket
                                                      /\ socket'[r].at = socket[r].at
  OBVIOUS
<1>3. GoodUnlessUsed'
  BY <1>1, <1>2 DEF Inv, GoodUnlessUsed
<1>4. UsedIsGone'
  BY <1>1, <1>2 DEF Inv, UsedIsGone
<1>5. ShownWasGiven'
  BY <1>1 DEF Inv, ShownWasGiven
<1>6. InTimeWasUsed'
  BY <1>1, <1>2 DEF Inv, InTimeWasUsed
<1> QED
  BY <1>3, <1>4, <1>5, <1>6 DEF Inv

\* A ticket in the table is redeemed: the locked section of /ws when it accepts.
LEMMA Redeems ==
  ASSUME Inv, TypeOK', NEW s \in Socket, Checks(s),
         socket[s].ticket \in DOMAIN tickets, now < tickets[socket[s].ticket]
  PROVE  Inv'
<1> DEFINE t == socket[s].ticket
<1>1. Given' = Given /\ \A u : Expiry(u)' = Expiry(u)
  BY DEF Checks, Given, Expiry
<1>2. now' = now /\ tickets' = Restrict(tickets, DOMAIN tickets \ {t})
  BY DEF Checks, RemovedByUse
<1>3. DOMAIN tickets' = DOMAIN tickets \ {t}
  BY <1>2 DEF Restrict
<1>4. /\ socket'[s].by = "ticket" /\ socket'[s].ticket = t /\ socket'[s].at = now
      /\ socket'[s].pc = "upgrade"
      /\ \A r \in Socket \ {s} : socket'[r] = socket[r]
  <2> DEFINE x == [socket[s] EXCEPT !.at = now, !.by = "ticket", !.pc = "upgrade"]
  <2>1. socket' = [socket EXCEPT ![s] = x]
    BY DEF Checks
  <2>2. DOMAIN socket = Socket /\ socket[s] \in SocketCalls
    BY DEF Inv, TypeOK
  <2>3. x.by = "ticket" /\ x.ticket = t /\ x.at = now /\ x.pc = "upgrade"
    BY <2>2 DEF SocketCalls
  <2> HIDE DEF x
  <2> QED
    BY <2>1, <2>2, <2>3
<1>5. t \in Given /\ now < Expiry(t)
  BY DEF Inv, TypeOK, Expiry
<1>6. t # NoTicket
  BY <1>5, ConstantsAreNat DEF Given, Ticket, NoTicket
<1>7. socket[s].by = "none"
  BY DEF Checks, Inv, ShownWasGiven
<1>8. \A r \in Socket : socket[r].by = "ticket" => socket'[r] = socket[r] /\ socket[r].ticket # t
  BY <1>4, <1>7 DEF Inv, UsedIsGone
<1>9. GoodUnlessUsed'
  <2> SUFFICES ASSUME NEW u \in Given, now < Expiry(u), u \notin DOMAIN tickets'
               PROVE  \E r \in Socket : socket'[r].by = "ticket" /\ socket'[r].ticket = u
    BY <1>1, <1>2 DEF GoodUnlessUsed
  <2>1. CASE u = t
    BY <2>1, <1>4
  <2>2. CASE u # t
    BY <2>2, <1>3, <1>8 DEF Inv, GoodUnlessUsed
  <2> QED
    BY <2>1, <2>2
<1>10. UsedIsGone'
  <2> SUFFICES ASSUME NEW r \in Socket, socket'[r].by = "ticket"
               PROVE  /\ socket'[r].ticket \in Given /\ socket'[r].ticket \notin DOMAIN tickets'
                      /\ socket'[r].at < Expiry(socket'[r].ticket)
                      /\ \A q \in Socket :
                           socket'[q].by = "ticket" /\ socket'[q].ticket = socket'[r].ticket => q = r
    BY <1>1 DEF UsedIsGone
  <2>1. CASE r = s
    BY <2>1, <1>3, <1>4, <1>5, <1>8
  <2>2. CASE r # s
    BY <2>2, <1>3, <1>4, <1>8 DEF Inv, UsedIsGone
  <2> QED
    BY <2>1, <2>2
<1>11. ShownWasGiven'
  BY <1>1, <1>4, <1>5 DEF Inv, ShownWasGiven
<1>12. InTimeWasUsed'
  <2> SUFFICES ASSUME NEW r \in Socket, socket'[r].ticket # NoTicket,
                      socket'[r].pc \notin {"none", "check"},
                      socket'[r].at < Expiry(socket'[r].ticket)
               PROVE  \E q \in Socket : /\ socket'[q].by = "ticket"
                                        /\ socket'[q].ticket = socket'[r].ticket
    BY <1>1 DEF InTimeWasUsed
  <2>1. CASE r = s
    BY <2>1, <1>4
  <2>2. CASE r # s
    BY <2>2, <1>4, <1>8 DEF Inv, InTimeWasUsed
  <2> QED
    BY <2>1, <2>2
<1> QED
  BY <1>9, <1>10, <1>11, <1>12 DEF Inv

LEMMA InvStep == Inv /\ [Next]_vars => Inv'
<1> SUFFICES ASSUME Inv, [Next]_vars PROVE Inv'
  OBVIOUS
<1> USE ConstantsAreNat
<1>0. TypeOK /\ TypeOK' /\ now \in Nat /\ now' \in Nat
  BY TypeStep DEF Inv, TypeOK
<1>1. ASSUME NEW t \in Ticket, ReadsClock(t) PROVE Inv'
  <2>1. /\ now' = now /\ tickets' = tickets /\ socket' = socket
        /\ \A u \in Ticket : u \in Given => issue'[u] = issue[u]
        /\ Given' = Given
    BY <1>0, <1>1 DEF ReadsClock, Given, TypeOK
  <2> QED
    BY <1>0, <2>1, Keeps DEF Given
<1>2. ASSUME NEW t \in Ticket, Issues(t) PROVE Inv'
  <2>1. /\ now' = now /\ socket' = socket
        /\ \A u \in Ticket \ {t} : issue'[u] = issue[u]
        /\ t \notin Given /\ issue[t].at \in Nat /\ issue[t].at <= now
    BY <1>0, <1>2 DEF Issues, Given, TypeOK
  <2>2. \A u \in Given : u \in DOMAIN tickets' => u \in DOMAIN tickets
    BY <1>0, <1>2, <2>1, Issued
  <2>3. ASSUME NEW u \in Given, now < Expiry(u), u \in DOMAIN tickets
        PROVE  u \in DOMAIN tickets'
    <3>1. tickets[u] = Expiry(u) /\ Expiry(u) \in Nat
      BY <1>0, <2>3 DEF TypeOK, Expiry, Given
    <3>2. ~(issue[t].at > tickets[u])
      BY <1>0, <2>1, <2>3, <3>1
    <3> QED
      BY <1>0, <1>2, <2>1, <2>3, <3>2, Issued
  <2>4. \A u \in Given' \ Given : u \in DOMAIN tickets'
    BY <1>0, <1>2, <2>1, Issued DEF Given
  <2>5. \A u \in Ticket : u \in Given => u \in Given' /\ issue'[u].at = issue[u].at
    BY <2>1 DEF Given
  <2> QED
    BY <1>0, <2>1, <2>2, <2>3, <2>4, <2>5, Keeps
<1>3. ASSUME NEW s \in Socket, Connects(s) PROVE Inv'
  <2>1. PICK t \in Given \cup {NoTicket}, token \in BOOLEAN, pc \in {"check", "upgrade"},
             by \in {"none", "header"} :
          /\ pc = "check" => by = "none"
          /\ pc = "upgrade" => t = NoTicket
          /\ socket' = [socket EXCEPT ![s] = Coming(pc, t, token, by)]
    <3>1. CASE \E t \in Given \cup {NoTicket}, token \in BOOLEAN :
                 socket' = [socket EXCEPT ![s] = Coming("check", t, token, "none")]
      BY <3>1
    <3>2. CASE socket' = [socket EXCEPT ![s] = Coming("upgrade", NoTicket, FALSE, "header")]
      BY <3>2
    <3> QED
      BY <1>3, <3>1, <3>2 DEF Connects
  <2>2. socket'[s] = Coming(pc, t, token, by) /\ \A r \in Socket \ {s} : socket'[r] = socket[r]
    BY <1>0, <2>1 DEF TypeOK
  <2>3. socket'[s].pc = pc /\ socket'[s].ticket = t /\ socket'[s].by = by
    <3> DEFINE c == Coming(pc, t, token, by)
    <3>1. c.pc = pc /\ c.ticket = t /\ c.by = by
      BY Zenon DEF Coming
    <3> HIDE DEF c
    <3> QED
      BY <2>2, <3>1 DEF c
  <2>4. socket[s].by = "none" /\ UNCHANGED <<now, tickets, issue>>
    BY <1>3 DEF Connects, Inv, ShownWasGiven
  <2> QED
    BY <1>0, <2>1, <2>2, <2>3, <2>4, Moves
<1>4. ASSUME NEW s \in Socket, Checks(s) PROVE Inv'
  <2> DEFINE t == socket[s].ticket
  <2>1. CASE t \in DOMAIN tickets /\ now < tickets[t]
    BY <1>0, <1>4, <2>1, Redeems
  <2>2. CASE ~(t \in DOMAIN tickets /\ now < tickets[t])
    <3>1. /\ UNCHANGED <<now, tickets, issue>>
          /\ \A r \in Socket \ {s} : socket'[r] = socket[r]
          /\ socket'[s].ticket = t /\ socket'[s].at = now
          /\ socket'[s].by \in {"token", "none"} /\ socket'[s].pc \in {"upgrade", "refused"}
      <4>1. /\ UNCHANGED <<now, tickets, issue>>
            /\ socket' = [socket EXCEPT
                 ![s].at = now,
                 ![s].by = IF socket[s].token THEN "token" ELSE "none",
                 ![s].pc = IF socket[s].token THEN "upgrade" ELSE "refused"]
        BY <1>4, <2>2 DEF Checks
      <4>2. socket \in [Socket -> SocketCalls]
        BY <1>0 DEF TypeOK
      <4>3. CASE socket[s].token
        BY <4>1, <4>2, <4>3 DEF SocketCalls
      <4>4. CASE ~socket[s].token
        BY <4>1, <4>2, <4>4 DEF SocketCalls
      <4> QED
        BY <4>3, <4>4
    <3>2. socket[s].by = "none" /\ (t # NoTicket => t \in Given)
      BY <1>4 DEF Checks, Inv, ShownWasGiven
    <3>3. ASSUME t # NoTicket, now < Expiry(t)
          PROVE  \E r \in Socket : socket[r].by = "ticket" /\ socket[r].ticket = t
      <4>1. t \notin DOMAIN tickets
        BY <1>0, <2>2, <3>3 DEF TypeOK, Expiry
      <4> QED
        BY <3>2, <3>3, <4>1 DEF Inv, GoodUnlessUsed
    <3> QED
      BY <1>0, <3>1, <3>2, <3>3, Moves
  <2> QED
    BY <2>1, <2>2
<1>5. ASSUME NEW s \in Socket, Upgrades(s) PROVE Inv'
  <2>1. /\ UNCHANGED <<now, tickets, issue>> /\ socket[s].pc = "upgrade"
        /\ \A r \in Socket \ {s} : socket'[r] = socket[r]
        /\ socket'[s].ticket = socket[s].ticket /\ socket'[s].at = socket[s].at
        /\ socket'[s].by = socket[s].by /\ socket'[s].pc \in {"open", "failed"}
    <3>1. UNCHANGED <<now, tickets, issue>> /\ socket[s].pc = "upgrade"
      BY <1>5 DEF Upgrades
    <3>2. PICK to \in {"open", "failed"} : socket' = [socket EXCEPT ![s].pc = to]
      BY <1>5 DEF Upgrades
    <3>3. DOMAIN socket = Socket /\ socket[s] \in SocketCalls
      BY <1>0 DEF TypeOK
    <3> DEFINE x == [socket[s] EXCEPT !.pc = to]
    <3>4. x.ticket = socket[s].ticket /\ x.at = socket[s].at /\ x.by = socket[s].by /\ x.pc = to
      BY <3>3 DEF SocketCalls
    <3>5. socket' = [socket EXCEPT ![s] = x]
      BY <3>2
    <3> HIDE DEF x
    <3> QED
      BY <3>1, <3>3, <3>4, <3>5
  <2>2. socket[s].ticket # NoTicket => socket[s].ticket \in Given
    BY DEF Inv, ShownWasGiven
  <2>3. socket[s].ticket # NoTicket /\ socket[s].at < Expiry(socket[s].ticket)
        => \E r \in Socket : socket[r].by = "ticket" /\ socket[r].ticket = socket[s].ticket
    BY <2>1 DEF Inv, InTimeWasUsed
  <2> QED
    BY <1>0, <2>1, <2>2, <2>3, Moves
<1>6. CASE Tick
  <2>1. now' >= now /\ UNCHANGED <<tickets, issue, socket>> /\ Given' = Given
    BY <1>0, <1>6 DEF Tick, Given
  <2> QED
    BY <1>0, <2>1, Keeps
<1>7. CASE UNCHANGED vars
  <2>1. now' = now /\ UNCHANGED <<tickets, issue, socket>> /\ Given' = Given
    BY <1>7 DEF vars, Given
  <2> QED
    BY <1>0, <2>1, Keeps
<1> QED
  BY <1>1, <1>2, <1>3, <1>4, <1>5, <1>6, <1>7 DEF Next

LEMMA InvAdmits == Inv => AdmitsOnceInTime
<1> SUFFICES ASSUME Inv, NEW t \in Ticket
             PROVE  /\ Cardinality(Users(t)) <= 1
                    /\ \A s \in Users(t) : socket[s].at < Expiry(t)
                    /\ \A s \in Socket :
                         /\ socket[s].ticket = t /\ socket[s].pc \notin {"none", "check"}
                         /\ socket[s].at < Expiry(t)
                         => Users(t) # {}
  BY DEF AdmitsOnceInTime
<1>1. Cardinality(Users(t)) <= 1
  <2>1. CASE Users(t) = {}
    BY <2>1, FS_EmptySet
  <2>2. CASE Users(t) # {}
    <3>1. PICK s \in Users(t) : TRUE
      BY <2>2
    <3>2. Users(t) = {s}
      BY <3>1 DEF Users, Inv, UsedIsGone
    <3>3. Cardinality({s}) = 1
      BY FS_Singleton
    <3> QED
      BY <3>2, <3>3
  <2> QED
    BY <2>1, <2>2
<1>2. \A s \in Users(t) : socket[s].at < Expiry(t)
  BY DEF Users, Inv, UsedIsGone
<1>3. t # NoTicket
  BY ConstantsAreNat DEF Ticket, NoTicket
<1> QED
  BY <1>1, <1>2, <1>3 DEF Users, Inv, InTimeWasUsed

\* However the calls of the two endpoints interleave and whatever clocks they have read,
\* a ticket lets in one socket, in time, and refuses no other that comes first
\* (app.go:434-482).
THEOREM AdmittedOnce == Spec => []AdmitsOnceInTime
<1>1. Spec => []Inv
  BY InvAtStart, InvStep, PTL DEF Spec
<1> QED
  BY <1>1, InvAdmits, PTL

-------------------------------------------------------------------------------
(* The mock rules. *)

\* Every set of naturals has a least element: of the intervals that end in one of its
\* elements, one has no other inside it.
LEMMA LeastElement ==
  ASSUME NEW X \in SUBSET Nat, X # {}
  PROVE  \E n \in X : \A m \in X : n <= m
<1> DEFINE T == {0 .. n : n \in X}
           R == StrictSubsetOrdering(Nat)
           S == FiniteSubsetsOf(Nat)
<1>1. IsWellFoundedOn(R, S)
  BY FS_StrictSubsetOrderingWellFounded
<1>2. ASSUME NEW n \in X PROVE 0 .. n \in S
  <2>1. 0 \in Int /\ n \in Int
    OBVIOUS
  <2>2. IsFiniteSet(0 .. n)
    BY <2>1, FS_Interval
  <2> QED
    BY <2>2 DEF FiniteSubsetsOf
<1>3. T \subseteq S /\ T # {}
  BY <1>2
<1> HIDE DEF T, R, S
<1>4. PICK t \in T : \A u \in T : <<u, t>> \notin R
  BY <1>1, <1>3, WFMin
<1>5. PICK n \in X : t = 0 .. n
  BY DEF T
<1>6. ASSUME NEW m \in X, m < n PROVE FALSE
  <2>1. 0 .. m \in T /\ <<0 .. m, t>> \notin R
    BY <1>4 DEF T
  <2>2. 0 .. m \subseteq 0 .. n /\ 0 .. m # 0 .. n /\ 0 .. n \subseteq Nat /\ 0 .. m \subseteq Nat
    BY <1>6
  <2> QED
    BY <1>5, <2>1, <2>2 DEF R, StrictSubsetOrdering
<1> QED
  BY <1>6

\* And one of naturals up to n has a greatest one.
LEMMA GreatestElement ==
  ASSUME NEW n \in Nat, NEW X \in SUBSET (0 .. n), X # {}
  PROVE  \E g \in X : \A m \in X : m <= g
<1> DEFINE Y == {n - x : x \in X}
<1>1. Y \in SUBSET Nat /\ Y # {}
  <2>1. \A x \in X : x \in 0 .. n /\ n - x \in Nat
    OBVIOUS
  <2> QED
    BY <2>1
<1>2. PICK y \in Y : \A z \in Y : y <= z
  BY <1>1, LeastElement
<1>3. PICK g \in X : y = n - g
  OBVIOUS
<1>4. ASSUME NEW m \in X PROVE m <= g
  <2>1. n - m \in Y /\ n - g <= n - m
    BY <1>2, <1>3
  <2> QED
    BY <2>1
<1> QED
  BY <1>4

\* A cleaned prefix neither begins nor ends with a slash.
IsClean(p) == p # << >> => p[1] # "/" /\ p[Len(p)] # "/"

LEMMA Cleaned ==
  ASSUME NEW raw \in Seq(STRING)
  PROVE  Clean(raw) \in Seq(STRING) /\ IsClean(Clean(raw))
<1> DEFINE kept == {i \in DOMAIN raw : raw[i] # "/"}
           a == Min(kept)
           b == Max(kept)
<1>0. DOMAIN raw = 1 .. Len(raw) /\ Len(raw) \in Nat /\ kept \subseteq 1 .. Len(raw)
  BY LenProperties
<1>1. CASE kept = {}
  <2>1. Clean(raw) = << >>
    BY <1>1 DEF Clean
  <2> QED
    BY <2>1 DEF IsClean
<1>2. CASE kept # {}
  <2>1. Clean(raw) = SubSeq(raw, a, b)
    BY <1>2 DEF Clean
  <2>2. a \in kept /\ \A i \in kept : a <= i
    <3>1. kept \in SUBSET Nat
      BY <1>0
    <3> HIDE DEF kept
    <3>2. \E i \in kept : \A j \in kept : i <= j
      BY <1>2, <3>1, LeastElement
    <3> QED
      BY <3>2 DEF Min
  <2>3. b \in kept /\ \A i \in kept : i <= b
    <3>1. kept \in SUBSET (0 .. Len(raw)) /\ Len(raw) \in Nat
      BY <1>0
    <3> HIDE DEF kept
    <3>2. \E i \in kept : \A j \in kept : j <= i
      BY <1>2, <3>1, GreatestElement
    <3>3. \E i \in kept : \A j \in kept : i >= j
      BY <1>0, <3>2
    <3>4. b \in kept /\ \A i \in kept : b >= i
      BY <3>3 DEF Max
    <3> QED
      BY <1>0, <3>4
  <2> HIDE DEF a, b
  <2>4. a \in 1 .. Len(raw) /\ b \in 1 .. Len(raw) /\ a <= b /\ raw[a] # "/" /\ raw[b] # "/"
    BY <1>0, <2>2, <2>3
  <2> HIDE DEF kept
  <2> DEFINE p == SubSeq(raw, a, b)
  <2>5. \A i \in a .. b : raw[i] \in STRING
    BY <1>0, <2>4, ElementOfSeq
  <2>6. p \in Seq(STRING) /\ Len(p) = b - a + 1 /\ \A i \in 1 .. b - a + 1 : p[i] = raw[a + i - 1]
    BY <1>0, <2>4, <2>5, SubSeqProperties
  <2> HIDE DEF p
  <2>7. p[1] = raw[a] /\ p[Len(p)] = raw[b]
    BY <1>0, <2>4, <2>6
  <2> QED
    BY <2>1, <2>4, <2>6, <2>7 DEF p, IsClean
<1> QED
  BY <1>1, <1>2

\* What covers a path is one of its beginnings, so its length tells which.
LEMMA CoversIs ==
  ASSUME NEW path \in Seq(STRING), NEW p \in Seq(STRING), Covers(path, p)
  PROVE  Len(p) \in 0 .. Len(path) /\ p = SubSeq(path, 1, Len(p))
<1>1. Len(p) <= Len(path) /\ SubSeq(p, 1, Len(p)) = SubSeq(path, 1, Len(p))
  BY DEF Covers, IsPrefix
<1>2. SubSeq(p, 1, Len(p)) = p
  BY SubSeqFull
<1> QED
  BY <1>1, <1>2, LenProperties

-------------------------------------------------------------------------------
MockRule == [prefix : Seq(STRING), enabled : BOOLEAN, mode : {Always, OnError}]

\* Every pointer of table t leads into heap h, to a rule of its prefix.
TableSound(h, t) ==
  \A p \in DOMAIN t : /\ t[p] \in DOMAIN h /\ h[t[p]].prefix = p
                      /\ p \in Seq(STRING) /\ IsClean(p)

InForce(h, t, path, p) == h[t[p]].enabled /\ Covers(path, p)

\* r is the rule that a scan of the prefixes S has to find.
Found(h, t, path, S, r) ==
  \/ r = Nil /\ \A p \in S : ~InForce(h, t, path, p)
  \/ \E p \in S : /\ r = t[p] /\ InForce(h, t, path, p)
                  /\ \A o \in S : InForce(h, t, path, o) => Len(o) <= Len(p)

LEMMA BestRuleIs ==
  ASSUME NEW h \in Seq(MockRule), NEW t, TableSound(h, t), NEW path \in Seq(STRING)
  PROVE  Found(h, t, path, DOMAIN t, BestRule(h, t, path))
<1> DEFINE found == {r \in Range(t) : h[r].enabled /\ Covers(path, h[r].prefix)}
           r == BestRule(h, t, path)
<1>0. /\ Len(path) \in Nat
      /\ \A p \in DOMAIN t : InForce(h, t, path, p) => t[p] \in found /\ h[t[p]].prefix = p
      /\ \A x \in found : \E p \in DOMAIN t : x = t[p] /\ InForce(h, t, path, p) /\ h[x].prefix = p
  BY LenProperties DEF TableSound, InForce, Range
<1>1. CASE found = {}
  <2>1. r = Nil
    BY <1>1 DEF BestRule
  <2>2. \A p \in DOMAIN t : ~InForce(h, t, path, p)
    BY <1>0, <1>1
  <2> QED
    BY <2>1, <2>2 DEF Found
<1>2. CASE found # {}
  <2>1. r = CHOOSE x \in found : \A o \in found : Len(h[o].prefix) <= Len(h[x].prefix)
    BY <1>2 DEF BestRule
  <2> DEFINE X == {Len(h[x].prefix) : x \in found}
  <2>2. X \in SUBSET (0 .. Len(path)) /\ X # {}
    <3>1. ASSUME NEW x \in found PROVE Len(h[x].prefix) \in 0 .. Len(path)
      <4>1. PICK p \in DOMAIN t : x = t[p] /\ InForce(h, t, path, p) /\ h[x].prefix = p
        BY <1>0
      <4> QED
        BY <4>1, CoversIs DEF TableSound, InForce
    <3> QED
      BY <1>2, <3>1
  <2>3. \E g \in X : \A m \in X : m <= g
    <3> HIDE DEF X
    <3> QED
      BY <1>0, <2>2, GreatestElement
  <2>4. \E x \in found : \A o \in found : Len(h[o].prefix) <= Len(h[x].prefix)
    BY <2>3
  <2> HIDE DEF X, found, r
  <2>5. r \in found /\ \A o \in found : Len(h[o].prefix) <= Len(h[r].prefix)
    BY <2>1, <2>4
  <2>6. PICK p \in DOMAIN t : r = t[p] /\ InForce(h, t, path, p) /\ h[r].prefix = p
    BY <1>0, <2>5
  <2>7. \A o \in DOMAIN t : InForce(h, t, path, o) => Len(o) <= Len(p)
    BY <1>0, <2>5, <2>6
  <2> QED
    BY <2>6, <2>7 DEF Found, r
<1> QED
  BY <1>1, <1>2

\* A scan of the whole table has but one rule to find.
LEMMA FoundOnce ==
  ASSUME NEW h, NEW t, TableSound(h, t), NEW path \in Seq(STRING), NEW r, NEW s,
         Found(h, t, path, DOMAIN t, r), Found(h, t, path, DOMAIN t, s)
  PROVE  r = s
<1>1. CASE r = Nil /\ \A p \in DOMAIN t : ~InForce(h, t, path, p)
  BY <1>1 DEF Found
<1>2. ASSUME NEW p \in DOMAIN t, r = t[p], InForce(h, t, path, p),
             \A o \in DOMAIN t : InForce(h, t, path, o) => Len(o) <= Len(p)
      PROVE  r = s
  <2>1. PICK o \in DOMAIN t : /\ s = t[o] /\ InForce(h, t, path, o)
                              /\ \A k \in DOMAIN t : InForce(h, t, path, k) => Len(k) <= Len(o)
    BY <1>2 DEF Found
  <2>2. p \in Seq(STRING) /\ o \in Seq(STRING)
    BY DEF TableSound
  <2>3. Len(p) = Len(o)
    BY <1>2, <2>1, <2>2, LenProperties
  <2>4. p = SubSeq(path, 1, Len(p)) /\ o = SubSeq(path, 1, Len(o))
    BY <1>2, <2>1, <2>2, CoversIs DEF InForce
  <2> QED
    BY <1>2, <2>1, <2>3, <2>4
<1> QED
  BY <1>1, <1>2 DEF Found

\* One more prefix is visited.
LEMMA FoundNext ==
  ASSUME NEW h, NEW t, TableSound(h, t), NEW path \in Seq(STRING), NEW S \in SUBSET DOMAIN t,
         NEW b, Found(h, t, path, S, b), 0 \notin DOMAIN h, NEW p \in DOMAIN t,
         NEW c, c = IF InForce(h, t, path, p)
                       /\ (b = Nil \/ Len(h[t[p]].prefix) > Len(h[b].prefix))
                    THEN t[p] ELSE b
  PROVE  Found(h, t, path, S \cup {p}, c)
<1>0. /\ p \in Seq(STRING) /\ Len(p) \in Nat /\ h[t[p]].prefix = p
      /\ \A o \in S : o \in Seq(STRING) /\ Len(o) \in Nat /\ h[t[o]].prefix = o /\ t[o] # Nil
  BY LenProperties DEF TableSound, Nil
<1>1. CASE b = Nil /\ \A o \in S : ~InForce(h, t, path, o)
  <2>1. CASE InForce(h, t, path, p)
    BY <1>0, <1>1, <2>1 DEF Found
  <2>2. CASE ~InForce(h, t, path, p)
    BY <1>1, <2>2 DEF Found
  <2> QED
    BY <2>1, <2>2
<1>2. ASSUME NEW o \in S, b = t[o], InForce(h, t, path, o),
             \A k \in S : InForce(h, t, path, k) => Len(k) <= Len(o)
      PROVE  Found(h, t, path, S \cup {p}, c)
  <2>1. b # Nil /\ h[b].prefix = o /\ Len(o) \in Nat
    BY <1>0, <1>2
  <2>2. CASE InForce(h, t, path, p) /\ Len(p) > Len(o)
    <3>1. c = t[p]
      BY <1>0, <2>1, <2>2
    <3>2. \A k \in S \cup {p} : InForce(h, t, path, k) => Len(k) <= Len(p)
      BY <1>0, <1>2, <2>1, <2>2
    <3> QED
      BY <2>2, <3>1, <3>2 DEF Found
  <2>3. CASE ~(InForce(h, t, path, p) /\ Len(p) > Len(o))
    <3>1. c = t[o]
      BY <1>0, <1>2, <2>1, <2>3
    <3>2. \A k \in S \cup {p} : InForce(h, t, path, k) => Len(k) <= Len(o)
      BY <1>0, <1>2, <2>1, <2>3
    <3> QED
      BY <1>2, <3>1, <3>2 DEF Found
  <2> QED
    BY <2>2, <2>3
<1> QED
  BY <1>1, <1>2 DEF Found

-------------------------------------------------------------------------------
\* A request that is answered was answered by a rule in force that may answer it, or
\* found that at some moment there was none.
AnsweredRight(x, h) ==
  IF x.answer # Nil
  THEN x.answer \in x.force /\ (x.fallback \/ h[x.answer].mode = Always)
  ELSE \A r \in DOMAIN h : x.fallback \/ h[r].mode = Always => x.force # {r}

RequestFields == {"pc", "path", "fallback", "todo", "best", "answer", "force"}

RequestSound(x, h, t) ==
  /\ DOMAIN x = RequestFields /\ x.pc \in {"none", "scan", "decide", "done"}
  /\ x.path \in Seq(STRING) /\ x.todo \subseteq DOMAIN t
  /\ {x.best, x.answer} \cup x.force \subseteq {Nil} \cup DOMAIN h
  /\ x.pc = "none" => x.best = Nil
  /\ x.pc # "done" => x.answer = Nil
  /\ x.pc \in {"scan", "decide"} => BestRule(h, t, x.path) \in x.force
  /\ x.pc = "scan" => Found(h, t, x.path, DOMAIN t \ x.todo, x.best)
  /\ x.pc = "decide" => x.best \in x.force /\ x.best # Nil
  /\ x.pc = "done" => AnsweredRight(x, h)

\* The inductive invariant of the rules.
RulesInv ==
  /\ heap \in Seq(MockRule) /\ Len(heap) <= MaxRules
  /\ TableSound(heap, rules)
  /\ toggles \in 0 .. MaxToggles
  /\ DOMAIN request = Request
  /\ \A q \in Request : RequestSound(request[q], heap, rules)

LEMMA HeapIs ==
  ASSUME NEW h \in Seq(MockRule)
  PROVE  DOMAIN h = 1 .. Len(h) /\ Len(h) \in Nat /\ Nil \notin DOMAIN h
BY LenProperties DEF Nil

\* One request goes on, and the rules stay.
LEMMA RequestGoesOn ==
  ASSUME RulesInv, NEW q \in Request, NEW x, RequestSound(x, heap, rules),
         request' = [request EXCEPT ![q] = x], UNCHANGED <<heap, rules, toggles>>
  PROVE  RulesInv'
<1>1. DOMAIN request' = Request /\ \A o \in Request : RequestSound(request'[o], heap, rules)
  BY DEF RulesInv
<1>2. heap' = heap /\ rules' = rules /\ toggles' = toggles
  OBVIOUS
<1>3. \A o \in Request : RequestSound(request'[o], heap', rules')
  BY <1>1, <1>2
<1> QED
  BY <1>1, <1>2, <1>3 DEF RulesInv

\* The rules change, which no scan sees, and every request takes note of the new best.
LEMMA RulesChange ==
  ASSUME RulesInv, NEW h \in Seq(MockRule), NEW t, Changes(h, t),
         Len(heap) <= Len(h), Len(h) <= MaxRules, toggles' \in 0 .. MaxToggles,
         \A r \in DOMAIN heap : h[r].mode = heap[r].mode,
         TableSound(h, t), DOMAIN rules \subseteq DOMAIN t
  PROVE  RulesInv'
<1>0. /\ heap' = h /\ rules' = t
      /\ \A q \in Request : request[q].pc # "scan"
      /\ request' = [q \in Request |->
           IF request[q].pc \in {"none", "done"} THEN request[q]
           ELSE [request[q] EXCEPT !.force = @ \cup {BestRule(h, t, request[q].path)}]]
  BY DEF Changes, NoReader, Scanning
<1>1. DOMAIN heap \subseteq DOMAIN h /\ Nil \notin DOMAIN h
  <2>1. Len(heap) \in Nat /\ Len(h) \in Nat /\ DOMAIN heap = 1 .. Len(heap) /\ DOMAIN h = 1 .. Len(h)
    BY HeapIs DEF RulesInv
  <2> QED
    BY <2>1, HeapIs
<1>2. ASSUME NEW q \in Request PROVE RequestSound(request'[q], h, t)
  <2> DEFINE x == request[q]
             y == request'[q]
  <2>1. RequestSound(x, heap, rules)
    BY DEF RulesInv
  <2>2. x.pc # "scan"
    BY <1>0
  <2>3. CASE x.pc \in {"none", "done"}
    <3>1. y = x
      BY <1>0, <2>3
    <3>2. x.pc = "done" => AnsweredRight(x, h)
      <4> HAVE x.pc = "done"
      <4>1. AnsweredRight(x, heap) /\ {x.answer} \cup x.force \subseteq {Nil} \cup DOMAIN heap
        BY <2>1 DEF RequestSound
      <4> HIDE DEF x
      <4>2. CASE x.answer # Nil
        BY <1>1, <4>1, <4>2 DEF AnsweredRight
      <4>3. CASE x.answer = Nil
        <5>1. ASSUME NEW r \in DOMAIN h, x.fallback \/ h[r].mode = Always, x.force = {r} PROVE FALSE
          <6>1. r \in DOMAIN heap
            BY <1>1, <4>1, <5>1
          <6> QED
            BY <4>1, <4>3, <5>1, <6>1 DEF AnsweredRight
        <5> QED
          BY <4>3, <5>1 DEF AnsweredRight
      <4> QED
        BY <4>2, <4>3
    <3>3. /\ DOMAIN x = RequestFields /\ x.path \in Seq(STRING) /\ x.todo \subseteq DOMAIN t
          /\ {x.best, x.answer} \cup x.force \subseteq {Nil} \cup DOMAIN h
          /\ x.pc = "none" => x.best = Nil
          /\ x.pc # "done" => x.answer = Nil
      BY <1>1, <2>1 DEF RequestSound
    <3> HIDE DEF x, y
    <3>4. RequestSound(x, h, t)
      BY <2>3, <3>2, <3>3 DEF RequestSound
    <3> QED
      BY <3>1, <3>4 DEF y
  <2>4. CASE x.pc = "decide"
    <3> DEFINE b == BestRule(h, t, x.path)
    <3>1. y = [x EXCEPT !.force = x.force \cup {b}]
      BY <1>0, <2>4
    <3>2. b \in {Nil} \cup DOMAIN h
      <4>1. Found(h, t, x.path, DOMAIN t, b)
        BY <2>1, BestRuleIs DEF RequestSound
      <4> QED
        BY <4>1 DEF Found, TableSound
    <3>3. DOMAIN x = RequestFields
      BY <2>1 DEF RequestSound
    <3> HIDE DEF x, y
    <3>4. /\ DOMAIN y = RequestFields /\ y.pc = x.pc /\ y.path = x.path /\ y.todo = x.todo
          /\ y.best = x.best /\ y.answer = x.answer /\ y.force = x.force \cup {b}
      BY <3>1, <3>3 DEF RequestFields
    <3>5. b = BestRule(h, t, y.path)
      BY <3>4
    <3> HIDE DEF b
    <3>6. /\ x.path \in Seq(STRING) /\ x.todo \subseteq DOMAIN t
          /\ {x.best, x.answer} \cup x.force \subseteq {Nil} \cup DOMAIN h
          /\ x.answer = Nil /\ x.best \in x.force /\ x.best # Nil
      BY <1>1, <2>1, <2>4 DEF RequestSound
    <3>7. /\ y.path \in Seq(STRING) /\ y.todo \subseteq DOMAIN t
          /\ {y.best, y.answer} \cup y.force \subseteq {Nil} \cup DOMAIN h
          /\ y.answer = Nil /\ y.best \in y.force /\ y.best # Nil
          /\ b \in y.force
      BY <3>2, <3>4, <3>6
    <3>8. RequestSound(y, h, t)
      BY <2>4, <3>4, <3>5, <3>7 DEF RequestSound
    <3> QED
      BY <3>8 DEF y
  <2>5. x.pc \in {"none", "decide", "done"}
    BY <2>1, <2>2 DEF RequestSound
  <2> QED
    BY <2>3, <2>4, <2>5
<1>3. DOMAIN request' = Request
  BY <1>0
<1> QED
  BY <1>0, <1>2, <1>3 DEF RulesInv

\* SetRule, and ToggleRule of a rule that is not there.
LEMMA NewRuleKeeps ==
  ASSUME MockAssumption, RulesInv, NEW raw \in RawPaths, NEW enabled \in BOOLEAN,
         NEW mode \in {Always, OnError}, NewRule(raw, enabled, mode)
  PROVE  RulesInv'
<1> DEFINE c == Clean(raw)
           new == [prefix |-> c, enabled |-> enabled, mode |-> mode]
           h == Append(heap, new)
           t == [p \in DOMAIN rules \cup {c} |-> IF p = c THEN Len(heap) + 1 ELSE rules[p]]
<1>1. c \in Seq(STRING) /\ IsClean(c)
  BY Cleaned DEF MockAssumption
<1>2. Len(heap) < MaxRules /\ toggles' = toggles /\ Changes(h, t)
  BY DEF NewRule
<1> HIDE DEF c
<1>3. new \in MockRule /\ new.prefix = c
  BY <1>1 DEF MockRule
<1> HIDE DEF new
<1>4. heap \in Seq(MockRule) /\ Len(heap) \in Nat /\ MaxRules \in Nat /\ DOMAIN heap = 1 .. Len(heap)
  BY HeapIs DEF RulesInv, MockAssumption
<1>5. /\ h \in Seq(MockRule) /\ Len(h) = Len(heap) + 1
      /\ \A i \in 1 .. Len(heap) : h[i] = heap[i]
      /\ h[Len(heap) + 1] = new
  BY <1>3, <1>4, AppendProperties
<1> HIDE DEF h
<1>6. DOMAIN h = 1 .. Len(heap) + 1
  BY <1>5, HeapIs
<1>7. DOMAIN t = DOMAIN rules \cup {c}
  OBVIOUS
<1>8. ASSUME NEW p \in DOMAIN t
      PROVE  /\ t[p] \in DOMAIN h /\ h[t[p]].prefix = p
             /\ p \in Seq(STRING) /\ IsClean(p)
  <2>1. CASE p = c
    <3>1. t[p] = Len(heap) + 1
      BY <2>1
    <3> QED
      BY <1>1, <1>3, <1>4, <1>5, <1>6, <2>1, <3>1
  <2>2. CASE p # c
    <3>1. p \in DOMAIN rules /\ t[p] = rules[p]
      BY <2>2
    <3>2. rules[p] \in 1 .. Len(heap) /\ heap[rules[p]].prefix = p /\ p \in Seq(STRING) /\ IsClean(p)
      BY <1>4, <3>1 DEF RulesInv, TableSound
    <3> QED
      BY <1>4, <1>5, <1>6, <3>1, <3>2
  <2> QED
    BY <2>1, <2>2
<1>9. TableSound(h, t)
  BY <1>8 DEF TableSound
<1>10. toggles' \in 0 .. MaxToggles
  BY <1>2 DEF RulesInv
<1>11. DOMAIN rules \subseteq DOMAIN t
  BY <1>7
<1> HIDE DEF t
<1>12. Len(heap) <= Len(h) /\ Len(h) <= MaxRules /\ \A r \in DOMAIN heap : h[r].mode = heap[r].mode
  BY <1>2, <1>4, <1>5
<1> QED
  BY <1>2, <1>5, <1>9, <1>10, <1>11, <1>12, RulesChange

\* The dashboard's calls.
LEMMA DashboardKeeps ==
  ASSUME MockAssumption, RulesInv, SetRule \/ ToggleRule
  PROVE  RulesInv'
<1>1. CASE SetRule
  BY <1>1, NewRuleKeeps DEF SetRule
<1>2. CASE ToggleRule
  <2>1. PICK raw \in RawPaths, enabled \in BOOLEAN :
          IF Clean(raw) \in DOMAIN rules
          THEN /\ toggles < MaxToggles /\ toggles' = toggles + 1
               /\ Changes([heap EXCEPT ![rules[Clean(raw)]].enabled = enabled], rules)
          ELSE NewRule(raw, enabled, Always)
    BY <1>2 DEF ToggleRule
  <2> DEFINE i == rules[Clean(raw)]
             x == [heap[i] EXCEPT !.enabled = enabled]
             h == [heap EXCEPT ![i] = x]
  <2>2. CASE Clean(raw) \in DOMAIN rules
    <3>1. i \in DOMAIN heap
      BY <2>2 DEF RulesInv, TableSound
    <3>2. toggles < MaxToggles /\ toggles' = toggles + 1 /\ Changes(h, rules)
      BY <2>1, <2>2
    <3> HIDE DEF i
    <3>3. heap[i] \in MockRule /\ heap \in Seq(MockRule) /\ Len(heap) \in Nat /\ DOMAIN heap = 1 .. Len(heap)
      BY <3>1, HeapIs, ElementOfSeq DEF RulesInv
    <3>4. x \in MockRule /\ x.prefix = heap[i].prefix /\ x.mode = heap[i].mode
      BY <3>3 DEF MockRule
    <3> HIDE DEF x
    <3>5. /\ h \in Seq(MockRule) /\ Len(h) = Len(heap) /\ DOMAIN h = DOMAIN heap
          /\ h[i] = x /\ \A r \in DOMAIN heap \ {i} : h[r] = heap[r]
      BY <3>1, <3>3, <3>4, ExceptSeq
    <3>6. \A r \in DOMAIN heap : h[r].prefix = heap[r].prefix /\ h[r].mode = heap[r].mode
      BY <3>4, <3>5
    <3> HIDE DEF h
    <3>7. TableSound(h, rules)
      BY <3>5, <3>6 DEF RulesInv, TableSound
    <3>8. toggles' \in 0 .. MaxToggles
      BY <3>2 DEF RulesInv, MockAssumption
    <3>9. Len(heap) <= Len(h) /\ Len(h) <= MaxRules
      BY <3>3, <3>5 DEF RulesInv
    <3> QED
      BY <3>2, <3>5, <3>6, <3>7, <3>8, <3>9, RulesChange
  <2>3. CASE Clean(raw) \notin DOMAIN rules
    <3>1. NewRule(raw, enabled, Always)
      BY <2>1, <2>3
    <3> QED
      BY <3>1, NewRuleKeeps
  <2> QED
    BY <2>2, <2>3
<1> QED
  BY <1>1, <1>2

\* A request takes the read lock.
LEMMA BeginsKeeps ==
  ASSUME MockAssumption, RulesInv, NEW q \in Request, BeginsGetRule(q)
  PROVE  RulesInv'
<1>1. PICK raw \in RawPaths, fallback \in BOOLEAN :
        Becomes(q, [request[q] EXCEPT
          !.pc = "scan", !.path = Clean(raw), !.fallback = fallback, !.todo = DOMAIN rules,
          !.force = {BestRule(heap, rules, Clean(raw))}])
  BY DEF BeginsGetRule
<1> DEFINE c == Clean(raw)
           b == BestRule(heap, rules, c)
           x == [request[q] EXCEPT !.pc = "scan", !.path = c, !.fallback = fallback,
                                   !.todo = DOMAIN rules, !.force = {b}]
<1>2. request' = [request EXCEPT ![q] = x] /\ UNCHANGED <<heap, rules, toggles>>
  BY <1>1 DEF Becomes
<1>3. c \in Seq(STRING)
  BY Cleaned DEF MockAssumption
<1> HIDE DEF c
<1>4. request[q].pc = "none" /\ RequestSound(request[q], heap, rules)
  BY DEF RulesInv, BeginsGetRule
<1>5. DOMAIN request[q] = RequestFields /\ request[q].best = Nil /\ request[q].answer = Nil
  BY <1>4 DEF RequestSound
<1>6. b \in {Nil} \cup DOMAIN heap
  <2>1. Found(heap, rules, c, DOMAIN rules, b)
    BY <1>3, BestRuleIs DEF RulesInv
  <2> QED
    BY <2>1 DEF Found, RulesInv, TableSound
<1>7. /\ DOMAIN x = RequestFields /\ x.pc = "scan" /\ x.path = c /\ x.todo = DOMAIN rules
      /\ x.best = Nil /\ x.answer = Nil /\ x.force = {b}
  BY <1>5 DEF RequestFields
<1>8. b = BestRule(heap, rules, x.path)
  BY <1>7
<1> HIDE DEF x, b
<1>9. Found(heap, rules, x.path, DOMAIN rules \ x.todo, x.best)
  BY <1>7 DEF Found
<1>10. RequestSound(x, heap, rules)
  BY <1>3, <1>6, <1>7, <1>8, <1>9 DEF RequestSound
<1> QED
  BY <1>2, <1>10, RequestGoesOn

\* A round of the loop.
LEMMA VisitsKeeps ==
  ASSUME RulesInv, NEW q \in Request, NEW p \in DOMAIN rules, Visits(q, p)
  PROVE  RulesInv'
<1> DEFINE old == request[q]
           c == IF heap[rules[p]].enabled /\ Covers(old.path, p)
                   /\ Longer(rules[p], old.best)
                THEN rules[p] ELSE old.best
           x == [old EXCEPT !.todo = old.todo \ {p}, !.best = c]
<1>1. /\ old.pc = "scan" /\ p \in old.todo
      /\ request' = [request EXCEPT ![q] = x] /\ UNCHANGED <<heap, rules, toggles>>
  BY DEF Visits, Becomes
<1>2. RequestSound(old, heap, rules) /\ heap \in Seq(MockRule) /\ TableSound(heap, rules)
  BY DEF RulesInv
<1>3. c = IF InForce(heap, rules, old.path, p)
             /\ (old.best = Nil \/ Len(heap[rules[p]].prefix) > Len(heap[old.best].prefix))
          THEN rules[p] ELSE old.best
  BY DEF InForce, Longer
<1> HIDE DEF old, c
<1>4. /\ DOMAIN old = RequestFields /\ old.path \in Seq(STRING) /\ old.todo \subseteq DOMAIN rules
      /\ {old.best, old.answer} \cup old.force \subseteq {Nil} \cup DOMAIN heap
      /\ old.answer = Nil
      /\ BestRule(heap, rules, old.path) \in old.force
      /\ Found(heap, rules, old.path, DOMAIN rules \ old.todo, old.best)
  BY <1>1, <1>2 DEF RequestSound
<1>5. 0 \notin DOMAIN heap
  BY <1>2, HeapIs DEF Nil
<1>6. Found(heap, rules, old.path, (DOMAIN rules \ old.todo) \cup {p}, c)
  BY <1>2, <1>3, <1>4, <1>5, FoundNext
<1>7. /\ DOMAIN x = RequestFields /\ x.pc = "scan" /\ x.path = old.path /\ x.todo = old.todo \ {p}
      /\ x.best = c /\ x.answer = old.answer /\ x.force = old.force
  BY <1>1, <1>4 DEF RequestFields
<1> HIDE DEF x
<1>8. DOMAIN rules \ x.todo = (DOMAIN rules \ old.todo) \cup {p}
  BY <1>1, <1>4, <1>7
<1>9. c \in {Nil} \cup DOMAIN heap
  BY <1>2, <1>3, <1>4 DEF TableSound
<1>10. Found(heap, rules, x.path, DOMAIN rules \ x.todo, x.best)
  BY <1>6, <1>7, <1>8
<1>11. BestRule(heap, rules, x.path) \in x.force
  BY <1>4, <1>7
<1>12. RequestSound(x, heap, rules)
  BY <1>4, <1>7, <1>9, <1>10, <1>11 DEF RequestSound
<1> QED
  BY <1>1, <1>12, RequestGoesOn

\* The scan is over: what it found is the rule in force.
LEMMA ReturnsKeeps ==
  ASSUME RulesInv, NEW q \in Request, ReturnsRule(q)
  PROVE  RulesInv'
<1> DEFINE old == request[q]
           pc == IF old.best = Nil THEN "done" ELSE "decide"
           x == [old EXCEPT !.pc = pc]
<1>1. /\ old.pc = "scan" /\ old.todo = {}
      /\ request' = [request EXCEPT ![q] = x] /\ UNCHANGED <<heap, rules, toggles>>
  BY DEF ReturnsRule, Becomes
<1>2. RequestSound(old, heap, rules) /\ heap \in Seq(MockRule) /\ TableSound(heap, rules)
  BY DEF RulesInv
<1>3. pc \in {"done", "decide"} /\ (pc = "done" <=> old.best = Nil)
  OBVIOUS
<1> HIDE DEF old, pc
<1>4. /\ DOMAIN old = RequestFields /\ old.path \in Seq(STRING) /\ old.todo \subseteq DOMAIN rules
      /\ {old.best, old.answer} \cup old.force \subseteq {Nil} \cup DOMAIN heap
      /\ old.answer = Nil
      /\ BestRule(heap, rules, old.path) \in old.force
      /\ Found(heap, rules, old.path, DOMAIN rules \ old.todo, old.best)
  BY <1>1, <1>2 DEF RequestSound
<1>5. old.best = BestRule(heap, rules, old.path)
  <2>1. Found(heap, rules, old.path, DOMAIN rules, old.best)
    BY <1>1, <1>4
  <2>2. Found(heap, rules, old.path, DOMAIN rules, BestRule(heap, rules, old.path))
    BY <1>2, <1>4, BestRuleIs
  <2> QED
    BY <1>2, <1>4, <2>1, <2>2, FoundOnce
<1>6. /\ DOMAIN x = RequestFields /\ x.pc = pc /\ x.path = old.path /\ x.todo = old.todo
      /\ x.best = old.best /\ x.answer = old.answer /\ x.force = old.force
  BY <1>4 DEF RequestFields
<1> HIDE DEF x
<1>7. x.best \in x.force
  BY <1>4, <1>5, <1>6
<1>8. x.pc = "done" => AnsweredRight(x, heap)
  <2>1. x.pc = "done" => Nil \in x.force
    BY <1>3, <1>6, <1>7
  <2>2. Nil \notin DOMAIN heap
    BY <1>2, HeapIs
  <2>3. x.answer = Nil
    BY <1>4, <1>6
  <2> QED
    BY <2>1, <2>2, <2>3 DEF AnsweredRight
<1>9. BestRule(heap, rules, x.path) \in x.force
  BY <1>4, <1>6
<1>10. RequestSound(x, heap, rules)
  BY <1>3, <1>4, <1>6, <1>7, <1>8, <1>9 DEF RequestSound
<1> QED
  BY <1>1, <1>10, RequestGoesOn

\* The rule is read without the lock, and may have been switched off since.
LEMMA DecidesKeeps ==
  ASSUME RulesInv, NEW q \in Request, Decides(q)
  PROVE  RulesInv'
<1> DEFINE old == request[q]
           a == IF heap[old.best].enabled /\ Serves(q, old.best) THEN old.best ELSE Nil
           x == [old EXCEPT !.pc = "done", !.answer = a]
<1>1. /\ old.pc = "decide"
      /\ request' = [request EXCEPT ![q] = x] /\ UNCHANGED <<heap, rules, toggles>>
  BY DEF Decides, Becomes
<1>2. RequestSound(old, heap, rules) /\ heap \in Seq(MockRule) /\ TableSound(heap, rules)
  BY DEF RulesInv
<1>3. a = IF heap[old.best].enabled /\ (old.fallback \/ heap[old.best].mode = Always)
          THEN old.best ELSE Nil
  BY DEF Serves
<1> HIDE DEF old, a
<1>4. /\ DOMAIN old = RequestFields /\ old.path \in Seq(STRING) /\ old.todo \subseteq DOMAIN rules
      /\ {old.best, old.answer} \cup old.force \subseteq {Nil} \cup DOMAIN heap
      /\ BestRule(heap, rules, old.path) \in old.force
      /\ old.best \in old.force /\ old.best # Nil
  BY <1>1, <1>2 DEF RequestSound
<1>5. /\ DOMAIN x = RequestFields /\ x.pc = "done" /\ x.path = old.path /\ x.todo = old.todo
      /\ x.best = old.best /\ x.answer = a /\ x.force = old.force
  BY <1>4 DEF RequestFields
<1>6. x.fallback <=> old.fallback
  BY <1>4 DEF RequestFields
<1> HIDE DEF x
<1>7. AnsweredRight(x, heap)
  <2>1. CASE a = old.best
    <3>1. heap[a].enabled /\ (old.fallback \/ heap[a].mode = Always)
      BY <1>3, <1>4, <2>1
    <3> QED
      BY <1>4, <1>5, <1>6, <2>1, <3>1 DEF AnsweredRight
  <2>2. CASE a = Nil
    <3>1. ASSUME NEW r \in DOMAIN heap, x.fallback \/ heap[r].mode = Always, x.force = {r}
          PROVE  FALSE
      <4>1. r = old.best /\ r = BestRule(heap, rules, old.path)
        BY <1>4, <1>5, <3>1
      <4>2. ~heap[r].enabled
        BY <1>3, <1>4, <1>6, <2>2, <3>1, <4>1
      <4>3. Found(heap, rules, old.path, DOMAIN rules, r)
        BY <1>2, <1>4, <4>1, BestRuleIs
      <4> QED
        BY <1>4, <4>1, <4>2, <4>3 DEF Found, InForce
    <3> QED
      BY <1>5, <2>2, <3>1 DEF AnsweredRight
  <2> QED
    BY <1>3, <2>1, <2>2
<1>8. {x.best, x.answer} \cup x.force \subseteq {Nil} \cup DOMAIN heap
  BY <1>3, <1>4, <1>5
<1>9. RequestSound(x, heap, rules)
  BY <1>4, <1>5, <1>7, <1>8 DEF RequestSound
<1> QED
  BY <1>1, <1>9, RequestGoesOn

LEMMA RulesBegin ==
  ASSUME MockAssumption, RulesInit
  PROVE  RulesInv
<1>1. heap \in Seq(MockRule) /\ Len(heap) = 0 /\ 0 <= MaxRules
  BY EmptySeq DEF RulesInit, MockAssumption
<1>2. DOMAIN rules = {} /\ toggles \in 0 .. MaxToggles
  BY DEF RulesInit, MockAssumption
<1>3. TableSound(heap, rules)
  BY <1>2 DEF TableSound
<1>4. ASSUME NEW q \in Request PROVE RequestSound(request[q], heap, rules)
  <2> DEFINE x == request[q]
  <2>1. x = [pc |-> "none", path |-> << >>, fallback |-> FALSE, todo |-> {},
             best |-> Nil, answer |-> Nil, force |-> {}]
    BY DEF RulesInit
  <2>2. /\ DOMAIN x = RequestFields /\ x.pc = "none" /\ x.path = << >> /\ x.todo = {}
        /\ x.best = Nil /\ x.answer = Nil /\ x.force = {}
    BY <2>1 DEF RequestFields
  <2>3. << >> \in Seq(STRING)
    OBVIOUS
  <2> HIDE DEF x
  <2>4. RequestSound(x, heap, rules)
    BY <2>2, <2>3 DEF RequestSound
  <2> QED
    BY <2>4 DEF x
<1>5. DOMAIN request = Request
  BY DEF RulesInit
<1> QED
  BY <1>1, <1>2, <1>3, <1>4, <1>5 DEF RulesInv

LEMMA RulesStep ==
  ASSUME MockAssumption, RulesInv, [RulesNext]_ruleVars
  PROVE  RulesInv'
<1>1. CASE SetRule \/ ToggleRule
  BY <1>1, DashboardKeeps
<1>2. ASSUME NEW q \in Request, BeginsGetRule(q) PROVE RulesInv'
  BY <1>2, BeginsKeeps
<1>3. ASSUME NEW q \in Request, ReturnsRule(q) PROVE RulesInv'
  BY <1>3, ReturnsKeeps
<1>4. ASSUME NEW q \in Request, Decides(q) PROVE RulesInv'
  BY <1>4, DecidesKeeps
<1>5. ASSUME NEW q \in Request, NEW p \in DOMAIN rules, Visits(q, p) PROVE RulesInv'
  BY <1>5, VisitsKeeps
<1>6. CASE UNCHANGED ruleVars
  BY <1>6 DEF ruleVars, RulesInv
<1> QED
  BY <1>1, <1>2, <1>3, <1>4, <1>5, <1>6 DEF RulesNext

LEMMA RulesAlways ==
  ASSUME MockAssumption
  PROVE  RulesSpec => []RulesInv
<1>1. RulesInit => RulesInv
  BY RulesBegin
<1>2. RulesInv /\ [RulesNext]_ruleVars => RulesInv'
  BY RulesStep
<1> QED
  BY <1>1, <1>2, PTL DEF RulesSpec

\* The mock manager's map never leads to a rule of another prefix or out of the heap, its
\* prefixes have no slash at either end, and a scan only has prefixes of the map to go.
THEOREM MocksTyped ==
  ASSUME MockAssumption
  PROVE  RulesSpec => []RulesTypeOK
<1>1. RulesInv => RulesTypeOK
  <2> SUFFICES ASSUME RulesInv PROVE RulesTypeOK
    OBVIOUS
  <2>1. /\ heap \in Seq(MockRule) /\ DOMAIN heap = 1 .. Len(heap) /\ Len(heap) \in Nat
        /\ Len(heap) <= MaxRules /\ MaxRules \in Nat
    BY HeapIs DEF RulesInv, MockAssumption
  <2>2. \A r \in DOMAIN heap : heap[r].enabled \in BOOLEAN /\ heap[r].mode \in {Always, OnError}
    <3>1. \A r \in DOMAIN heap : heap[r] \in MockRule
      BY <2>1, ElementOfSeq
    <3> QED
      BY <3>1 DEF MockRule
  <2>3. \A p \in DOMAIN rules :
          /\ rules[p] \in DOMAIN heap /\ heap[rules[p]].prefix = p
          /\ p # << >> => p[1] # "/" /\ p[Len(p)] # "/"
    BY DEF RulesInv, TableSound, IsClean
  <2>4. ASSUME NEW q \in Request
        PROVE  /\ request[q].pc \in {"none", "scan", "decide", "done"}
               /\ {request[q].best, request[q].answer} \subseteq {Nil} \cup DOMAIN heap
               /\ request[q].todo \subseteq DOMAIN rules
    BY DEF RulesInv, RequestSound
  <2>5. DOMAIN heap \subseteq 1 .. MaxRules
    BY <2>1
  <2>6. toggles \in 0 .. MaxToggles
    BY DEF RulesInv
  <2> QED
    BY <2>2, <2>3, <2>4, <2>5, <2>6 DEF RulesTypeOK
<1> QED
  BY <1>1, RulesAlways, PTL

\* While rules are set and toggled under it, a request is mocked by a rule that was the
\* longest enabled one for its path at some moment since it asked, and is passed on only
\* if at some moment no such rule could answer it.
THEOREM AnsweredInForce ==
  ASSUME MockAssumption
  PROVE  RulesSpec => []MockedByTheRuleInForce
<1>1. RulesInv => MockedByTheRuleInForce
  <2> SUFFICES ASSUME RulesInv, NEW q \in Request, request[q].pc = "done"
               PROVE  IF request[q].answer # Nil
                      THEN request[q].answer \in request[q].force /\ Serves(q, request[q].answer)
                      ELSE \A r \in DOMAIN heap : Serves(q, r) => request[q].force # {r}
    BY DEF MockedByTheRuleInForce
  <2>1. AnsweredRight(request[q], heap)
    BY DEF RulesInv, RequestSound
  <2> QED
    BY <2>1 DEF AnsweredRight, Serves
<1> QED
  BY <1>1, RulesAlways, PTL
=================================================================================

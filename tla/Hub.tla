---------------------------------- MODULE Hub ----------------------------------
(***************************************************************************)
(* internal/app/app.go: the telemetry pipeline.  A request goroutine        *)
(* pushes its trace event into the ring buffer and offers it to EventChan;  *)
(* the telemetry worker moves it to the hub's broadcast channel; the hub's  *)
(* run loop offers it to the send channel of every registered dashboard     *)
(* client; a writer goroutine per client writes it to the WebSocket.  A     *)
(* connecting client registers and is then sent the ring's history.         *)
(*                                                                          *)
(* Steps: a channel operation, a locked section, an exchange with the       *)
(* network.  One broadcast is one step: the run loop holds the read lock,   *)
(* tries each client once and never waits, and no client's channel depends  *)
(* on another's.  The ring is TraceLog, which RingBuffer implements.        *)
(*                                                                          *)
(* Abstracted: an event is its number, a connection is open or closed and   *)
(* its browser there or gone (a stalled browser counts as gone once the     *)
(* network gives up).  Health and log messages, which enter hub.broadcast   *)
(* beside the events, are left out.  EmitsCountFirst, DropUncounted,        *)
(* NeverFull, WaitsForRoom, KeptClients and WaitsForHub are mutants of the  *)
(* definition after them.                                                   *)
(***************************************************************************)
EXTENDS Integers, Sequences, FiniteSets

CONSTANTS
  Emitter,       \* request goroutines
  Client,        \* dashboard connections
  NoClient,
  Policy,        \* tracing.overflow_policy: "drop" or "block"
  MaxEvents,     \* bound: events of a behaviour
  RingSize,      \* capacity of the ring buffer
  EventCap,      \* capacity of EventChan (4096)
  BroadcastCap,  \* capacity of hub.broadcast (2048)
  SendCap        \* capacity of a client's send channel (256)

ASSUME HubAssumption ==
  /\ NoClient \notin Client /\ IsFiniteSet(Emitter)
  /\ Policy \in {"drop", "block"}
  /\ MaxEvents \in Nat
  /\ {RingSize, EventCap, BroadcastCap, SendCap} \subseteq Nat \ {0}

VARIABLES
  ring,       \* the ring buffer, newest first
  emitter,    \* the request goroutines: where each is, its event
  eventChan,  \* app.EventChan
  total, dropped,  \* app.EventsTotal, app.EventsDropped
  worker,     \* the telemetry worker: where it is, its event
  broadcast,  \* hub.broadcast
  clients,    \* the keys of hub.clients
  closed,     \* hub.closed
  run,        \* the hub's run loop: where it is, the client it adds
  main,       \* the main goroutine: running, cancelled, closing or closed
  conn,       \* the connections and their two goroutines
  events,     \* history: how many events were begun
  taken,      \* history: how many events the worker took
  aired       \* history: the events the run loop offered to its clients

feedVars == <<emitter, eventChan, total, dropped, worker, events, taken>>
hubVars == <<clients, closed, run, main>>
vars == <<feedVars, ring, broadcast, hubVars, conn, aired>>

Trace == INSTANCE TraceLog WITH
  Capacity <- RingSize, Event <- 1 .. MaxEvents, log <- ring

\* A connection that nobody has opened yet.
Unborn ==
  [pc |-> "none",      \* the /ws handler
   writer |-> "none",  \* the goroutine that writes
   up |-> FALSE,       \* the server's end is open
   browser |-> TRUE,   \* the browser's end is
   open |-> TRUE,      \* the send channel is not closed
   send |-> << >>,     \* what it holds
   todo |-> << >>,     \* history still to be sent
   due |-> {}]         \* history: what the client was offered or cannot expect

Init ==
  /\ ring = << >>
  /\ emitter = [e \in Emitter |-> [pc |-> "idle", ev |-> 0]]
  /\ eventChan = << >>
  /\ total = 0 /\ dropped = 0
  /\ worker = [pc |-> "take", ev |-> 0]
  /\ broadcast = << >>
  /\ clients = {}
  /\ closed = FALSE
  /\ run = [pc |-> "select", adding |-> NoClient]
  /\ main = "running"
  /\ conn = [c \in Client |-> Unborn]
  /\ events = 0 /\ taken = 0 /\ aired = {}

Done == main # "running"  \* the application's context is cancelled
Reverse(s) == [i \in 1 .. Len(s) |-> s[Len(s) + 1 - i]]
Elements(s) == {s[i] : i \in 1 .. Len(s)}

-------------------------------------------------------------------------------
(* emitTraceEvent and the broadcaster of app.New. *)

\* Push to the ring, count the event, offer it to the worker.
EmitsCountFirst == [idle |-> "count", count |-> "offer", offer |-> "push", push |-> "idle"]
EmitSteps == [idle |-> "push", push |-> "count", count |-> "offer", offer |-> "idle"]

EmitterAt(e, pc) == emitter[e].pc = pc
EmitterGoesOn(e) ==
  LET next == EmitSteps[emitter[e].pc] IN
  emitter' = [emitter EXCEPT ![e] = [pc |-> next, ev |-> IF next = "idle" THEN 0 ELSE @.ev]]

BeginEvent(e) ==
  /\ EmitterAt(e, "idle")
  /\ events < MaxEvents
  /\ events' = events + 1
  /\ emitter' = [emitter EXCEPT ![e] = [pc |-> EmitSteps["idle"], ev |-> events + 1]]
  /\ UNCHANGED <<eventChan, total, dropped, worker, taken, ring, broadcast,
                 hubVars, conn, aired>>

Push(e) ==
  /\ EmitterAt(e, "push")
  /\ Trace!Record(emitter[e].ev)
  /\ EmitterGoesOn(e)
  /\ UNCHANGED <<eventChan, total, dropped, worker, events, taken, broadcast,
                 hubVars, conn, aired>>

CountEvent(e) ==
  /\ EmitterAt(e, "count")
  /\ total' = total + 1
  /\ EmitterGoesOn(e)
  /\ UNCHANGED <<eventChan, dropped, worker, events, taken, ring, broadcast,
                 hubVars, conn, aired>>

\* select: the channel has room.
Offer(e) ==
  /\ EmitterAt(e, "offer")
  /\ Len(eventChan) < EventCap
  /\ eventChan' = Append(eventChan, emitter[e].ev)
  /\ EmitterGoesOn(e)
  /\ UNCHANGED <<total, dropped, worker, events, taken, ring, broadcast,
                 hubVars, conn, aired>>

\* select: default under "drop", the 100 ms timer under "block".
DropUncounted == dropped
DropCounted == dropped + 1

WaitsForRoom == Policy = "drop"
GivesUp == Policy \in {"drop", "block"}

Drop(e) ==
  /\ EmitterAt(e, "offer")
  /\ Len(eventChan) = EventCap
  /\ GivesUp
  /\ dropped' = DropCounted
  /\ EmitterGoesOn(e)
  /\ UNCHANGED <<eventChan, total, worker, events, taken, ring, broadcast,
                 hubVars, conn, aired>>

-------------------------------------------------------------------------------
(* The telemetry worker of Start. *)

WorkerTake ==
  /\ worker.pc = "take"
  /\ eventChan # << >>
  /\ worker' = [pc |-> "broadcast", ev |-> Head(eventChan)]
  /\ eventChan' = Tail(eventChan)
  /\ taken' = taken + 1
  /\ UNCHANGED <<emitter, total, dropped, events, ring, broadcast, hubVars, conn,
                 aired>>

\* The channel of the hub takes no more.
NeverFull == FALSE
BroadcastFull == Len(broadcast) = BroadcastCap

\* hub.broadcastJSON: nothing once the hub is closed, or when its channel is full.
WorkerBroadcast ==
  /\ worker.pc = "broadcast"
  /\ broadcast' = IF closed \/ BroadcastFull THEN broadcast
                                              ELSE Append(broadcast, worker.ev)
  /\ worker' = [pc |-> "take", ev |-> 0]
  /\ UNCHANGED <<emitter, eventChan, total, dropped, events, taken, ring, hubVars,
                 conn, aired>>

WorkerStop ==
  /\ worker.pc = "take"
  /\ Done
  /\ worker' = [worker EXCEPT !.pc = "gone"]
  /\ UNCHANGED <<emitter, eventChan, total, dropped, events, taken, ring, broadcast,
                 hubVars, conn, aired>>

-------------------------------------------------------------------------------
(* Hub.run and Hub.Close. *)

\* case client := <-h.register: the client is only added when the hub is open.
RunRegister(c) ==
  /\ run.pc = "select"
  /\ conn[c].pc = "register"
  /\ run' = IF closed THEN run ELSE [pc |-> "add", adding |-> c]
  /\ conn' = [conn EXCEPT ![c].pc = "snapshot", ![c].writer = "take"]
  /\ UNCHANGED <<feedVars, ring, broadcast, clients, closed, main, aired>>

RunAdd ==
  /\ run.pc = "add"
  /\ clients' = clients \cup {run.adding}
  /\ run' = [pc |-> "select", adding |-> NoClient]
  /\ UNCHANGED <<feedVars, ring, broadcast, closed, main, conn, aired>>

\* case client := <-h.unregister; the writer then closes its connection.
RunUnregister(c) ==
  /\ run.pc = "select"
  /\ conn[c].writer = "unregister"
  /\ clients' = clients \ {c}
  /\ conn' = [conn EXCEPT ![c].writer = "close", ![c].open = @ /\ c \notin clients]
  /\ UNCHANGED <<feedVars, ring, broadcast, closed, run, main, aired>>

\* case message := <-h.broadcast: offered once to each client, dropped when full.
RunBroadcast ==
  /\ run.pc = "select"
  /\ broadcast # << >>
  /\ broadcast' = Tail(broadcast)
  /\ LET m == Head(broadcast) IN
       IF closed THEN UNCHANGED <<conn, aired>>
       ELSE /\ conn' = [c \in Client |->
                 IF c \notin clients THEN conn[c]
                 ELSE [conn[c] EXCEPT
                         !.send = IF Len(@) < SendCap THEN Append(@, m) ELSE @,
                         !.due = @ \cup {m}]]
            /\ aired' = aired \cup {m}
  /\ UNCHANGED <<feedVars, ring, hubVars>>

\* Close: only the first caller goes on to the locked section.
RunStop ==
  /\ run.pc = "select"
  /\ Done
  /\ run' = [run EXCEPT !.pc = IF closed THEN "gone" ELSE "closing"]
  /\ closed' = TRUE
  /\ UNCHANGED <<feedVars, ring, broadcast, clients, main, conn, aired>>

KeptClients == clients
NoClients == {}

CloseClients ==
  /\ clients' = NoClients
  /\ conn' = [c \in Client |-> [conn[c] EXCEPT !.open = @ /\ c \notin clients]]
  /\ UNCHANGED <<feedVars, ring, broadcast, closed, aired>>

RunClose ==
  /\ run.pc = "closing"
  /\ run' = [run EXCEPT !.pc = "gone"]
  /\ CloseClients
  /\ UNCHANGED main

-------------------------------------------------------------------------------
(* cmd/main.go: cancel(), then Shutdown, which closes the hub too. *)

Cancel ==
  /\ main = "running"
  /\ main' = "cancelled"
  /\ UNCHANGED <<feedVars, ring, broadcast, clients, closed, run, conn, aired>>

Shutdown ==
  /\ main = "cancelled"
  /\ main' = IF closed THEN "closed" ELSE "closing"
  /\ closed' = TRUE
  /\ UNCHANGED <<feedVars, ring, broadcast, clients, run, conn, aired>>

ShutdownClose ==
  /\ main = "closing"
  /\ main' = "closed"
  /\ CloseClients
  /\ UNCHANGED run

-------------------------------------------------------------------------------
(* The /ws handler and the writer of a client. *)

Steps(c, r) ==
  /\ conn' = [conn EXCEPT ![c] = r]
  /\ UNCHANGED <<feedVars, ring, broadcast, hubVars, aired>>

\* The upgrade succeeds; the dashboard server takes no connection after Shutdown.
Upgrade(c) ==
  /\ conn[c].pc = "none"
  /\ main \in {"running", "cancelled"}
  /\ Steps(c, [conn[c] EXCEPT !.pc = "check", !.up = TRUE])

\* A closed hub refuses the client, else the handler waits for the run loop.
CheckClosed(c) ==
  /\ conn[c].pc = "check"
  /\ Steps(c, IF closed THEN [conn[c] EXCEPT !.pc = "gone", !.up = FALSE]
                        ELSE [conn[c] EXCEPT !.pc = "register"])

\* a.Ring.GetAll(), sent oldest first.  What the ring has overwritten, or is still
\* to be pushed and aired, is not expected from the history.
Pushed == {n \in 1 .. events :
            \A e \in Emitter : emitter[e].ev = n => emitter[e].pc # "push"}

Snapshot(c) ==
  /\ conn[c].pc = "snapshot"
  /\ Steps(c, [conn[c] EXCEPT !.pc = "history", !.todo = Reverse(ring),
                              !.due = @ \cup (Pushed \ Elements(ring))])

\* A send on a closed channel panics; net/http recovers and the handler is gone.
SendHistory(c) ==
  /\ conn[c].pc = "history"
  /\ conn[c].todo # << >>
  /\ LET m == Head(conn[c].todo) IN
       Steps(c, IF ~conn[c].open THEN [conn[c] EXCEPT !.pc = "panicked", !.todo = << >>]
                ELSE [conn[c] EXCEPT !.todo = Tail(@),
                        !.send = IF Len(@) < SendCap THEN Append(@, m) ELSE @,
                        !.due = @ \cup {m}])

EndHistory(c) ==
  /\ conn[c].pc = "history"
  /\ conn[c].todo = << >>
  /\ Steps(c, [conn[c] EXCEPT !.pc = "read"])

\* ReadMessage fails: the browser has gone or the writer closed the connection.
\* The handler returns and leaves the rest to the writer.
ReadFails(c) ==
  /\ conn[c].pc = "read"
  /\ ~conn[c].browser \/ ~conn[c].up
  /\ Steps(c, [conn[c] EXCEPT !.pc = "gone"])

\* for message := range client.send: a closed channel is drained first.
WriterTake(c) ==
  /\ conn[c].writer = "take"
  /\ \/ /\ conn[c].send # << >>
        /\ Steps(c, [conn[c] EXCEPT !.writer = "write", !.send = Tail(@)])
     \/ /\ conn[c].send = << >>
        /\ ~conn[c].open
        /\ Steps(c, [conn[c] EXCEPT !.writer = "leave"])

WriterWrite(c) ==
  /\ conn[c].writer = "write"
  /\ Steps(c, [conn[c] EXCEPT !.writer = IF conn[c].browser THEN "take" ELSE "leave"])

\* The deferred function: unregister from an open hub, then close.
WriterLeave(c) ==
  /\ conn[c].writer = "leave"
  /\ Steps(c, [conn[c] EXCEPT !.writer = IF closed THEN "close" ELSE "unregister"])

\* case <-time.After(100 * time.Millisecond).
WaitsForHub == run.pc = "select"
TimesOut == TRUE

WriterGivesUp(c) ==
  /\ conn[c].writer = "unregister"
  /\ TimesOut
  /\ Steps(c, [conn[c] EXCEPT !.writer = "close"])

WriterClose(c) ==
  /\ conn[c].writer = "close"
  /\ Steps(c, [conn[c] EXCEPT !.writer = "gone", !.up = FALSE, !.send = << >>])

\* Environment: the browser closes its end, or its network fails.
BrowserLeaves(c) ==
  /\ conn[c].pc # "none"
  /\ conn[c].browser
  /\ Steps(c, [conn[c] EXCEPT !.browser = FALSE])

-------------------------------------------------------------------------------
Emit(e) == Push(e) \/ CountEvent(e) \/ Offer(e) \/ Drop(e)
Worker == WorkerTake \/ WorkerBroadcast \/ WorkerStop
Run ==
  \/ RunAdd \/ RunBroadcast \/ RunStop \/ RunClose
  \/ \E c \in Client : RunRegister(c) \/ RunUnregister(c)
Handler(c) == CheckClosed(c) \/ Snapshot(c) \/ SendHistory(c) \/ EndHistory(c) \/ ReadFails(c)
Writer(c) ==
  WriterTake(c) \/ WriterWrite(c) \/ WriterLeave(c) \/ WriterGivesUp(c) \/ WriterClose(c)

Next ==
  \/ \E e \in Emitter : BeginEvent(e) \/ Emit(e)
  \/ Worker
  \/ Run
  \/ \E c \in Client : Upgrade(c) \/ Handler(c) \/ Writer(c) \/ BrowserLeaves(c)
  \/ Cancel \/ Shutdown \/ ShutdownClose

\* Every goroutine that can go on does; requests, browsers and the user need not act.
Fairness ==
  /\ \A e \in Emitter : WF_vars(Emit(e))
  /\ WF_vars(Worker)
  /\ WF_vars(Run)
  /\ \A c \in Client : WF_vars(Handler(c)) /\ WF_vars(Writer(c))
  /\ WF_vars(Shutdown \/ ShutdownClose)

Spec == Init /\ [][Next]_vars /\ Fairness

-------------------------------------------------------------------------------
TypeOK ==
  /\ Len(ring) <= RingSize /\ Elements(ring) \subseteq 1 .. MaxEvents
  /\ emitter \in [Emitter -> [pc : DOMAIN EmitSteps, ev : 0 .. MaxEvents]]
  /\ Len(eventChan) <= EventCap /\ Elements(eventChan) \subseteq 1 .. MaxEvents
  /\ {total, dropped, events, taken} \subseteq 0 .. MaxEvents
  /\ worker \in [pc : {"take", "broadcast", "gone"}, ev : 0 .. MaxEvents]
  /\ Len(broadcast) <= BroadcastCap /\ Elements(broadcast) \subseteq 1 .. MaxEvents
  /\ clients \subseteq Client
  /\ closed \in BOOLEAN
  /\ run \in [pc : {"select", "add", "closing", "gone"}, adding : Client \cup {NoClient}]
  /\ main \in {"running", "cancelled", "closing", "closed"}
  /\ \A c \in Client :
       /\ conn[c].pc \in {"none", "check", "register", "snapshot", "history", "read", "gone",
                          "panicked"}
       /\ conn[c].writer \in {"none", "take", "write", "leave", "unregister", "close", "gone"}
       /\ {conn[c].up, conn[c].browser, conn[c].open} \subseteq BOOLEAN
       /\ Len(conn[c].send) <= SendCap
       /\ conn[c].due \subseteq 1 .. MaxEvents

\* There is no gap between the history and the live events of a registered client:
\* once its history is sent, every event that the run loop aired was in the history,
\* offered to it live, or no longer in the ring when it connected, at whatever point of
\* an event's way it connected.  (What a full hub.broadcast drops is not aired, and
\* what finds the client's channel full was offered; an event may come twice, and
\* before older ones.)
NoSilentGap ==
  \A c \in clients : conn[c].pc = "read" => aired \subseteq conn[c].due

\* /api/telemetry/stats: every event counted is dropped, queued, taken, or still
\* in the hands of the request that counted it.
StatsAddUp ==
  total = dropped + taken + Len(eventChan)
            + Cardinality({e \in Emitter : emitter[e].pc = "offer"})

\* The run loop never sends on a closed channel nor closes one twice, although Close
\* may run in another goroutine at any moment: a client in the table is open.
RegisteredIsOpen == \A c \in clients : conn[c].open

\* invariants_test.go:108 P3, without its measure of time: a request is never held up
\* by its telemetry for good, whatever the worker, the hub and the clients do.  The
\* block policy may hold it up for the 100 ms of app.go:190.
EmitterNeverStuck == \A e \in Emitter : (emitter[e].pc # "idle") ~> (emitter[e].pc = "idle")

\* When the hub closes a client's channel its writer ends and closes the connection,
\* also when the run loop it wants to unregister from has ended.
ReleasedIsClosed == \A c \in Client : (~conn[c].open) ~> (~conn[c].up)

\* app.go:366: after Shutdown every dashboard connection is closed.
ShutdownClosesConnections ==
  \A c \in Client : (main = "closed") ~> (~conn[c].up)
===============================================================================

--------------------------------- MODULE Tunnel ---------------------------------
(***************************************************************************)
(* pkg/tunnel/client.go: the client that keeps a WebSocket connection to    *)
(* the public relay.  One goroutine dials, reads frames until the           *)
(* connection fails or ends, and dials again; a frame is a request that a   *)
(* goroutine of its own forwards to the local proxy and answers on the      *)
(* connection it came from.  One mutex guards `active` and all writes, those *)
(* to earlier connections included.                                         *)
(*                                                                          *)
(* Steps: a locked section that cannot block, taking the mutex, an exchange *)
(* with the network.  Connections are numbered; a request is named by its   *)
(* connection and by its stream id, which the relay counts from 1 on every  *)
(* connection.                                                              *)
(*                                                                          *)
(* Abstracted: methods, headers and bodies; every outcome of the local      *)
(* proxy, a failure (502) or the timeout of 30 s included, is an answer.    *)
(* The network loses a frame only with its connection.  A paused relay      *)
(* reads no more and the buffers on the way are full, so that a write       *)
(* blocks.  ReturnsOnBadFrame, SkipsAFrame, OnCurrentConnection and         *)
(* KeptOnError are mutants of the definition after them.                    *)
(***************************************************************************)
EXTENDS Integers, Sequences, FiniteSets

CONSTANTS
  MaxConns,   \* bound: connections the relay accepts
  MaxFrames   \* bound: frames it sends on one of them

ASSUME TunnelAssumption == MaxConns \in Nat /\ MaxFrames \in Nat

VARIABLES
  loop,       \* the goroutine of Start: its place and the connection it serves
  cancelled,  \* ctx.Done() is closed
  active,     \* Client.active
  mu,         \* Client.mu: the request whose goroutine holds it while it writes, or Free
  conn,       \* the connections: the client's end, the relay, the frames each way
  task        \* the goroutines that answer a request: where each is

vars == <<loop, cancelled, active, mu, conn, task>>

Conns == 1 .. MaxConns
Streams == 1 .. MaxFrames
Requests == Conns \X Streams
NoConn == 0
Free == <<NoConn, 0>>

\* A text frame that is a request or no JSON; or what ends the connection for the
\* WebSocket library: a close frame or a frame against the protocol.
Frames == {"request", "malformed", "end"}

\* A connection the relay has not accepted yet.
Unborn ==
  [open |-> FALSE,     \* the client has not closed its end
   relay |-> "none",   \* "up", "paused" or "down" for good
   sent |-> << >>,     \* the frames the relay sent; the n-th request has stream id n
   read |-> 0,         \* how many of them the client has read
   answers |-> << >>]  \* the requests whose answers the relay got, in order

Init ==
  /\ loop = [pc |-> "check", conn |-> NoConn]
  /\ cancelled = FALSE
  /\ active = FALSE
  /\ mu = Free
  /\ conn = [k \in Conns |-> Unborn]
  /\ task = [r \in Requests |-> "none"]

Begun == {k \in Conns : conn[k].relay # "none"}

\* The relay has ended connection k; the client of connection c has read so.
EndSent(k) == \E i \in DOMAIN conn[k].sent : conn[k].sent[i] = "end"
Ended(c) == c.read > 0 /\ c.sent[c.read] = "end"

LoopGoes(from, to) ==
  /\ loop.pc = from
  /\ loop' = [loop EXCEPT !.pc = to]

-------------------------------------------------------------------------------
(* Start and connectAndServe. *)

\* select: the context is only looked at here and by the dial.
Check ==
  /\ LoopGoes("check", IF cancelled THEN "gone" ELSE "dial")
  /\ UNCHANGED <<cancelled, active, mu, conn, task>>

\* DialContext: the TCP connection; the handshake after it heeds no cancellation.
Dial ==
  /\ ~cancelled
  /\ LoopGoes("dial", "handshake")
  /\ UNCHANGED <<cancelled, active, mu, conn, task>>

DialFails ==
  /\ loop.pc \in {"dial", "handshake"}
  /\ loop' = [loop EXCEPT !.pc = "sleep"]
  /\ UNCHANGED <<cancelled, active, mu, conn, task>>

Accepted ==
  /\ loop.pc = "handshake"
  /\ \E k \in Conns \ Begun :
       /\ \A i \in Conns \ Begun : k <= i
       /\ conn' = [conn EXCEPT ![k].open = TRUE, ![k].relay = "up"]
       /\ loop' = [pc |-> "activate", conn |-> k]
  /\ UNCHANGED <<cancelled, active, mu, task>>

\* c.mu.Lock(); c.active = true; c.mu.Unlock()
Activate ==
  /\ mu = Free
  /\ LoopGoes("activate", "read")
  /\ active' = TRUE
  /\ UNCHANGED <<cancelled, mu, conn, task>>

\* What a frame that is no JSON leads to: continue.
ReturnsOnBadFrame == "deactivate"
GoesOnReading == "read"

SkipsAFrame(k) == conn[k].read + 2
NextFrame(k) == conn[k].read + 1

\* ReadMessage returns a frame, also one that arrived before the connection failed.
ReadFrame ==
  LET k == loop.conn
      stream == conn[k].read + 1
      good == conn[k].sent[stream] = "request" IN
  /\ loop.pc = "read"
  /\ conn[k].read < Len(conn[k].sent)
  /\ conn[k].sent[stream] # "end"
  /\ conn' = [conn EXCEPT ![k].read = NextFrame(k)]
  /\ task' = IF good THEN [task EXCEPT ![<<k, stream>>] = "forward"] ELSE task
  /\ loop' = [loop EXCEPT !.pc = IF good THEN "read" ELSE GoesOnReading]
  /\ UNCHANGED <<cancelled, active, mu>>

\* ReadMessage fails on a frame that ends the connection, after the library answered
\* it with a close frame of its own.
ReadEnd ==
  LET k == loop.conn IN
  /\ LoopGoes("read", "deactivate")
  /\ conn[k].read < Len(conn[k].sent)
  /\ conn[k].sent[conn[k].read + 1] = "end"
  /\ conn' = [conn EXCEPT ![k].read = @ + 1]
  /\ UNCHANGED <<cancelled, active, mu, task>>

\* It heeds neither the context nor a deadline: else only the network ends it.
ReadError ==
  /\ loop.pc = "read"
  /\ conn[loop.conn].relay = "down"
  /\ LoopGoes("read", "deactivate")
  /\ UNCHANGED <<cancelled, active, mu, conn, task>>

\* The deferred calls, last first: active = false under the mutex, then Close.
Deactivate ==
  /\ mu = Free
  /\ LoopGoes("deactivate", "close")
  /\ active' = FALSE
  /\ UNCHANGED <<cancelled, mu, conn, task>>

Close ==
  /\ loop.pc = "close"
  /\ loop' = [pc |-> "sleep", conn |-> NoConn]
  /\ conn' = [conn EXCEPT ![loop.conn].open = FALSE]
  /\ UNCHANGED <<cancelled, active, mu, task>>

\* time.Sleep(3 * time.Second)
Wake ==
  /\ LoopGoes("sleep", "check")
  /\ UNCHANGED <<cancelled, active, mu, conn, task>>

-------------------------------------------------------------------------------
(* The goroutine of request r: forwardToLocal, then the write under the mutex. *)

Forwarded(r) ==
  /\ task[r] = "forward"
  /\ task' = [task EXCEPT ![r] = "lock"]
  /\ UNCHANGED <<loop, cancelled, active, mu, conn>>

Lock(r) ==
  /\ task[r] = "lock"
  /\ mu = Free
  /\ mu' = r
  /\ task' = [task EXCEPT ![r] = "write"]
  /\ UNCHANGED <<loop, cancelled, active, conn>>

\* The connection the goroutine writes to: the one its closure captured.
OnCurrentConnection(r) == IF loop.conn = NoConn THEN r[1] ELSE loop.conn
OnItsConnection(r) == r[1]

\* Who holds the mutex after a write: the error of the write is ignored.
KeptOnError(r, failed) == IF failed THEN r ELSE Free
Unlocked(r, failed) == Free

\* A write to a closed or lost connection fails, or is lost on the way; after the
\* library's own close frame it fails as well, unless that one was not sent.
Fails(k) == ~conn[k].open \/ conn[k].relay = "down" \/ Ended(conn[k])
Arrives(k) == conn[k].open /\ conn[k].relay = "up"

Write(r) ==
  LET k == OnItsConnection(r) IN
  /\ task[r] = "write"
  /\ \/ Fails(k) /\ conn' = conn /\ mu' = Unlocked(r, TRUE)
     \/ /\ Arrives(k)
        /\ conn' = [conn EXCEPT ![k].answers = Append(@, r)]
        /\ mu' = Unlocked(r, FALSE)
  /\ task' = [task EXCEPT ![r] = "done"]
  /\ UNCHANGED <<loop, cancelled, active>>

-------------------------------------------------------------------------------
(* The relay and the network. *)

RelaySends(k) ==
  /\ conn[k].relay \in {"up", "paused"}
  /\ Len(conn[k].sent) < MaxFrames
  /\ ~EndSent(k)
  /\ \E f \in Frames : conn' = [conn EXCEPT ![k].sent = Append(@, f)]
  /\ UNCHANGED <<loop, cancelled, active, mu, task>>

RelayTurns(k, from, to) ==
  /\ conn[k].relay \in from
  /\ conn' = [conn EXCEPT ![k].relay = to]
  /\ UNCHANGED <<loop, cancelled, active, mu, task>>

RelayPauses(k) == RelayTurns(k, {"up"}, "paused")
RelayResumes(k) == RelayTurns(k, {"paused"}, "up")
RelayFails(k) == RelayTurns(k, {"up", "paused"}, "down")

\* main cancels its context.
Cancel ==
  /\ ~cancelled
  /\ cancelled' = TRUE
  /\ UNCHANGED <<loop, active, mu, conn, task>>

-------------------------------------------------------------------------------
Loop ==
  \/ Check \/ Dial \/ DialFails \/ Accepted \/ Activate
  \/ ReadFrame \/ ReadEnd \/ ReadError \/ Deactivate \/ Close \/ Wake
Answer(r) == Forwarded(r) \/ Lock(r) \/ Write(r)

Next ==
  \/ Loop
  \/ \E r \in Requests : Answer(r)
  \/ \E k \in Conns : RelaySends(k) \/ RelayPauses(k) \/ RelayResumes(k) \/ RelayFails(k)
  \/ Cancel

\* The goroutines of the client go on when they can, and a mutex that is free again
\* and again is had (Go's mutex hands over to the goroutine that waits longest), as is
\* room in a buffer that is read again and again.  A paused relay goes on or fails.
\* Nothing makes a connection fail, or a dial succeed.
Fairness ==
  /\ WF_vars(Loop) /\ SF_vars(Activate \/ Deactivate)
  /\ \A r \in Requests : WF_vars(Forwarded(r)) /\ SF_vars(Lock(r) \/ Write(r))
  /\ \A k \in Conns : WF_vars(conn[k].relay = "paused" /\ (RelayResumes(k) \/ RelayFails(k)))

Spec == Init /\ [][Next]_vars /\ Fairness

-------------------------------------------------------------------------------
TypeOK ==
  /\ loop \in [pc : {"check", "dial", "handshake", "activate", "read", "deactivate",
                     "close", "sleep", "gone"},
               conn : Conns \cup {NoConn}]
  /\ cancelled \in BOOLEAN /\ active \in BOOLEAN
  /\ mu \in Requests \cup {Free}
  /\ \A k \in Conns :
       /\ conn[k].open \in BOOLEAN
       /\ conn[k].relay \in {"none", "up", "paused", "down"}
       /\ conn[k].sent \in Seq(Frames) /\ Len(conn[k].sent) <= MaxFrames
       /\ conn[k].read \in 0 .. Len(conn[k].sent)
       /\ conn[k].answers \in Seq(Requests)
  /\ task \in [Requests -> {"none", "forward", "lock", "write", "done"}]

\* What the relay gets on a connection are answers to the requests it sent on that
\* connection, each once: a slow answer to a request of an earlier connection, whose
\* stream ids the new one uses again, never reaches the new one (client.go:123-131,
\* where the closure keeps its conn).
AnsweredOnItsConnection ==
  \A k \in Conns :
    LET got == conn[k].answers IN
    /\ \A i \in DOMAIN got : /\ got[i][1] = k
                            /\ got[i][2] \in 1 .. conn[k].read
                            /\ conn[k].sent[got[i][2]] = "request"
    /\ \A i, j \in DOMAIN got : got[i] = got[j] => i = j

\* The client holds at most one connection open, the one its loop serves, and gives
\* it up only when the network lost it or the relay ended it as WebSocket does: no
\* message, however malformed, costs the other streams their connection
\* (client.go:97-120).  IsActive tells true only of a connection that is open.
OneConnectionUntilLost ==
  /\ \A k \in Begun :
       IF conn[k].open THEN k = loop.conn ELSE conn[k].relay = "down" \/ Ended(conn[k])
  /\ active => loop.conn \in Begun

\* A connection that is lost or ended is followed by another dial, or by the end of
\* the loop once the context is cancelled, whatever the goroutines that still answer
\* its requests hold.
LossEndsInADial ==
  \A k \in Conns : (loop.conn = k /\ (conn[k].relay = "down" \/ EndSent(k)))
                    ~> loop.pc \in {"dial", "gone"}

\* A request that was read is answered, unless its connection is lost or ended first.
AnsweredOrLost ==
  \A r \in Requests : task[r] = "forward" ~>
    \/ conn[r[1]].relay = "down" \/ EndSent(r[1])
    \/ \E i \in DOMAIN conn[r[1]].answers : conn[r[1]].answers[i] = r

\* Liveness: the one mutex under which answers are written, without a deadline, and
\* for which the end of a connection waits (client.go:102-107, 126-129) stops nothing
\* for good: neither the way from a lost or ended connection to the next dial, nor the
\* answers to the requests of one that lives.  In particular a failed write unlocks it.
TunnelGoesOn == LossEndsInADial /\ AnsweredOrLost
===============================================================================

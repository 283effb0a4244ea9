------------------------------ MODULE TunnelProofs ------------------------------
(***************************************************************************)
(* Theorems about Tunnel, for any number of connections and frames: its     *)
(* state is well typed, one connection is open at a time, and answers go    *)
(* where their requests came from.                                          *)
(***************************************************************************)
EXTENDS Tunnel, SequenceTheorems, TLAPS

Connections ==
  [open : BOOLEAN, relay : {"none", "up", "paused", "down"},
   sent : Seq(Frames), read : Nat, answers : Seq(Requests)]

\* The typing that TypeOK adds to the shape of a connection.
BoundsOK(c) == Len(c.sent) <= MaxFrames /\ c.read \in 0 .. Len(c.sent)

\* TypeOK, with the shape of the records that it says nothing of.
Typed ==
  /\ loop \in [pc : {"check", "dial", "handshake", "activate", "read", "deactivate",
                     "close", "sleep", "gone"},
               conn : Conns \cup {NoConn}]
  /\ cancelled \in BOOLEAN /\ active \in BOOLEAN
  /\ mu \in Requests \cup {Free}
  /\ conn \in [Conns -> Connections]
  /\ \A k \in Conns : BoundsOK(conn[k])
  /\ task \in [Requests -> {"none", "forward", "lock", "write", "done"}]

\* The loop holds a connection from the handshake to its end, and gives up one that is
\* lost or ended.
Serving == {"activate", "read", "deactivate", "close"}
LoopHasConn ==
  /\ loop.pc \in Serving <=> loop.conn # NoConn
  /\ loop.conn # NoConn => conn[loop.conn].open /\ loop.conn \in Begun
  /\ loop.pc \in {"deactivate", "close"} => conn[loop.conn].relay = "down" \/ Ended(conn[loop.conn])
  /\ active => loop.pc \in {"read", "deactivate"}

\* A connection that the loop does not hold has not begun, or is closed and was lost
\* or ended.
OthersAreLost ==
  \A k \in Conns : k # loop.conn =>
    ~conn[k].open /\ (conn[k].relay \in {"none", "down"} \/ Ended(conn[k]))

\* A request at work is one that was read.
TaskWasRead ==
  \A r \in Requests : task[r] # "none" =>
    r[2] \in 1 .. conn[r[1]].read /\ conn[r[1]].sent[r[2]] = "request"

\* An answer the relay got is that of a finished request of the same connection.
AnswersAreDone ==
  \A k \in Conns : \A i \in DOMAIN conn[k].answers :
    conn[k].answers[i][1] = k /\ task[conn[k].answers[i]] = "done"

AnsweredOnce ==
  \A k \in Conns : \A i, j \in DOMAIN conn[k].answers :
    conn[k].answers[i] = conn[k].answers[j] => i = j

Inv == Typed /\ LoopHasConn /\ OthersAreLost /\ TaskWasRead /\ AnswersAreDone /\ AnsweredOnce

-------------------------------------------------------------------------------
LEMMA ConstantsAreNat == MaxConns \in Nat /\ MaxFrames \in Nat
  BY TunnelAssumption

\* No connection, and so no request, has the number of none.
LEMMA NoConnIsNone == NoConn \notin Conns
  BY ConstantsAreNat DEF NoConn, Conns

\* A step that makes a connection a well typed record changes no other.
LEMMA OneConnection ==
  ASSUME Typed, NEW k \in Conns, NEW c \in Connections, BoundsOK(c),
         conn' = [conn EXCEPT ![k] = c]
  PROVE  /\ conn' \in [Conns -> Connections]
         /\ conn'[k] = c /\ \A i \in Conns \ {k} : conn'[i] = conn[i]
         /\ \A i \in Conns : BoundsOK(conn'[i])
  BY DEF Typed, BoundsOK

LEMMA InvInit == Init => Inv
<1> SUFFICES ASSUME Init PROVE Inv
  OBVIOUS
<1>1. Unborn \in Connections /\ BoundsOK(Unborn)
  BY ConstantsAreNat DEF Unborn, Connections, BoundsOK
<1>2. Typed
  BY <1>1 DEF Typed, Init, NoConn
<1>3. \A k \in Conns : conn[k] = Unborn
  BY DEF Init
<1>4. LoopHasConn /\ OthersAreLost
  BY <1>3 DEF Init, LoopHasConn, OthersAreLost, Serving, Unborn
<1>5. TaskWasRead
  BY DEF Init, TaskWasRead
<1>6. AnswersAreDone /\ AnsweredOnce
  BY <1>3 DEF AnswersAreDone, AnsweredOnce, Unborn
<1> QED
  BY <1>2, <1>4, <1>5, <1>6 DEF Inv

\* A step of the loop, or of main, that changes no connection and starts no request.
LEMMA LoopOnly ==
  ASSUME Inv, NEW pc \in {"check", "dial", "handshake", "activate", "read", "deactivate",
                          "close", "sleep", "gone"},
         loop' = [loop EXCEPT !.pc = pc], cancelled' \in BOOLEAN, active' \in BOOLEAN,
         UNCHANGED <<mu, conn, task>>,
         pc \in Serving <=> loop.pc \in Serving,
         pc \in {"deactivate", "close"} => conn[loop.conn].relay = "down" \/ Ended(conn[loop.conn]),
         active' => pc \in {"read", "deactivate"}
  PROVE  Inv'
<1>1. loop'.pc = pc /\ loop'.conn = loop.conn /\ Typed'
  BY DEF Typed, Inv
<1>2. LoopHasConn' /\ OthersAreLost'
  BY <1>1 DEF Inv, LoopHasConn, OthersAreLost, Begun
<1>3. TaskWasRead' /\ AnswersAreDone' /\ AnsweredOnce'
  BY DEF Inv, TaskWasRead, AnswersAreDone, AnsweredOnce
<1> QED
  BY <1>1, <1>2, <1>3 DEF Inv

\* A step that changes one connection which the loop goes on to serve or not as before,
\* and neither reads a frame, nor answers, nor takes back what was sent.
LEMMA ConnOnly ==
  ASSUME Inv, NEW k \in Conns, NEW c \in Connections, BoundsOK(c),
         conn' = [conn EXCEPT ![k] = c],
         UNCHANGED <<loop, cancelled, active, mu, task>>,
         c.open = conn[k].open, c.read = conn[k].read, c.answers = conn[k].answers,
         \A i \in 1 .. conn[k].read : c.sent[i] = conn[k].sent[i],
         c.relay # "none" /\ conn[k].relay # "none",
         conn[k].relay = "down" => c.relay = "down"
  PROVE  Inv'
<1>1. /\ conn' \in [Conns -> Connections]
      /\ conn'[k] = c /\ \A i \in Conns \ {k} : conn'[i] = conn[i]
      /\ \A i \in Conns : BoundsOK(conn'[i])
  BY OneConnection DEF Inv
<1>2. Typed'
  BY <1>1 DEF Typed, Inv, BoundsOK
<1>7. \A i \in Conns : Ended(conn'[i]) <=> Ended(conn[i])
  <2>1. conn[k].read > 0 => conn[k].read \in 1 .. conn[k].read
    BY DEF Typed, Inv, Connections
  <2> QED
    BY <1>1, <2>1 DEF Ended
<1>3. LoopHasConn'
  BY <1>1, <1>7 DEF Typed, Inv, LoopHasConn, Begun
<1>4. OthersAreLost'
  <2>1. c.relay = "none" \/ c.relay = "down" \/ Ended(conn[k]) \/ loop.conn = k
    BY DEF Typed, Inv, OthersAreLost
  <2> QED
    BY <1>1, <1>7, <2>1 DEF Inv, OthersAreLost
<1>5. TaskWasRead'
  BY <1>1, ConstantsAreNat DEF Inv, TaskWasRead, Requests
<1>6. AnswersAreDone' /\ AnsweredOnce'
  BY <1>1 DEF Inv, AnswersAreDone, AnsweredOnce
<1> QED
  BY <1>2, <1>3, <1>4, <1>5, <1>6 DEF Inv

\* A step of the goroutine of a request before its answer.
LEMMA TaskOnly ==
  ASSUME Inv, NEW r \in Requests, NEW to \in {"lock", "write"},
         task[r] \in {"forward", "lock"}, task' = [task EXCEPT ![r] = to],
         mu' \in Requests \cup {Free}, UNCHANGED <<loop, cancelled, active, conn>>
  PROVE  Inv'
<1>1. task'[r] = to /\ \A q \in Requests \ {r} : task'[q] = task[q]
  BY DEF Typed, Inv
<1>2. Typed'
  BY DEF Typed, Inv, BoundsOK
<1>3. LoopHasConn' /\ OthersAreLost'
  BY DEF Inv, LoopHasConn, OthersAreLost, Begun
<1>4. TaskWasRead'
  BY <1>1 DEF Inv, TaskWasRead
<1>5. AnswersAreDone' /\ AnsweredOnce'
  <2>1. \A k \in Conns : \A i \in DOMAIN conn[k].answers : conn[k].answers[i] \in Requests
    BY DEF Typed, Inv, Connections
  <2> QED
    BY <1>1, <2>1 DEF Inv, AnswersAreDone, AnsweredOnce
<1> QED
  BY <1>2, <1>3, <1>4, <1>5 DEF Inv

LEMMA ReadsAFrame == Inv /\ ReadFrame => Inv'
<1> SUFFICES ASSUME Inv, ReadFrame PROVE Inv'
  OBVIOUS
<1> USE ConstantsAreNat
<1> DEFINE k == loop.conn
           stream == conn[k].read + 1
           c == [conn[k] EXCEPT !.read = stream]
<1>1. k \in Conns /\ conn[k] \in Connections /\ BoundsOK(conn[k])
  BY DEF Typed, Inv, ReadFrame, LoopHasConn, Serving
<1>2. stream \in 1 .. Len(conn[k].sent) /\ stream \in Streams /\ <<k, stream>> \in Requests
  BY <1>1 DEF ReadFrame, BoundsOK, Streams, Requests, Connections
<1>3. c \in Connections /\ BoundsOK(c)
  BY <1>1, <1>2 DEF Connections, BoundsOK
<1>4. conn' = [conn EXCEPT ![k] = c]
  BY DEF ReadFrame, NextFrame
<1>5. /\ conn' \in [Conns -> Connections]
      /\ conn'[k] = c /\ \A i \in Conns \ {k} : conn'[i] = conn[i]
      /\ \A i \in Conns : BoundsOK(conn'[i])
  BY <1>1, <1>3, <1>4, OneConnection DEF Inv
<1>6. /\ c.open = conn[k].open /\ c.relay = conn[k].relay /\ c.sent = conn[k].sent
      /\ c.answers = conn[k].answers /\ c.read = stream
  BY <1>1 DEF Connections
<1> HIDE DEF c
<1>7. loop' = loop /\ UNCHANGED <<cancelled, active, mu>>
  BY DEF Typed, Inv, ReadFrame, GoesOnReading
<1>8. /\ task' \in [Requests -> {"none", "forward", "lock", "write", "done"}]
      /\ \A r \in Requests : r # <<k, stream>> => task'[r] = task[r]
      /\ task'[<<k, stream>>] # task[<<k, stream>>] => conn[k].sent[stream] = "request"
  BY <1>2 DEF Typed, Inv, ReadFrame
<1>9. task[<<k, stream>>] = "none"
  BY <1>1, <1>2 DEF Inv, TaskWasRead, BoundsOK
<1>10. Typed'
  BY <1>5, <1>7, <1>8 DEF Typed, Inv, BoundsOK
<1>11. LoopHasConn' /\ OthersAreLost'
  <2>1. loop.pc = "read"
    BY DEF ReadFrame
  <2> QED
    BY <1>1, <1>5, <1>6, <1>7, <2>1 DEF Inv, LoopHasConn, OthersAreLost, Begun
<1>12. TaskWasRead'
  <2> SUFFICES ASSUME NEW r \in Requests, task'[r] # "none"
               PROVE  r[2] \in 1 .. conn'[r[1]].read /\ conn'[r[1]].sent[r[2]] = "request"
    BY DEF TaskWasRead
  <2>1. CASE r = <<k, stream>>
    BY <1>1, <1>2, <1>5, <1>6, <1>8, <1>9, <2>1
  <2>2. CASE r # <<k, stream>>
    <3>1. r[2] \in 1 .. conn[r[1]].read /\ conn[r[1]].sent[r[2]] = "request" /\ r[1] \in Conns
      BY <1>8, <2>2 DEF Inv, TaskWasRead, Requests
    <3>2. conn[r[1]].read \in Nat /\ conn[k].read \in Nat
      BY <1>1, <3>1 DEF Typed, Inv, Connections
    <3>3. conn'[r[1]].sent = conn[r[1]].sent /\ conn'[r[1]].read \in {conn[r[1]].read, conn[r[1]].read + 1}
      <4>1. CASE r[1] = k
        BY <1>5, <1>6, <4>1
      <4>2. CASE r[1] # k
        BY <1>5, <3>1, <4>2
      <4> QED
        BY <4>1, <4>2
    <3> QED
      BY <3>1, <3>2, <3>3
  <2> QED
    BY <2>1, <2>2
<1>13. AnswersAreDone' /\ AnsweredOnce'
  <2>1. \A i \in Conns : conn'[i].answers = conn[i].answers
    BY <1>5, <1>6
  <2>2. \A i \in Conns : \A j \in DOMAIN conn[i].answers :
          conn[i].answers[j] \in Requests /\ conn[i].answers[j] # <<k, stream>>
    <3>1. \A i \in Conns : conn[i].answers \in Seq(Requests)
      BY DEF Typed, Inv, Connections
    <3> QED
      BY <1>9, <3>1 DEF Inv, AnswersAreDone
  <2> QED
    BY <1>8, <2>1, <2>2 DEF Inv, AnswersAreDone, AnsweredOnce
<1> QED
  BY <1>10, <1>11, <1>12, <1>13 DEF Inv

\* A frame that ends the connection is the last one read of it.
LEMMA ReadsTheEnd == Inv /\ ReadEnd => Inv'
<1> SUFFICES ASSUME Inv, ReadEnd PROVE Inv'
  OBVIOUS
<1> DEFINE k == loop.conn
           n == conn[k].read + 1
           c == [conn[k] EXCEPT !.read = n]
<1>1. k \in Conns /\ conn[k] \in Connections /\ BoundsOK(conn[k]) /\ loop.pc = "read"
  BY DEF Typed, Inv, ReadEnd, LoopGoes, LoopHasConn, Serving
<1>2. n \in 1 .. Len(conn[k].sent) /\ conn[k].sent[n] = "end"
  BY <1>1 DEF ReadEnd, BoundsOK, Connections
<1>3. c \in Connections /\ BoundsOK(c)
  BY <1>1, <1>2 DEF Connections, BoundsOK
<1>4. /\ conn' = [conn EXCEPT ![k] = c] /\ loop' = [loop EXCEPT !.pc = "deactivate"]
      /\ UNCHANGED <<cancelled, active, mu, task>>
  BY DEF ReadEnd, LoopGoes
<1>5. /\ conn' \in [Conns -> Connections]
      /\ conn'[k] = c /\ \A i \in Conns \ {k} : conn'[i] = conn[i]
      /\ \A i \in Conns : BoundsOK(conn'[i])
  BY <1>1, <1>3, <1>4, OneConnection DEF Inv
<1>6. /\ c.open = conn[k].open /\ c.relay = conn[k].relay /\ c.sent = conn[k].sent
      /\ c.answers = conn[k].answers /\ c.read = n
  BY <1>1 DEF Connections
<1> HIDE DEF c
<1>7. loop'.pc = "deactivate" /\ loop'.conn = k
  BY <1>4 DEF Typed, Inv
<1>8. Typed'
  BY <1>4, <1>5 DEF Typed, Inv, BoundsOK
<1>9. Ended(conn'[k])
  BY <1>2, <1>5, <1>6 DEF Ended
<1>10. LoopHasConn'
  BY <1>1, <1>4, <1>5, <1>6, <1>7, <1>9 DEF Inv, LoopHasConn, Begun, Serving
<1>11. OthersAreLost'
  BY <1>5, <1>7 DEF Inv, OthersAreLost
<1>12. TaskWasRead'
  <2> SUFFICES ASSUME NEW r \in Requests, task[r] # "none"
               PROVE  r[2] \in 1 .. conn'[r[1]].read /\ conn'[r[1]].sent[r[2]] = "request"
    BY <1>4 DEF TaskWasRead
  <2>1. r[2] \in 1 .. conn[r[1]].read /\ conn[r[1]].sent[r[2]] = "request" /\ r[1] \in Conns
    BY DEF Inv, TaskWasRead, Requests
  <2>2. conn[k].read \in Nat
    BY <1>1 DEF Connections
  <2>3. CASE r[1] = k
    BY <1>5, <1>6, <2>1, <2>2, <2>3
  <2>4. CASE r[1] # k
    BY <1>5, <2>1, <2>4
  <2> QED
    BY <2>3, <2>4
<1>13. AnswersAreDone' /\ AnsweredOnce'
  BY <1>4, <1>5, <1>6 DEF Inv, AnswersAreDone, AnsweredOnce
<1> QED
  BY <1>8, <1>10, <1>11, <1>12, <1>13 DEF Inv

\* An answer is written to the connection of its request.
LEMMA OneAnswerMore ==
  ASSUME Inv, NEW r \in Requests, task[r] = "write", task' = [task EXCEPT ![r] = "done"],
         mu' = Free, UNCHANGED <<loop, cancelled, active>>,
         NEW k \in Conns, k = r[1], NEW c \in Connections, BoundsOK(c),
         conn' = [conn EXCEPT ![k] = c],
         c.answers = Append(conn[k].answers, r), c.open = conn[k].open,
         c.relay = conn[k].relay, c.sent = conn[k].sent, c.read = conn[k].read
  PROVE  Inv'
<1>1. /\ conn' \in [Conns -> Connections]
      /\ conn'[k] = c /\ \A i \in Conns \ {k} : conn'[i] = conn[i]
      /\ \A i \in Conns : BoundsOK(conn'[i])
  BY OneConnection DEF Inv
<1>2. task'[r] = "done" /\ \A q \in Requests \ {r} : task'[q] = task[q]
  BY DEF Typed, Inv
<1>3. Typed'
  BY <1>1 DEF Typed, Inv, BoundsOK
<1>4. LoopHasConn' /\ OthersAreLost'
  BY <1>1 DEF Inv, LoopHasConn, OthersAreLost, Begun, Ended
<1>5. TaskWasRead'
  BY <1>1, <1>2 DEF Inv, TaskWasRead, Requests
<1>6. /\ DOMAIN c.answers = 1 .. Len(conn[k].answers) + 1
      /\ DOMAIN conn[k].answers = 1 .. Len(conn[k].answers) /\ Len(conn[k].answers) \in Nat
      /\ c.answers[Len(conn[k].answers) + 1] = r
      /\ \A i \in 1 .. Len(conn[k].answers) : c.answers[i] = conn[k].answers[i]
  <2>1. conn[k].answers \in Seq(Requests)
    BY DEF Typed, Inv, Connections
  <2> QED
    BY <2>1
<1>7. \A i \in Conns : \A j \in DOMAIN conn[i].answers :
        conn[i].answers[j] \in Requests /\ conn[i].answers[j] # r
  <2>1. \A i \in Conns : conn[i].answers \in Seq(Requests)
    BY DEF Typed, Inv, Connections
  <2> QED
    BY <2>1 DEF Inv, AnswersAreDone
<1>8. \A i \in DOMAIN c.answers :
        \/ i = Len(conn[k].answers) + 1 /\ c.answers[i] = r
        \/ i \in DOMAIN conn[k].answers /\ c.answers[i] = conn[k].answers[i]
  BY <1>6
<1>9. AnswersAreDone'
  BY <1>1, <1>2, <1>7, <1>8 DEF Inv, AnswersAreDone
<1>10. AnsweredOnce'
  <2> SUFFICES ASSUME NEW l \in Conns, NEW i \in DOMAIN conn'[l].answers,
                      NEW j \in DOMAIN conn'[l].answers,
                      conn'[l].answers[i] = conn'[l].answers[j]
               PROVE  i = j
    BY DEF AnsweredOnce
  <2>1. CASE l # k
    BY <1>1, <2>1 DEF Inv, AnsweredOnce
  <2>2. CASE l = k
    <3>1. i \in DOMAIN c.answers /\ j \in DOMAIN c.answers /\ c.answers[i] = c.answers[j]
      BY <1>1, <2>2
    <3>2. \A m, n \in DOMAIN conn[k].answers :
            conn[k].answers[m] = conn[k].answers[n] => m = n
      BY DEF Inv, AnsweredOnce
    <3>3. \A m \in DOMAIN conn[k].answers : conn[k].answers[m] # r
      BY <1>7
    <3> QED
      BY <1>8, <3>1, <3>2, <3>3
  <2> QED
    BY <2>1, <2>2
<1> QED
  BY <1>3, <1>4, <1>5, <1>9, <1>10 DEF Inv

LEMMA WritesAnAnswer == ASSUME Inv, NEW r \in Requests, Write(r) PROVE Inv'
<1> DEFINE k == r[1]
           c == [conn[k] EXCEPT !.answers = Append(@, r)]
<1>1. k \in Conns /\ conn[k] \in Connections /\ BoundsOK(conn[k])
  BY DEF Typed, Inv, Requests
<1>2. /\ task[r] = "write" /\ task' = [task EXCEPT ![r] = "done"]
      /\ mu' = Free /\ UNCHANGED <<loop, cancelled, active>>
  BY DEF Write, Unlocked
<1>3. CASE conn' = conn
  <2>1. conn' = conn
    BY <1>3
  <2>2. task'[r] = "done" /\ \A q \in Requests \ {r} : task'[q] = task[q]
    BY <1>2 DEF Typed, Inv
  <2>3. Typed'
    BY <1>2, <2>1 DEF Typed, Inv, BoundsOK
  <2>4. LoopHasConn' /\ OthersAreLost'
    BY <1>2, <2>1 DEF Inv, LoopHasConn, OthersAreLost, Begun
  <2>5. TaskWasRead'
    BY <1>2, <2>1, <2>2 DEF Inv, TaskWasRead
  <2>6. AnswersAreDone' /\ AnsweredOnce'
    <3>1. \A i \in Conns : \A j \in DOMAIN conn[i].answers : conn[i].answers[j] \in Requests
      BY DEF Typed, Inv, Connections
    <3> QED
      BY <2>1, <2>2, <3>1 DEF Inv, AnswersAreDone, AnsweredOnce
  <2> QED
    BY <2>3, <2>4, <2>5, <2>6 DEF Inv
<1>4. CASE conn' = [conn EXCEPT ![k].answers = Append(@, r)]
  <2>1. conn' = [conn EXCEPT ![k] = c]
    BY <1>4, Zenon
  <2>2. Append(conn[k].answers, r) \in Seq(Requests)
    BY <1>1 DEF Connections
  <2>3. /\ c \in Connections /\ c.answers = Append(conn[k].answers, r)
        /\ c.open = conn[k].open /\ c.relay = conn[k].relay /\ c.sent = conn[k].sent
        /\ c.read = conn[k].read
    BY <1>1, <2>2, Zenon DEF Connections
  <2>4. BoundsOK(c)
    BY <1>1, <2>3 DEF BoundsOK
  <2> QED
    BY <1>1, <1>2, <2>1, <2>3, <2>4, OneAnswerMore
<1> QED
  BY <1>3, <1>4, Zenon DEF Write, OnItsConnection

LEMMA RelayStep ==
  ASSUME Inv, NEW k \in Conns,
         RelaySends(k) \/ RelayPauses(k) \/ RelayResumes(k) \/ RelayFails(k)
  PROVE  Inv'
<1> USE ConstantsAreNat
<1>1. conn[k] \in Connections /\ BoundsOK(conn[k])
  BY DEF Typed, Inv
<1>2. CASE RelaySends(k)
  <2>1. PICK f \in Frames : conn' = [conn EXCEPT ![k].sent = Append(@, f)]
    BY <1>2 DEF RelaySends
  <2> DEFINE c == [conn[k] EXCEPT !.sent = Append(@, f)]
  <2>2. conn' = [conn EXCEPT ![k] = c] /\ UNCHANGED <<loop, cancelled, active, mu, task>>
    BY <1>2, <2>1, Zenon DEF RelaySends
  <2>3. /\ Append(conn[k].sent, f) \in Seq(Frames)
        /\ Len(Append(conn[k].sent, f)) = Len(conn[k].sent) + 1
        /\ \A i \in 1 .. conn[k].read : Append(conn[k].sent, f)[i] = conn[k].sent[i]
    BY <1>1 DEF Connections, BoundsOK
  <2>4. /\ c \in Connections /\ c.sent = Append(conn[k].sent, f)
        /\ c.open = conn[k].open /\ c.relay = conn[k].relay
        /\ c.answers = conn[k].answers /\ c.read = conn[k].read
    BY <1>1, <2>3, Zenon DEF Connections
  <2>5. BoundsOK(c) /\ conn[k].relay \in {"up", "paused"}
    BY <1>1, <1>2, <2>3, <2>4 DEF BoundsOK, Connections, RelaySends
  <2> HIDE DEF c
  <2> QED
    BY <2>2, <2>3, <2>4, <2>5, ConnOnly
<1>3. CASE RelayPauses(k) \/ RelayResumes(k) \/ RelayFails(k)
  <2>1. PICK from \in SUBSET {"up", "paused"}, to \in {"up", "paused", "down"} :
          RelayTurns(k, from, to)
    BY <1>3 DEF RelayPauses, RelayResumes, RelayFails
  <2> DEFINE c == [conn[k] EXCEPT !.relay = to]
  <2>2. /\ conn' = [conn EXCEPT ![k] = c] /\ UNCHANGED <<loop, cancelled, active, mu, task>>
        /\ conn[k].relay \in {"up", "paused"}
    BY <2>1, Zenon DEF RelayTurns
  <2>3. /\ c \in Connections /\ c.sent = conn[k].sent /\ c.open = conn[k].open
        /\ c.relay = to /\ c.answers = conn[k].answers /\ c.read = conn[k].read
    BY <1>1, <2>1, Zenon DEF Connections
  <2>4. BoundsOK(c)
    BY <1>1, <2>3 DEF BoundsOK
  <2> HIDE DEF c
  <2> QED
    BY <2>2, <2>3, <2>4, ConnOnly
<1> QED
  BY <1>2, <1>3

\* A dial that succeeds opens a connection that has not begun.
LEMMA OpensAConnection == Inv /\ Accepted => Inv'
<1> SUFFICES ASSUME Inv, Accepted PROVE Inv'
  OBVIOUS
<1>1. PICK k \in Conns \ Begun :
        /\ conn' = [conn EXCEPT ![k].open = TRUE, ![k].relay = "up"]
        /\ loop' = [pc |-> "activate", conn |-> k]
  BY DEF Accepted
<1> DEFINE c == [conn[k] EXCEPT !.open = TRUE, !.relay = "up"]
<1>2. conn[k] \in Connections /\ BoundsOK(conn[k]) /\ conn[k].relay = "none"
  BY DEF Typed, Inv, Begun
<1>3. /\ c \in Connections /\ c.sent = conn[k].sent /\ c.open = TRUE
      /\ c.relay = "up" /\ c.answers = conn[k].answers /\ c.read = conn[k].read
  BY <1>2, Zenon DEF Connections
<1>4. BoundsOK(c)
  BY <1>2, <1>3 DEF BoundsOK
<1>5. conn' = [conn EXCEPT ![k] = c]
  BY <1>1, <1>2 DEF Typed, Inv, Connections
<1> HIDE DEF c
<1>6. /\ conn' \in [Conns -> Connections]
      /\ conn'[k] = c /\ \A i \in Conns \ {k} : conn'[i] = conn[i]
      /\ \A i \in Conns : BoundsOK(conn'[i])
  BY <1>3, <1>4, <1>5, OneConnection DEF Inv
<1>7. loop.conn = NoConn /\ ~active /\ UNCHANGED <<cancelled, active, mu, task>>
  BY DEF Accepted, Inv, LoopHasConn, Serving
<1>8. Typed'
  BY <1>1, <1>6, <1>7 DEF Typed, Inv, BoundsOK
<1>9. loop'.pc = "activate" /\ loop'.conn = k /\ k # NoConn
  BY <1>1, NoConnIsNone
<1>10. LoopHasConn'
  BY <1>3, <1>6, <1>7, <1>9 DEF LoopHasConn, Serving, Begun
<1>11. OthersAreLost'
  BY <1>6, <1>7, <1>9, NoConnIsNone DEF Inv, OthersAreLost
<1>12. TaskWasRead'
  BY <1>3, <1>6, <1>7 DEF Inv, TaskWasRead, Requests
<1>13. AnswersAreDone' /\ AnsweredOnce'
  BY <1>3, <1>6, <1>7 DEF Inv, AnswersAreDone, AnsweredOnce
<1> QED
  BY <1>8, <1>10, <1>11, <1>12, <1>13 DEF Inv

LEMMA ClosesAConnection == Inv /\ Close => Inv'
<1> SUFFICES ASSUME Inv, Close PROVE Inv'
  OBVIOUS
<1> DEFINE k == loop.conn
           c == [conn[k] EXCEPT !.open = FALSE]
<1>1. /\ k \in Conns /\ conn[k] \in Connections /\ BoundsOK(conn[k])
      /\ conn[k].relay = "down" \/ Ended(conn[k])
      /\ ~active
  BY DEF Typed, Inv, Close, LoopHasConn, Serving
<1>2. /\ c \in Connections /\ c.sent = conn[k].sent /\ c.open = FALSE
      /\ c.relay = conn[k].relay /\ c.answers = conn[k].answers /\ c.read = conn[k].read
  BY <1>1, Zenon DEF Connections
<1>3. BoundsOK(c)
  BY <1>1, <1>2 DEF BoundsOK
<1>4. /\ conn' = [conn EXCEPT ![k] = c] /\ loop' = [pc |-> "sleep", conn |-> NoConn]
      /\ UNCHANGED <<cancelled, active, mu, task>>
  BY Zenon DEF Close
<1> HIDE DEF c
<1>5. /\ conn' \in [Conns -> Connections]
      /\ conn'[k] = c /\ \A i \in Conns \ {k} : conn'[i] = conn[i]
      /\ \A i \in Conns : BoundsOK(conn'[i])
  BY <1>1, <1>2, <1>3, <1>4, OneConnection DEF Inv
<1>6. Typed'
  BY <1>4, <1>5 DEF Typed, Inv, BoundsOK
<1>7. LoopHasConn'
  BY <1>1, <1>4 DEF LoopHasConn, Serving
<1>8. OthersAreLost'
  BY <1>1, <1>2, <1>4, <1>5 DEF Inv, OthersAreLost, Ended
<1>9. TaskWasRead'
  BY <1>2, <1>4, <1>5 DEF Inv, TaskWasRead, Requests
<1>10. AnswersAreDone' /\ AnsweredOnce'
  BY <1>2, <1>4, <1>5 DEF Inv, AnswersAreDone, AnsweredOnce
<1> QED
  BY <1>6, <1>7, <1>8, <1>9, <1>10 DEF Inv

LEMMA InvStep == Inv /\ [Next]_vars => Inv'
<1> SUFFICES ASSUME Inv, [Next]_vars PROVE Inv'
  OBVIOUS
<1>0. cancelled \in BOOLEAN /\ active \in BOOLEAN
  BY DEF Inv, Typed
<1>1. CASE Check \/ Wake
  <2>1. ~active /\ loop.pc \notin Serving /\ UNCHANGED <<cancelled, active, mu, conn, task>>
    BY <1>1 DEF Check, Wake, LoopGoes, Inv, LoopHasConn, Serving
  <2>2. PICK pc \in {"gone", "dial", "check"} : loop' = [loop EXCEPT !.pc = pc]
    BY <1>1 DEF Check, Wake, LoopGoes
  <2>3. pc \notin Serving /\ pc \notin {"deactivate", "close"}
    BY DEF Serving
  <2> QED
    BY <1>0, <2>1, <2>2, <2>3, LoopOnly
<1>2. CASE Dial \/ DialFails
  <2>1. ~active /\ loop.pc \notin Serving /\ UNCHANGED <<cancelled, active, mu, conn, task>>
    BY <1>2 DEF Dial, DialFails, LoopGoes, Inv, LoopHasConn, Serving
  <2>2. PICK pc \in {"handshake", "sleep"} : loop' = [loop EXCEPT !.pc = pc]
    BY <1>2 DEF Dial, DialFails, LoopGoes
  <2>3. pc \notin Serving /\ pc \notin {"deactivate", "close"}
    BY DEF Serving
  <2> QED
    BY <1>0, <2>1, <2>2, <2>3, LoopOnly
<1>3. CASE Accepted
  BY <1>3, OpensAConnection
<1>4. CASE Activate
  BY <1>0, <1>4, LoopOnly DEF Activate, LoopGoes, Serving
<1>5. CASE ReadFrame
  BY <1>5, ReadsAFrame
<1>6. CASE ReadError
  <2>1. active' => "deactivate" \in {"read", "deactivate"}
    OBVIOUS
  <2> QED
    BY <1>0, <1>6, <2>1, LoopOnly DEF ReadError, LoopGoes, Serving
<1>14. CASE ReadEnd
  BY <1>14, ReadsTheEnd
<1>7. CASE Deactivate
  BY <1>0, <1>7, LoopOnly DEF Deactivate, LoopGoes, Serving, Inv, LoopHasConn
<1>8. CASE Close
  BY <1>8, ClosesAConnection
<1>9. ASSUME NEW r \in Requests, Forwarded(r) \/ Lock(r) PROVE Inv'
  <2>1. mu' \in Requests \cup {Free}
    BY <1>9 DEF Forwarded, Lock, Inv, Typed
  <2> QED
    BY <1>9, <2>1, TaskOnly DEF Forwarded, Lock
<1>10. ASSUME NEW r \in Requests, Write(r) PROVE Inv'
  BY <1>10, WritesAnAnswer
<1>11. ASSUME NEW k \in Conns,
              RelaySends(k) \/ RelayPauses(k) \/ RelayResumes(k) \/ RelayFails(k)
       PROVE  Inv'
  BY <1>11, RelayStep
<1>12. CASE Cancel
  <2>1. Typed'
    BY <1>12 DEF Cancel, Inv, Typed, BoundsOK
  <2> QED
    BY <1>12, <2>1 DEF Cancel, Inv, LoopHasConn, OthersAreLost, Begun, TaskWasRead,
       AnswersAreDone, AnsweredOnce
<1>13. CASE UNCHANGED vars
  <2>1. Typed'
    BY <1>13 DEF vars, Inv, Typed, BoundsOK
  <2> QED
    BY <1>13, <2>1 DEF vars, Inv, LoopHasConn, OthersAreLost, Begun, TaskWasRead,
       AnswersAreDone, AnsweredOnce
<1> QED
  BY <1>1, <1>2, <1>3, <1>4, <1>5, <1>6, <1>7, <1>8, <1>9, <1>10, <1>11, <1>12, <1>13, <1>14
  DEF Next, Loop, Answer

LEMMA InvAlways == Spec => []Inv
  BY InvInit, InvStep, PTL DEF Spec

-------------------------------------------------------------------------------
\* The client's state is well typed; in particular it never reads past what the relay
\* sent on a connection (client.go:97-131).
THEOREM TypeCorrect == Spec => []TypeOK
<1>1. Inv => TypeOK
  BY DEF Inv, Typed, TypeOK, BoundsOK, Connections
<1> QED
  BY <1>1, InvAlways, PTL

\* However many connections were lost or ended before it, one connection is open at a
\* time, no malformed message ends it, and IsActive never tells true of a closed one (client.go:60-120).
THEOREM OneConnectionAtATime == Spec => []OneConnectionUntilLost
<1>1. Inv => OneConnectionUntilLost
  <2> SUFFICES ASSUME Inv PROVE OneConnectionUntilLost
    OBVIOUS
  <2>1. \A k \in Begun :
          IF conn[k].open THEN k = loop.conn ELSE conn[k].relay = "down" \/ Ended(conn[k])
    <3> SUFFICES ASSUME NEW k \in Begun
                 PROVE  /\ conn[k].open => k = loop.conn
                        /\ ~conn[k].open => conn[k].relay = "down" \/ Ended(conn[k])
      OBVIOUS
    <3>1. k \in Conns /\ conn[k].relay # "none" /\ NoConn \notin Conns
      BY NoConnIsNone DEF Begun
    <3> QED
      BY <3>1 DEF Inv, OthersAreLost, LoopHasConn
  <2>2. active => loop.conn \in Begun
    BY DEF Inv, LoopHasConn, Serving
  <2> QED
    BY <2>1, <2>2 DEF OneConnectionUntilLost
<1> QED
  BY <1>1, InvAlways, PTL

\* Every answer goes, once, to the connection its request came from, although later
\* connections use the same stream ids (client.go:123-131).
THEOREM AnswersComeBack == Spec => []AnsweredOnItsConnection
<1>1. Inv => AnsweredOnItsConnection
  <2> SUFFICES ASSUME Inv, NEW k \in Conns, NEW i \in DOMAIN conn[k].answers
               PROVE  LET r == conn[k].answers[i] IN
                      /\ r[1] = k /\ r[2] \in 1 .. conn[k].read
                      /\ conn[k].sent[r[2]] = "request"
    BY DEF AnsweredOnItsConnection, Inv, AnsweredOnce
  <2>1. conn[k].answers \in Seq(Requests)
    BY DEF Inv, Typed, Connections
  <2>2. conn[k].answers[i] \in Requests
    BY <2>1
  <2> QED
    BY <2>2 DEF Inv, AnswersAreDone, TaskWasRead
<1> QED
  BY <1>1, InvAlways, PTL
===============================================================================

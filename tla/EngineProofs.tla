------------------------------ MODULE EngineProofs ------------------------------
(***************************************************************************)
(* Theorems about Engine, for any number of concurrent calls, paths,        *)
(* targets and rules: its state is well typed, a call's event tells the     *)
(* answer the client got but for the departures that are named, and only    *)
(* admitted calls count, as what they log.                                  *)
(***************************************************************************)
EXTENDS Engine, TLAPS

Calls == [pc : Places, kind : Kinds, origin : Origins, path : Path,
          route : Target \cup {NoTarget}, dialled : Target \cup {NoTarget},
          broken : BOOLEAN, end : Ends, captured : Statuses,
          answer : Statuses, logged : Statuses, events : 0 .. 1]

SharedTyped ==
  /\ routes \in [Path -> Target \cup {NoTarget}]
  /\ mocks \in [Path \cup {Stripped} -> Rule \cup {NoRule}]
  /\ known \subseteq Target
  /\ streak \in [Target -> 0 .. Threshold]
  /\ open \in [Target -> BOOLEAN]

\* The handler a call is in fits its kind.
Proxied == {"breaker", "fallback", "rewrite", "trip", "copy", "failed", "hijacked", "report"}
InItsHandler(c) ==
  /\ c.pc \in {"mock", "match"} => c.kind \in {"http", "ws"}
  /\ c.pc \in Proxied => c.kind = "http"
  /\ c.pc \in {"wsdial", "wsask"} => c.kind = "ws"
  /\ c.pc = "forward" => c.kind = "forward"
  /\ c.pc = "dial" => c.kind = "connect"
  /\ c.pc = "pipe" => c.kind \in {"http", "ws", "connect"}

\* The departures of a reverse-proxied call: what was captured and what the client got.
Departs(c) ==
  /\ c.kind = "http"
  /\ \/ c.captured = "1xx" /\ c.answer \in {"ok", "101"}
     \/ c.captured = "none" /\ c.answer = "101"
     \/ c.answer = "none"

\* Until a call returns, what was captured is what the client got, but for these
\* departures; the event is only written at the very end.
Agrees(c) ==
  /\ c.events = 0
  /\ c.captured = c.answer \/ Departs(c)
  /\ c.pc \in {"mock", "match", "breaker", "rewrite", "trip"} => c.captured \in {"none", "1xx"}
  /\ c.pc \in {"pipe", "emit"} /\ c.kind # "http" => c.captured # "none"

TellsTheAnswer(c) ==
  /\ c.pc \notin {"done", "aborted"} => Agrees(c)
  /\ c.pc = "done" /\ c.events = 1 =>
       \/ c.logged = c.answer
       \/ /\ c.kind = "http"
          /\ \/ c.logged = "1xx" /\ c.answer \in {"ok", "101"}
             \/ c.logged = "ok" /\ c.answer = "101"
             \/ c.answer = "none"
  /\ c.pc = "done" /\ c.events = 0 =>
       \/ c.kind = "forward" /\ BadURLs
       \/ c.kind \in {"ws", "connect"} /\ c.answer \in {"5xx", "none"}
  /\ c.pc = "aborted" => c.kind = "http" /\ c.events = 0

\* A call that goes to the upstream found its breaker closed, if it is enforced.
Admitted(c) ==
  /\ \/ c.pc \in {"rewrite", "trip", "copy", "failed", "hijacked", "report"}
     \/ c.pc = "pipe" /\ c.kind = "http"
  /\ Enforce
  => ~c.broken

Sound(c) == c \in Calls /\ InItsHandler(c) /\ TellsTheAnswer(c) /\ Admitted(c)

Inv ==
  /\ SharedTyped
  /\ req \in [Request -> Calls]
  /\ \A r \in Request : Sound(req[r])

-------------------------------------------------------------------------------
(* The records of calls. *)

LEMMA EmitIsAPlace == {"emit", "done", "aborted"} \subseteq Places
BY DEF Places

LEMMA NewCall ==
  ASSUME NEW pc \in Places, NEW kind \in Kinds, NEW origin \in Origins, NEW p \in Path,
         NEW c, c = Call(pc, kind, origin, p)
  PROVE  /\ c \in Calls
         /\ c.pc = pc /\ c.kind = kind /\ c.origin = origin /\ c.path = p
         /\ c.captured = "none" /\ c.answer = "none" /\ c.logged = "none" /\ c.events = 0
BY DEF Call, Calls, Statuses, Ends

LEMMA Forgotten ==
  ASSUME NEW c \in Calls, NEW pc \in Places, NEW d, d = Forgets(c, pc)
  PROVE  /\ d \in Calls
         /\ d.pc = pc /\ d.kind = c.kind /\ d.path = c.path
         /\ d.captured = c.captured /\ d.answer = c.answer /\ d.events = 0
<1> DEFINE e == Call(pc, c.kind, "client", c.path)
<1>1. c.kind \in Kinds /\ "client" \in Origins /\ c.path \in Path
  BY DEF Calls, Origins
<1>2. e = Call(pc, c.kind, "client", c.path)
  OBVIOUS
<1> HIDE DEF e
<1>3. /\ e \in Calls /\ e.pc = pc /\ e.kind = c.kind /\ e.path = c.path
      /\ e.events = 0
  BY <1>1, <1>2, NewCall
<1> QED BY <1>3, <1>2 DEF Forgets, Calls

LEMMA ReturnedCall ==
  ASSUME NEW c \in Calls, NEW pc \in Places, NEW d, d = Returned(c, pc)
  PROVE  /\ d \in Calls
         /\ d.pc = pc /\ d.kind = c.kind /\ d.path = c.path
         /\ d.logged = c.logged /\ d.answer = c.answer /\ d.events = c.events
<1> DEFINE e == Call(pc, c.kind, "client", c.path)
<1>1. c.kind \in Kinds /\ "client" \in Origins /\ c.path \in Path
  BY DEF Calls, Origins
<1>2. e = Call(pc, c.kind, "client", c.path)
  OBVIOUS
<1> HIDE DEF e
<1>3. /\ e \in Calls /\ e.pc = pc /\ e.kind = c.kind /\ e.path = c.path
      /\ e.events = 0
  BY <1>1, <1>2, NewCall
<1> QED BY <1>3, <1>2 DEF Returned, Calls

\* A call that has answered has only its event left, and that will tell the answer.
LEMMA AnsweredSound ==
  ASSUME NEW c \in Calls, NEW s \in Statuses, s # "none"
  PROVE  Sound(Answered(c, s))
<1> DEFINE b == [c EXCEPT !.captured = s, !.answer = s]
           d == Forgets(b, "emit")
<1>1. b \in Calls /\ b.captured = s /\ b.answer = s
  BY DEF Calls
<1> HIDE DEF b
<1>2. /\ d \in Calls /\ d.pc = "emit" /\ d.captured = s /\ d.answer = s /\ d.events = 0
  BY <1>1, EmitIsAPlace, Forgotten, SMTT(30)
<1>3. Answered(c, s) = d
  BY DEF Answered, b
<1> HIDE DEF d
<1> QED BY <1>2, <1>3 DEF Sound, InItsHandler, TellsTheAnswer, Agrees, Departs, Admitted, Proxied

\* So has a call whose tunnel or reverse-proxied exchange is over.
LEMMA ForgottenSound ==
  ASSUME NEW c \in Calls, c.captured = c.answer \/ Departs(c),
         c.kind = "http" \/ c.captured # "none"
  PROVE  Sound(Forgets(c, "emit"))
<1> DEFINE d == Forgets(c, "emit")
<1>1. /\ d \in Calls /\ d.pc = "emit" /\ d.events = 0 /\ d.kind = c.kind
      /\ d.captured = c.captured /\ d.answer = c.answer
  BY EmitIsAPlace, Forgotten
<1> HIDE DEF d
<1>2. Sound(d)
  BY <1>1 DEF Sound, InItsHandler, TellsTheAnswer, Agrees, Departs, Admitted, Proxied
<1> QED BY <1>2 DEF d

\* The returns without an event are those that EventTellsTheAnswer names.
LEMMA SilentSound ==
  ASSUME NEW c \in Calls, NEW s \in Statuses, c.events = 0,
         \/ c.kind = "forward" /\ BadURLs
         \/ c.kind \in {"ws", "connect"} /\ s \in {"5xx", "none"}
  PROVE  Sound(Silent(c, s))
<1> DEFINE b == [c EXCEPT !.answer = s]
           d == Returned(b, "done")
<1>1. b \in Calls /\ b.answer = s /\ b.events = 0 /\ b.kind = c.kind
  BY DEF Calls
<1> HIDE DEF b
<1>2. /\ d \in Calls /\ d.pc = "done" /\ d.events = 0 /\ d.answer = s /\ d.kind = c.kind
  <2>1. "done" \in Places /\ d = Returned(b, "done")
    BY EmitIsAPlace
  <2> HIDE DEF d
  <2> QED BY <1>1, <2>1, ReturnedCall
<1>3. Silent(c, s) = d
  BY DEF Silent, b
<1> HIDE DEF d
<1> QED BY <1>2, <1>3 DEF Sound, InItsHandler, TellsTheAnswer, Agrees, Departs, Admitted, Proxied

-------------------------------------------------------------------------------
(* Steps of calls. *)

LEMMA InvInit == Init => Inv
<1> SUFFICES ASSUME Init PROVE Inv
  OBVIOUS
<1> DEFINE c == Call("idle", "http", "client", CHOOSE p \in Path : TRUE)
<1>0. /\ "idle" \in Places /\ "http" \in Kinds /\ "client" \in Origins
      /\ (CHOOSE p \in Path : TRUE) \in Path
  BY EngineAssumption DEF Places, Kinds, Origins
<1>1. /\ c \in Calls /\ c.pc = "idle" /\ c.captured = "none" /\ c.answer = "none"
      /\ c.events = 0
  BY <1>0, NewCall
<1>2. req = [r \in Request |-> c]
  BY DEF Init
<1>3. SharedTyped
  BY EngineAssumption, BreakerAssumption DEF Init, BreakerInit, SharedTyped
<1> HIDE DEF c
<1>4. Sound(c)
  BY <1>1 DEF Sound, InItsHandler, TellsTheAnswer, Agrees, Departs, Admitted, Proxied
<1> QED BY <1>1, <1>2, <1>3, <1>4 DEF Inv

\* A call goes on as a sound record; others stay as they are.
LEMMA CallGoes ==
  ASSUME Inv, NEW r \in Request, NEW c, Sound(c), Goes(r, c), SharedTyped'
  PROVE  Inv'
<1>1. c \in Calls
  BY DEF Sound
<1>2. req' \in [Request -> Calls]
  BY <1>1 DEF Inv, Goes
<1>3. ASSUME NEW q \in Request PROVE Sound(req[q])'
  <2>1. Sound(req'[q])
    BY DEF Inv, Goes
  <2> QED BY <2>1 DEF Sound, InItsHandler, TellsTheAnswer, Agrees, Departs, Admitted
<1> QED BY <1>2, <1>3 DEF Inv

\* A success or a failure, of whatever target, keeps the breakers well typed.
LEMMA BreakerTyped ==
  ASSUME NEW t, Success(t) \/ Failure(t), known \subseteq Target,
         streak \in [Target -> 0 .. Threshold], open \in [Target -> BOOLEAN]
  PROVE  /\ known' \subseteq Target
         /\ streak' \in [Target -> 0 .. Threshold] /\ open' \in [Target -> BOOLEAN]
<1>1. CASE Success(t)
  <2>1. 0 \in 0 .. Threshold /\ FALSE \in BOOLEAN
    BY BreakerAssumption
  <2> QED BY <1>1, <2>1 DEF Success
<1>2. CASE Failure(t) /\ t \in known
  <2>1. Longer(streak[t]) \in 0 .. Threshold /\ (Longer(streak[t]) = Threshold) \in BOOLEAN
    BY <1>2, BreakerAssumption DEF Longer
  <2> QED BY <1>2, <2>1 DEF Failure
<1>3. CASE Failure(t) /\ t \notin known
  BY <1>3 DEF Failure
<1> QED BY <1>1, <1>2, <1>3

LEMMA SharedStays == Inv /\ UNCHANGED Shared => SharedTyped'
BY DEF Inv, Shared, breakerVars, SharedTyped

\* A call of kind "http" between the first lookup and its report keeps what was
\* captured, or learns it from WriteHeader.
LEMMA HeaderWritten ==
  ASSUME NEW c \in Calls, NEW code \in {"1xx", "ok", "5xx"}, c.kind = "http",
         c.captured = c.answer \/ Departs(c), NEW d, d = WriteHeader(c, code)
  PROVE  /\ d \in Calls
         /\ d.pc = c.pc /\ d.kind = c.kind /\ d.path = c.path /\ d.route = c.route
         /\ d.broken = c.broken /\ d.events = c.events
         /\ d.captured = d.answer \/ Departs(d)
         /\ code = "1xx" /\ c.captured = "none" => d.captured = "1xx"
<1>0. c.captured \in Statuses /\ c.answer \in Statuses /\ {"1xx", "ok", "5xx"} \subseteq Statuses
  BY DEF Calls, Statuses
<1>1. CASE c.captured = "none"
  <2>1. d = [c EXCEPT !.captured = code, !.answer = code]
    BY <1>1 DEF WriteHeader
  <2>2. d \in Calls
    <3> DEFINE e == [c EXCEPT !.captured = code]
    <3>1. e \in Calls
      BY <1>0 DEF Calls
    <3>2. d = [e EXCEPT !.answer = code]
      BY <2>1 DEF Calls
    <3> HIDE DEF e
    <3> QED BY <1>0, <3>1, <3>2 DEF Calls
  <2>3. d.captured = code /\ d.answer = code
    BY <2>1 DEF Calls
  <2>4. /\ d.pc = c.pc /\ d.kind = c.kind /\ d.path = c.path /\ d.route = c.route
        /\ d.broken = c.broken /\ d.events = c.events
    BY <2>1 DEF Calls
  <2> QED BY <2>2, <2>3, <2>4
<1>2. CASE c.captured = "1xx"
  <2>1. PICK s \in {"ok", "1xx"} : d = [c EXCEPT !.answer = s]
    BY <1>2 DEF WriteHeader
  <2> QED BY <1>0, <1>2, <2>1 DEF Calls, Departs
<1>3. CASE c.captured \notin {"none", "1xx"}
  <2>1. d = c
    BY <1>3 DEF WriteHeader
  <2> QED BY <1>3, <2>1
<1> QED BY <1>1, <1>2, <1>3

\* When the exchange is over, the call keeps what it has to tell.
LEMMA ExchangeOver ==
  ASSUME NEW c \in Calls, NEW pc \in {"copy", "pipe", "report"}, NEW end \in Ends,
         c.kind = "http", c.events = 0, c.captured = c.answer \/ Departs(c),
         Enforce => ~c.broken
  PROVE  Sound(Over(c, pc, end))
<1> DEFINE d == Over(c, pc, end)
<1>1. d = [c EXCEPT !.pc = pc, !.end = end, !.dialled = NoTarget]
  BY DEF Over
<1>2. pc \in Places
  BY DEF Places, Calls
<1>3. d \in Calls /\ d.pc = pc /\ d.broken = c.broken
  BY <1>1, <1>2 DEF Calls
<1>4. /\ d.kind = c.kind /\ d.events = c.events /\ d.route = c.route
      /\ d.captured = c.captured /\ d.answer = c.answer
  BY <1>1 DEF Calls
<1> HIDE DEF d
<1>5. d.captured = d.answer \/ Departs(d)
  BY <1>4 DEF Departs
<1>6. d.pc \in {"copy", "pipe", "report"} /\ d.kind = "http" /\ d.events = 0
      /\ (Enforce => ~d.broken)
  BY <1>3, <1>4
<1>7. Sound(d)
  BY <1>3, <1>5, <1>6 DEF Sound, InItsHandler, TellsTheAnswer, Agrees, Admitted, Proxied
<1> QED BY <1>7 DEF d

\* The steps of the handler that a goroutine takes alone, one by one.
LEMMA ServeStep ==
  ASSUME Inv, NEW r \in Request, Serve(r)
  PROVE  Inv'
<1> DEFINE c == req[r]
<1>0. /\ c \in Calls /\ Sound(c)
      /\ UNCHANGED Shared => SharedTyped'
  BY SharedStays DEF Inv
<1> USE DEF Sound, InItsHandler, TellsTheAnswer, Agrees, Departs, Admitted, Proxied
<1>1. CASE Accept(r)
  <2>1. PICK kind \in Kinds, origin \in Origins, p \in Path :
          Goes(r, Call(CASE kind = "connect" -> "dial"
                         [] kind = "forward" -> "forward"
                         [] OTHER -> "mock", kind, origin, p))
    BY <1>1 DEF Accept
  <2> DEFINE pc == CASE kind = "connect" -> "dial"
                     [] kind = "forward" -> "forward"
                     [] OTHER -> "mock"
             d == Call(pc, kind, origin, p)
  <2>2. /\ pc \in Places
        /\ \/ pc = "dial" /\ kind = "connect"
           \/ pc = "forward" /\ kind = "forward"
           \/ pc = "mock" /\ kind \in {"http", "ws"}
    BY DEF Places, Kinds
  <2> HIDE DEF pc
  <2>3. /\ d \in Calls /\ d.pc = pc /\ d.kind = kind /\ d.captured = "none" /\ d.answer = "none"
        /\ d.events = 0
    BY <2>2, NewCall
  <2>4. Goes(r, d) /\ UNCHANGED Shared
    BY <1>1, <2>1 DEF Accept, pc
  <2> HIDE DEF d
  <2>5. Sound(d)
    BY <2>2, <2>3
  <2> QED BY <1>0, <2>4, <2>5, CallGoes
<1>2. CASE MockAlways(r)
  <2> DEFINE rule == mocks[c.path]
             d == [c EXCEPT !.pc = "match"]
  <2>1. rule.status \in Statuses /\ rule.status # "none"
    BY <1>0 DEF Inv, SharedTyped, Calls, Rule, NoRule, Statuses
  <2>2. Goes(r, Answered(c, rule.status)) \/ Goes(r, d)
    BY <1>2 DEF MockAlways
  <2>3. Sound(d)
    BY <1>0, <1>2 DEF MockAlways, Calls, Places
  <2>4. UNCHANGED Shared
    BY <1>2 DEF MockAlways
  <2> HIDE DEF rule, d, c
  <2> QED BY <1>0, <2>1, <2>2, <2>3, <2>4, AnsweredSound, CallGoes DEF c
<1>3. CASE Match(r)
  <2> DEFINE t == routes[c.path]
             b == [c EXCEPT !.route = t]
  <2>1. t \in Target \cup {NoTarget}
    BY <1>0 DEF Inv, SharedTyped, Calls
  <2>2. b \in Calls
    BY <1>0, <2>1 DEF Calls
  <2>3. \/ Sound([b EXCEPT !.pc = "wsdial"])
        \/ c.kind # "ws"
    BY <1>0, <1>3, <2>1 DEF Match, Calls, Places
  <2>4. \/ Sound([b EXCEPT !.pc = "breaker"])
        \/ c.kind = "ws"
    BY <1>0, <1>3, <2>1 DEF Match, Calls, Places
  <2>5. /\ \/ Goes(r, Answered(b, "ok"))
           \/ Goes(r, [b EXCEPT !.pc = "wsdial"]) /\ c.kind = "ws"
           \/ Goes(r, [b EXCEPT !.pc = "breaker"]) /\ c.kind # "ws"
        /\ UNCHANGED Shared
    BY <1>0, <1>3 DEF Match, Calls
  <2>6. "ok" \in Statuses
    BY DEF Statuses
  <2> HIDE DEF t, b
  <2> QED BY <1>0, <2>2, <2>3, <2>4, <2>5, <2>6, AnsweredSound, CallGoes
<1>4. CASE CheckBreaker(r)
  <2> DEFINE found == IsOpen(c.route)
             d == [c EXCEPT !.broken = found,
                            !.pc = IF IsCircuitBroken(c.route) THEN "fallback" ELSE "rewrite"]
  <2>1. Goes(r, d) /\ UNCHANGED Shared
    BY <1>4 DEF CheckBreaker
  <2>2. found \in BOOLEAN /\ {"fallback", "rewrite"} \subseteq Places
    BY DEF Places, IsOpen
  <2>3. d \in Calls /\ d.pc \in {"fallback", "rewrite"} /\ d.broken = found
    BY <1>0, <2>2 DEF Calls
  <2>4. /\ d.kind = c.kind /\ d.route = c.route /\ d.events = c.events
        /\ d.captured = c.captured /\ d.answer = c.answer
    BY <1>0 DEF Calls
  <2>5. d.pc = "rewrite" /\ Enforce => ~found
    BY <1>0, <2>2 DEF Calls, IsCircuitBroken
  <2>6. c.pc = "breaker" /\ c.kind = "http"
    BY <1>0, <1>4 DEF CheckBreaker
  <2> HIDE DEF d, found
  <2>7. Sound(d)
    BY <1>0, <2>3, <2>4, <2>5, <2>6
  <2> QED BY <1>0, <2>1, <2>7, CallGoes
<1>5. CASE BrokenFallback(r)
  <2> DEFINE rule == mocks[c.path]
             s == IF rule = NoRule THEN "5xx" ELSE rule.status
  <2>1. s \in Statuses /\ s # "none"
    BY <1>0 DEF Inv, SharedTyped, Calls, Rule, NoRule, Statuses
  <2>2. Goes(r, Answered(c, s)) /\ UNCHANGED Shared
    BY <1>5 DEF BrokenFallback
  <2> HIDE DEF s
  <2> QED BY <1>0, <2>1, <2>2, AnsweredSound, CallGoes
<1>6. CASE Rewrite(r)
  <2> DEFINE f == [c EXCEPT !.pc = "failed"]
             d == [c EXCEPT !.dialled = routes[c.path], !.pc = "trip"]
  <2>1. routes[c.path] \in Target \cup {NoTarget}
    BY <1>0 DEF Inv, SharedTyped, Calls
  <2>2. (Goes(r, f) \/ Goes(r, d)) /\ UNCHANGED Shared
    BY <1>6 DEF Rewrite
  <2>3. Sound(d)
    BY <1>0, <1>6, <2>1 DEF Rewrite, Calls, Places
  <2>4. Sound(f)
    BY <1>0, <1>6 DEF Rewrite, Calls, Places
  <2> HIDE DEF d, f
  <2> QED BY <1>0, <2>2, <2>3, <2>4, CallGoes
<1>7. CASE RoundTrip(r)
  <2> USE <1>7 DEF RoundTrip
  <2>0. /\ c.pc = "trip" /\ c.kind = "http" /\ c.events = 0
        /\ c.captured = c.answer \/ Departs(c)
        /\ Enforce => ~c.broken
    BY <1>0
  <2>1. CASE Goes(r, [c EXCEPT !.pc = "failed"])
    <3> DEFINE d == [c EXCEPT !.pc = "failed"]
    <3>1. Sound(d)
      BY <1>0, <2>0 DEF Calls, Places
    <3> HIDE DEF d
    <3> QED BY <1>0, <2>1, <3>1, CallGoes DEF d
  <2>2. CASE c.captured = "none" /\ Goes(r, WriteHeader(c, "1xx"))
    <3> DEFINE d == WriteHeader(c, "1xx")
    <3>0. d = WriteHeader(c, "1xx")
      OBVIOUS
    <3> HIDE DEF d
    <3>1. /\ d \in Calls
          /\ d.pc = c.pc /\ d.kind = c.kind /\ d.route = c.route
          /\ d.broken = c.broken /\ d.events = c.events
          /\ d.captured = d.answer \/ Departs(d)
          /\ d.captured = "1xx"
      BY <1>0, <2>0, <2>2, <3>0, HeaderWritten
    <3>2. Sound(d)
      BY <2>0, <3>1
    <3> QED BY <1>0, <2>2, <3>0, <3>2, CallGoes
  <2>3. ASSUME NEW s \in {"ok", "5xx"}, Goes(r, Over(WriteHeader(c, s), "copy", "answered"))
        PROVE  Inv'
    <3> DEFINE e == WriteHeader(c, s)
    <3>0. e = WriteHeader(c, s)
      OBVIOUS
    <3> HIDE DEF e
    <3>1. /\ e \in Calls /\ e.kind = c.kind /\ e.events = c.events
          /\ e.route = c.route /\ e.broken = c.broken
          /\ e.captured = e.answer \/ Departs(e)
      BY <1>0, <2>0, <3>0, HeaderWritten
    <3>2. "answered" \in Ends
      BY DEF Ends
    <3>3. Sound(Over(e, "copy", "answered"))
      BY <2>0, <3>1, <3>2, ExchangeOver
    <3> QED BY <1>0, <2>3, <3>0, <3>3, CallGoes
  <2> QED BY <2>1, <2>2, <2>3
<1>20. CASE SwitchProtocols(r)
  <2> DEFINE e == [c EXCEPT !.answer = "101"]
             d == [c EXCEPT !.pc = "hijacked"]
  <2>0. /\ c.pc = "trip" /\ c.kind = "http" /\ c.events = 0
        /\ c.captured = c.answer \/ Departs(c)
        /\ c.captured \in {"none", "1xx"}
        /\ Enforce => ~c.broken
        /\ UNCHANGED Shared
    BY <1>0, <1>20 DEF SwitchProtocols
  <2>1. Goes(r, Over(e, "pipe", "answered")) \/ Goes(r, d)
    BY <1>20 DEF SwitchProtocols
  <2>2. Sound(d)
    BY <1>0, <2>0 DEF Calls, Places
  <2>3. /\ e \in Calls /\ e.kind = c.kind /\ e.events = c.events
        /\ e.route = c.route /\ e.broken = c.broken
        /\ e.captured = c.captured /\ e.answer = "101"
    BY <1>0 DEF Calls, Statuses
  <2> HIDE DEF d, e
  <2>4. Sound(Over(e, "pipe", "answered"))
    <3>1. "answered" \in Ends
      BY DEF Ends
    <3>2. Departs(e)
      BY <2>0, <2>3
    <3> QED BY <2>0, <2>3, <3>1, <3>2, ExchangeOver
  <2> QED BY <1>0, <2>0, <2>1, <2>2, <2>4, CallGoes
<1>8. CASE CopyBody(r)
  <2> DEFINE d == [c EXCEPT !.pc = "report"]
             a == Returned(c, "aborted")
  <2>1. Sound(d)
    BY <1>0, <1>8 DEF CopyBody, Calls, Places
  <2>2. a = Returned(c, "aborted")
    OBVIOUS
  <2>3. (Goes(r, d) \/ Goes(r, a)) /\ UNCHANGED Shared
    BY <1>8 DEF CopyBody
  <2>4. c.kind = "http" /\ c.events = 0
    BY <1>0, <1>8 DEF CopyBody
  <2> HIDE DEF d, a
  <2>5. a \in Calls /\ a.pc = "aborted" /\ a.kind = "http" /\ a.events = 0
    BY <1>0, <2>2, <2>4, EmitIsAPlace, ReturnedCall
  <2>6. Sound(a)
    BY <2>5
  <2> QED BY <1>0, <2>1, <2>3, <2>6, CallGoes
<1>9. CASE HandleError(r)
  <2> DEFINE rule == mocks[OutboundPath(r)]
             s == IF rule = NoRule THEN "5xx" ELSE rule.status
             e == WriteHeader(c, s)
             a == IF c.pc = "hijacked" THEN "none" ELSE e.answer
             f == [e EXCEPT !.answer = a]
             end == IF rule = NoRule THEN "failed" ELSE "mocked"
  <2>1. s \in {"ok", "5xx"} /\ end \in Ends
    BY <1>0 DEF Inv, SharedTyped, Calls, Rule, NoRule, OutboundPath, Ends
  <2>2. Goes(r, Over(f, "report", end)) /\ UNCHANGED Shared
    BY <1>9 DEF HandleError
  <2>3. e = WriteHeader(c, s)
    OBVIOUS
  <2> HIDE DEF s, e, end
  <2>4. /\ c.kind = "http" /\ (c.captured = c.answer \/ Departs(c)) /\ c.events = 0
        /\ Enforce => ~c.broken
    BY <1>0, <1>9 DEF HandleError
  <2>5. /\ e \in Calls /\ e.kind = c.kind /\ e.events = c.events
        /\ e.route = c.route /\ e.broken = c.broken
        /\ e.captured = e.answer \/ Departs(e)
    BY <1>0, <2>1, <2>3, <2>4, HeaderWritten
  <2>6. a \in Statuses /\ (a = "none" \/ a = e.answer)
    BY <2>5 DEF Calls, Statuses
  <2> HIDE DEF a
  <2>7. /\ f \in Calls /\ f.kind = e.kind /\ f.events = e.events
        /\ f.route = e.route /\ f.broken = e.broken
        /\ f.captured = e.captured /\ f.answer = a
    BY <2>5, <2>6 DEF Calls
  <2> HIDE DEF f
  <2>8. f.captured = f.answer \/ Departs(f)
    BY <2>4, <2>5, <2>6, <2>7
  <2>9. Sound(Over(f, "report", end))
    BY <2>1, <2>4, <2>5, <2>7, <2>8, ExchangeOver
  <2> QED BY <1>0, <2>2, <2>9, CallGoes
<1>10. CASE Report(r)
  <2>1. /\ c.pc = "report" /\ c.kind = "http"
        /\ c.captured = c.answer \/ Departs(c)
        /\ Goes(r, Forgets(c, "emit")) /\ UNCHANGED <<routes, mocks>>
    BY <1>0, <1>10 DEF Report
  <2>2. SharedTyped'
    <3>1. known \subseteq Target /\ streak \in [Target -> 0 .. Threshold] /\ open \in [Target -> BOOLEAN]
          /\ routes \in [Path -> Target \cup {NoTarget}]
          /\ mocks \in [Path \cup {Stripped} -> Rule \cup {NoRule}]
      BY DEF Inv, SharedTyped
    <3>2. Success(c.route) \/ Failure(c.route)
      BY <1>10 DEF Report
    <3> QED BY <2>1, <3>1, <3>2, BreakerTyped DEF SharedTyped
  <2> QED BY <1>0, <2>1, <2>2, ForgottenSound, CallGoes
<1>11. CASE EmitTraceEvent(r)
  <2> DEFINE l == StatusCode(c)
             b == [c EXCEPT !.logged = l, !.events = c.events + 1]
             d == Returned(b, "done")
  <2>1. /\ c.pc = "emit" /\ c.events = 0 /\ (c.captured = c.answer \/ Departs(c))
        /\ c.kind = "http" \/ c.captured # "none"
    BY <1>0, <1>11 DEF EmitTraceEvent
  <2>2. l \in Statuses /\ l = (IF c.captured = "none" THEN "ok" ELSE c.captured)
    BY <1>0 DEF Calls, Statuses, StatusCode
  <2> HIDE DEF l
  <2>3. c.events + 1 = 1 /\ 1 \in 0 .. 1
    BY <2>1
  <2>4. b \in Calls /\ b.logged = l /\ b.events = 1 /\ b.answer = c.answer /\ b.kind = c.kind
    BY <1>0, <2>2, <2>3 DEF Calls
  <2>5. d = Returned(b, "done")
    OBVIOUS
  <2>6. Goes(r, d) /\ UNCHANGED Shared
    BY <1>11 DEF EmitTraceEvent, AfterEvent, l
  <2> HIDE DEF b, d
  <2>7. /\ d \in Calls /\ d.pc = "done" /\ d.logged = l /\ d.events = 1
        /\ d.answer = c.answer /\ d.kind = c.kind
    BY <2>4, <2>5, EmitIsAPlace, ReturnedCall
  <2>8. Sound(d)
    BY <2>1, <2>2, <2>7
  <2> QED BY <1>0, <2>6, <2>8, CallGoes
<1>12. ASSUME NEW s \in Statuses, s # "none", NEW b \in Calls, Goes(r, Answered(b, s)),
              UNCHANGED Shared
       PROVE  Inv'
  BY <1>0, <1>12, AnsweredSound, CallGoes
<1>13. ASSUME NEW s \in Statuses, Goes(r, Silent(c, s)), UNCHANGED Shared, c.events = 0,
              \/ c.kind = "forward" /\ BadURLs
              \/ c.kind \in {"ws", "connect"} /\ s \in {"5xx", "none"}
       PROVE  Inv'
  BY <1>0, <1>13, SilentSound, CallGoes
<1>14. {"1xx", "101", "ok", "5xx", "none"} = Statuses
  BY DEF Statuses
<1>15. CASE Forward(r)
  <2>1. c.kind = "forward" /\ c.events = 0
    BY <1>0, <1>15 DEF Forward
  <2> QED BY <1>0, <1>12, <1>13, <1>14, <1>15, <2>1 DEF Forward
<1>16. CASE ConnectDial(r)
  <2> DEFINE d == [c EXCEPT !.captured = "ok", !.answer = "ok", !.pc = "pipe"]
  <2>1. c.kind = "connect" /\ c.events = 0
    BY <1>0, <1>16 DEF ConnectDial
  <2>2. Sound(d)
    <3>1. "ok" \in Statuses /\ "pipe" \in Places
      BY DEF Statuses, Places
    <3>2. /\ d \in Calls /\ d.pc = "pipe" /\ d.kind = "connect" /\ d.events = 0
          /\ d.captured = "ok" /\ d.answer = "ok"
      BY <1>0, <2>1, <3>1 DEF Calls
    <3> HIDE DEF d
    <3> QED BY <1>0, <3>2
  <2>3. /\ \/ \E s \in {"ok", "5xx"} : Goes(r, Answered(c, s))
           \/ Goes(r, Silent(c, "5xx"))
           \/ Goes(r, d)
        /\ UNCHANGED Shared
    BY <1>16 DEF ConnectDial
  <2> HIDE DEF d
  <2> QED BY <1>0, <1>12, <1>13, <1>14, <2>1, <2>2, <2>3, CallGoes
<1>17. CASE WebSocketDial(r)
  <2> DEFINE d == [c EXCEPT !.pc = "wsask"]
  <2>1. c.kind = "ws" /\ c.events = 0
    BY <1>0, <1>17 DEF WebSocketDial
  <2>2. Sound(d)
    BY <1>0, <1>17, <2>1 DEF Calls, Places, WebSocketDial
  <2>3. /\ Goes(r, Silent(c, "5xx")) \/ Goes(r, Answered(c, "5xx")) \/ Goes(r, d)
        /\ UNCHANGED Shared
    BY <1>17 DEF WebSocketDial
  <2> HIDE DEF d
  <2> QED BY <1>0, <1>12, <1>13, <1>14, <2>1, <2>2, <2>3, CallGoes
<1>18. CASE WebSocketHandshake(r)
  <2> DEFINE b == [c EXCEPT !.captured = "101", !.answer = "101"]
             d == Forgets(b, "pipe")
  <2>1. c.kind = "ws" /\ c.events = 0
    BY <1>0, <1>18 DEF WebSocketHandshake
  <2>2. b \in Calls /\ b.captured = "101" /\ b.answer = "101" /\ b.kind = c.kind
    BY <1>0 DEF Calls, Statuses
  <2>3. d = Forgets(b, "pipe") /\ "pipe" \in Places
    BY DEF Places
  <2>4. /\ \/ Goes(r, Silent(c, "5xx"))
           \/ \E s \in {"1xx", "ok", "5xx"} : Goes(r, Answered(c, s))
           \/ Goes(r, Silent(c, "none"))
           \/ Goes(r, d)
        /\ UNCHANGED Shared
    BY <1>18 DEF WebSocketHandshake
  <2> HIDE DEF b, d
  <2>5. /\ d \in Calls /\ d.pc = "pipe" /\ d.kind = "ws" /\ d.captured = "101" /\ d.answer = "101"
        /\ d.events = 0
    BY <2>1, <2>2, <2>3, Forgotten
  <2>6. Sound(d)
    BY <2>5
  <2> QED BY <1>0, <1>12, <1>13, <1>14, <2>1, <2>4, <2>6, CallGoes
<1>19. CASE PipeEnds(r)
  <2> DEFINE d == [c EXCEPT !.pc = "report"]
  <2>1. c.captured = c.answer \/ Departs(c)
    BY <1>0, <1>19 DEF PipeEnds
  <2>2. /\ \/ c.kind = "http" /\ Goes(r, d)
           \/ c.kind # "http" /\ Goes(r, Forgets(c, "emit"))
        /\ c.pc = "pipe" /\ UNCHANGED Shared
    BY <1>19 DEF PipeEnds
  <2>3. CASE c.kind = "http"
    <3>1. Sound(d)
      BY <1>0, <2>2, <2>3 DEF Calls, Places
    <3> HIDE DEF d
    <3> QED BY <1>0, <2>2, <2>3, <3>1, CallGoes
  <2>4. CASE c.kind # "http"
    <3>1. c.captured # "none"
      BY <1>0, <2>2, <2>4
    <3> QED BY <1>0, <2>1, <2>2, <2>4, <3>1, ForgottenSound, CallGoes
  <2> QED BY <2>3, <2>4
<1> QED
  BY <1>1, <1>2, <1>3, <1>4, <1>5, <1>6, <1>7, <1>8, <1>9, <1>10, <1>11, <1>15, <1>16, <1>17,
     <1>18, <1>19, <1>20 DEF Serve

-------------------------------------------------------------------------------
(* Every step. *)

\* A step of the environment that changes no call.
LEMMA CallsStay ==
  ASSUME Inv, SharedTyped', UNCHANGED req
  PROVE  Inv'
BY DEF Inv, Sound, InItsHandler, TellsTheAnswer, Agrees, Departs, Admitted

LEMMA InvStep == Inv /\ [Next]_vars => Inv'
<1> SUFFICES ASSUME Inv, [Next]_vars PROVE Inv'
  OBVIOUS
<1>0. SharedTyped
  BY DEF Inv
<1>1. ASSUME NEW r \in Request, Serve(r) PROVE Inv'
  BY <1>1, ServeStep
<1>2. ASSUME NEW p \in Path, NEW t \in Target \cup {NoTarget}, Reroute(p, t) PROVE Inv'
  <2>1. SharedTyped'
    BY <1>0, <1>2 DEF Reroute, SharedTyped, breakerVars
  <2> QED BY <1>2, <2>1, CallsStay DEF Reroute
<1>3. ASSUME NEW p \in Path \cup {Stripped}, NEW rule \in Rules \cup {NoRule}, SetRule(p, rule)
      PROVE  Inv'
  <2>1. SharedTyped'
    BY <1>0, <1>3, EngineAssumption DEF SetRule, SharedTyped, breakerVars
  <2> QED BY <1>3, <2>1, CallsStay DEF SetRule
<1>4. ASSUME NEW t \in Target, RegisterTarget(t) PROVE Inv'
  <2>1. SharedTyped'
    BY <1>0, <1>4 DEF RegisterTarget, Register, SharedTyped
  <2> QED BY <1>4, <2>1, CallsStay DEF RegisterTarget
<1>5. ASSUME NEW t \in Target, Probe(t) PROVE Inv'
  <2>1. SharedTyped'
    BY <1>0, <1>5, BreakerTyped DEF Probe, SharedTyped
  <2> QED BY <1>5, <2>1, CallsStay DEF Probe
<1>6. ASSUME UNCHANGED vars PROVE Inv'
  <2>1. SharedTyped'
    BY <1>0, <1>6 DEF vars, SharedTyped, breakerVars
  <2> QED BY <1>6, <2>1, CallsStay DEF vars
<1> QED BY <1>1, <1>2, <1>3, <1>4, <1>5, <1>6 DEF Next

LEMMA InvAlways == Spec => []Inv
BY InvInit, InvStep, PTL DEF Spec

\* Every call, every breaker, every route and every rule is one of its kind.
THEOREM TypeCorrect == Spec => []TypeOK
<1>1. Inv => TypeOK
  BY DEF Inv, SharedTyped, Calls, TypeOK
<1> QED BY <1>1, InvAlways, PTL

\* Whichever path ServeHTTP takes, it leaves one event with the status the client
\* got, or departs from that in one of the ways the property names.
THEOREM EventsTellAnswers == Spec => []EventTellsTheAnswer
<1>1. Inv => EventTellsTheAnswer
  BY DEF Inv, Sound, TellsTheAnswer, EventTellsTheAnswer
<1> QED BY <1>1, InvAlways, PTL

\* The steps of a call that is not at its report leave every breaker alone.
LEMMA OnlyReportsCount ==
  ASSUME NEW r \in Request, Serve(r), req[r].pc # "report"
  PROVE  UNCHANGED <<streak, open>>
BY DEF Serve, Accept, MockAlways, Match, CheckBreaker, BrokenFallback, Rewrite, RoundTrip, CopyBody,
       SwitchProtocols, HandleError, Report, EmitTraceEvent, Forward, ConnectDial, WebSocketDial, WebSocketHandshake,
       PipeEnds, Shared, breakerVars

\* An outcome changes the breaker of its own target only.
LEMMA OneBreaker ==
  ASSUME Inv, NEW t, Success(t) \/ Failure(t), NEW u \in Target, u # t
  PROVE  streak'[u] = streak[u] /\ open'[u] = open[u]
BY DEF Inv, SharedTyped, Success, Failure

\* A success ends a run of failures, a failure makes one.
LEMMA Counted ==
  ASSUME Inv, NEW t \in Target, <<streak[t], open[t]>>' # <<streak[t], open[t]>>
  PROVE  /\ Success(t) => streak'[t] = 0
         /\ Failure(t) => streak'[t] > 0
<1>1. streak \in [Target -> 0 .. Threshold]
  BY DEF Inv, SharedTyped
<1>2. ASSUME Success(t) PROVE streak'[t] = 0
  BY <1>1, <1>2 DEF Success
<1>3. ASSUME Failure(t) PROVE streak'[t] > 0
  <2>1. streak' = [streak EXCEPT ![t] = Longer(streak[t])]
    BY <1>3 DEF Failure
  <2>2. Longer(streak[t]) > 0
    BY <1>1, BreakerAssumption DEF Longer
  <2> QED BY <1>1, <2>1, <2>2
<1> QED BY <1>2, <1>3

\* What a call that moves the breaker of t is and does.
CountsFor(r, t) ==
  /\ req[r].pc = "report" /\ req'[r].pc = "emit"
  /\ req[r].kind = "http" /\ req[r].route = t
  /\ Enforce => ~req[r].broken
  /\ (streak'[t] > 0) <=> (StatusCode(req'[r]) = "5xx")

\* The health of a target is changed, among the calls, only by the report of an
\* admitted reverse-proxied one that was matched with it, to a failure exactly when
\* its event will log a 5xx.
THEOREM AdmittedCallsCount == Spec => OnlyAdmittedRequestsCount
<1>1. ASSUME Inv, [Next]_vars, NEW t \in Target, <<streak[t], open[t]>>' # <<streak[t], open[t]>>
      PROVE  (\A r \in Request : UNCHANGED req[r]) \/ (\E r \in Request : CountsFor(r, t))
  <2>1. ~UNCHANGED <<streak, open>>
    BY <1>1
  <2>2. ASSUME NEW r \in Request, Serve(r)
        PROVE  CountsFor(r, t)
    <3>1. req[r].pc = "report"
      BY <2>1, <2>2, OnlyReportsCount
    <3>2. Report(r)
      BY <2>2, <3>1 DEF Serve, Accept, MockAlways, Match, CheckBreaker, BrokenFallback, Rewrite,
        RoundTrip, SwitchProtocols, CopyBody, HandleError, EmitTraceEvent, Forward, ConnectDial,
        WebSocketDial, WebSocketHandshake, PipeEnds
    <3>3. /\ req[r].kind = "http" /\ (Enforce => ~req[r].broken)
          /\ req[r] \in Calls
      BY <1>1, <3>1 DEF Inv, Sound, InItsHandler, Proxied, Admitted
    <3>4. req'[r].pc = "emit" /\ req'[r].captured = req[r].captured
      <4>1. req'[r] = Forgets(req[r], "emit")
        BY <1>1, <3>2 DEF Report, Goes, Inv
      <4> QED BY <3>3, <4>1, EmitIsAPlace, Forgotten
    <3>5. req[r].route = t
      BY <1>1, <3>2, OneBreaker DEF Report
    <3>6. (streak'[t] > 0) <=> (StatusCode(req[r]) = "5xx")
      BY <1>1, <3>2, <3>5, Counted DEF Report
    <3>7. StatusCode(req'[r]) = StatusCode(req[r])
      BY <3>4 DEF StatusCode
    <3> QED BY <3>1, <3>3, <3>4, <3>5, <3>6, <3>7 DEF CountsFor
  <2>3. ASSUME NEW u \in Target, RegisterTarget(u) \/ Probe(u)
        PROVE  \A r \in Request : UNCHANGED req[r]
    BY <2>3 DEF RegisterTarget, Probe
  <2>4. ASSUME \/ \E p \in Path, u \in Target \cup {NoTarget} : Reroute(p, u)
               \/ \E p \in Path \cup {Stripped}, rule \in Rules \cup {NoRule} : SetRule(p, rule)
               \/ UNCHANGED vars
        PROVE  FALSE
    BY <2>1, <2>4 DEF Reroute, SetRule, vars, breakerVars
  <2> QED BY <1>1, <2>2, <2>3, <2>4 DEF Next
<1>2. Inv /\ [Next]_vars =>
        [\A t \in Target :
           <<streak[t], open[t]>>' # <<streak[t], open[t]>> =>
             \/ \A r \in Request : UNCHANGED req[r]
             \/ \E r \in Request :
                  /\ req[r].pc = "report" /\ req'[r].pc = "emit"
                  /\ req[r].kind = "http" /\ req[r].route = t
                  /\ Enforce => ~req[r].broken
                  /\ (streak'[t] > 0) <=> (StatusCode(req'[r]) = "5xx")]_vars
  BY <1>1 DEF CountsFor
<1> QED BY <1>2, InvAlways, PTL DEF Spec, OnlyAdmittedRequestsCount
================================================================================

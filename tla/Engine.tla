-------------------------------- MODULE Engine --------------------------------
(***************************************************************************)
(* pkg/proxy/engine.go: ServeHTTP, one request at a time in each of its     *)
(* goroutines, from the accepted request to its trace event.  It is built   *)
(* on CircuitBreaker (what HealthMonitor implements) and on the answers of  *)
(* Router.Match and Manager.GetRule, both of which other goroutines change  *)
(* between any two steps of a request.                                      *)
(*                                                                          *)
(* Steps: each read of shared state (mock rule, route, breaker, the second  *)
(* route lookup of Rewrite), each exchange with the outside (dial, round    *)
(* trip, body copy, tunnel) and each effect (health report, trace event).   *)
(*                                                                          *)
(* Abstracted: a status is "ok" (200 to 499), "5xx", "101" or "1xx" (another *)
(* informational one); a mock rule's is "ok" or "5xx".  Headers, bodies,    *)
(* times and trace ids are left out; an always-mock's delay, which holds no *)
(* lock, is part of its step.  Timeouts and a client that goes away are     *)
(* errors of the round trip.  NeverBroken, WriteUncaptured and NoReturn are *)
(* mutants of the definition after them.                                    *)
(***************************************************************************)
EXTENDS Integers, FiniteSets, CircuitBreaker

CONSTANTS
  Request,   \* goroutines running ServeHTTP, each one request after another
  Path,      \* request paths
  Stripped,  \* what is left of a path when its route strips the prefix
  NoTarget,  \* no route matches
  Strips,    \* the targets whose routes strip the prefix
  Rules,     \* bound: the enabled mock rules the dashboard may set
  Enforce,   \* enforce_circuit_breaker
  BadURLs    \* a forwarded URL may fail to parse again (engine.go:429)

Rule == [mode : {"always", "on_error"}, status : {"ok", "5xx"}]
NoRule == [mode |-> "none", status |-> "ok"]

ASSUME EngineAssumption ==
  /\ NoTarget \notin Target /\ Path # {}
  /\ Strips \subseteq Target
  /\ Rules \subseteq Rule
  /\ Enforce \in BOOLEAN
  /\ BadURLs \in BOOLEAN

VARIABLES
  routes,    \* the target Router.Match finds for a path, or NoTarget
  mocks,     \* the enabled rule Manager.GetRule finds for a path, or NoRule
  req        \* the ServeHTTP calls

vars == <<routes, mocks, breakerVars, req>>

Kinds == {"http", "ws", "forward", "connect"}
Origins == {"client", "replay"}
Statuses == {"none", "1xx", "101", "ok", "5xx"}

\* How the exchange of a reverse-proxied call ended: with a response of the
\* upstream, with a mock rule's answer to its failure, or with the gateway's 502.
Ends == {"none", "answered", "mocked", "failed"}

\* Where a call can be; "done" and "aborted" have returned.
Places == {"idle", "mock", "match", "breaker", "fallback", "rewrite", "trip", "copy",
           "failed", "hijacked", "report", "forward", "dial", "pipe", "wsdial", "wsask",
           "emit", "done", "aborted"}

Call(pc, kind, origin, path) ==
  [pc |-> pc, kind |-> kind, origin |-> origin, path |-> path,
   route |-> NoTarget,  \* the target of the first Match
   dialled |-> NoTarget,\* the target of the Match in Rewrite, while it may answer
   broken |-> FALSE,    \* history: the breaker of this target was open at the check
   end |-> "none",      \* history: how the exchange ended, until it is reported
   captured |-> "none", \* the code of the first WriteHeader: what is to be logged
   answer |-> "none",   \* the final status the client gets
   logged |-> "none",   \* the status of the trace event
   events |-> 0]        \* trace events emitted

Init ==
  /\ routes \in [Path -> Target \cup {NoTarget}]
  /\ mocks \in [Path \cup {Stripped} -> Rules \cup {NoRule}]
  /\ BreakerInit
  /\ req = [r \in Request |-> Call("idle", "http", "client", CHOOSE p \in Path : TRUE)]

\* Call r goes on as the record c; other calls stay.
Goes(r, c) == req' = [req EXCEPT ![r] = c]
Shared == <<routes, mocks, breakerVars>>

-------------------------------------------------------------------------------
\* ServeHTTP is entered, by the proxy server or by the replay dispatcher.
Accept(r) ==
  /\ req[r].pc \in {"idle", "done", "aborted"}
  /\ \E kind \in Kinds, origin \in Origins, p \in Path :
       Goes(r, Call(CASE kind = "connect" -> "dial"
                      [] kind = "forward" -> "forward"
                      [] OTHER -> "mock", kind, origin, p))
  /\ UNCHANGED Shared

\* The call is at its end: what it still needs, and what it has left.
Forgets(c, pc) ==
  [Call(pc, c.kind, "client", c.path) EXCEPT !.captured = c.captured, !.answer = c.answer]
Returned(c, pc) ==
  [Call(pc, c.kind, "client", c.path) EXCEPT
     !.answer = c.answer, !.logged = c.logged, !.events = c.events]

\* The call answers with status s and has only its trace event left.
Answered(c, s) == Forgets([c EXCEPT !.captured = s, !.answer = s], "emit")

\* An enabled rule in mode "always" answers before any route is looked up.
MockAlways(r) ==
  LET rule == mocks[req[r].path] IN
  /\ req[r].pc = "mock"
  /\ Goes(r, IF rule.mode = "always" THEN Answered(req[r], rule.status)
                                     ELSE [req[r] EXCEPT !.pc = "match"])
  /\ UNCHANGED Shared

\* The first Router.Match: 404, the WebSocket tunnel, or the breaker check.
Match(r) ==
  LET t == routes[req[r].path]
      c == [req[r] EXCEPT !.route = t]
  IN
  /\ req[r].pc = "match"
  /\ Goes(r, CASE t = NoTarget -> Answered(c, "ok")
               [] t # NoTarget /\ c.kind = "ws" -> [c EXCEPT !.pc = "wsdial"]
               [] OTHER -> [c EXCEPT !.pc = "breaker"])
  /\ UNCHANGED Shared

IsOpen(t) == t \in known /\ open[t]

NeverBroken(t) == FALSE
IsCircuitBroken(t) == Enforce /\ IsOpen(t)

CheckBreaker(r) ==
  LET t == req[r].route IN
  /\ req[r].pc = "breaker"
  /\ Goes(r, [req[r] EXCEPT !.broken = IsOpen(t),
                            !.pc = IF IsCircuitBroken(t) THEN "fallback" ELSE "rewrite"])
  /\ UNCHANGED Shared

\* A broken circuit answers from an enabled rule of either mode, else 503.
BrokenFallback(r) ==
  LET rule == mocks[req[r].path] IN
  /\ req[r].pc = "fallback"
  /\ Goes(r, Answered(req[r], IF rule = NoRule THEN "5xx" ELSE rule.status))
  /\ UNCHANGED Shared

-------------------------------------------------------------------------------
\* ReverseProxy.ServeHTTP: an Upgrade header it cannot print is an error at once;
\* else Rewrite looks the path up again and dials what it finds now.
Rewrite(r) ==
  /\ req[r].pc = "rewrite"
  /\ \/ Goes(r, [req[r] EXCEPT !.pc = "failed"])
     \/ Goes(r, [req[r] EXCEPT !.dialled = routes[req[r].path], !.pc = "trip"])
  /\ UNCHANGED Shared

\* responseCapturer.WriteHeader(code): only the first code counts, also when it is
\* informational; the client then gets an implicit 200 with the body, and the
\* replay recorder keeps the informational code.
WriteUncaptured(c, code) == [c EXCEPT !.captured = "ok", !.answer = code]
WriteHeader(c, code) ==
  IF c.captured = "none" THEN [c EXCEPT !.captured = code, !.answer = code]
  ELSE IF c.captured = "1xx"
    THEN [c EXCEPT !.answer = IF c.origin = "client" THEN "ok" ELSE "1xx"]
    ELSE c

\* The exchange is over, with a response of the upstream or without.
Over(c, pc, end) ==
  [c EXCEPT !.pc = pc, !.end = end, !.dialled = NoTarget]

\* Transport.RoundTrip: an error, or a response after an optional 1xx.
RoundTrip(r) ==
  /\ req[r].pc = "trip"
  /\ \/ Goes(r, [req[r] EXCEPT !.pc = "failed"])
     \/ /\ req[r].dialled # NoTarget
        /\ req[r].captured = "none"
        /\ Goes(r, WriteHeader(req[r], "1xx"))
     \/ /\ req[r].dialled # NoTarget
        /\ \E s \in {"ok", "5xx"} : Goes(r, Over(WriteHeader(req[r], s), "copy", "answered"))
  /\ UNCHANGED Shared

\* ReverseProxy.handleUpgradeResponse, a 101 to a request that asked for another
\* protocol than WebSocket: the client's connection is hijacked through the
\* capturer, which writes the 101 past WriteHeader; or it breaks under the 101.  A
\* 101 that is refused, as the replay recorder's always is, fails the round trip.
SwitchProtocols(r) ==
  /\ req[r].pc = "trip"
  /\ req[r].dialled # NoTarget
  /\ req[r].origin = "client"
  /\ \/ Goes(r, Over([req[r] EXCEPT !.answer = "101"], "pipe", "answered"))
     \/ Goes(r, [req[r] EXCEPT !.pc = "hijacked"])
  /\ UNCHANGED Shared

\* The body is copied, or the copy fails and ReverseProxy panics with
\* ErrAbortHandler, which the replay dispatcher's context suppresses.
CopyBody(r) ==
  /\ req[r].pc = "copy"
  /\ \/ Goes(r, [req[r] EXCEPT !.pc = "report"])
     \/ /\ req[r].origin = "client"
        /\ Goes(r, Returned(req[r], "aborted"))
  /\ UNCHANGED Shared

\* ReverseProxy.ErrorHandler: an enabled rule of either mode, else 502.  It is
\* given the outbound request, whose path may have lost the route's prefix; of what
\* it writes to a hijacked connection nothing reaches the client.
OutboundPath(r) == IF req[r].dialled \in Strips THEN Stripped ELSE req[r].path

HandleError(r) ==
  LET rule == mocks[OutboundPath(r)]
      c == WriteHeader(req[r], IF rule = NoRule THEN "5xx" ELSE rule.status)
  IN
  /\ req[r].pc \in {"failed", "hijacked"}
  /\ Goes(r, Over([c EXCEPT !.answer = IF req[r].pc = "hijacked" THEN "none" ELSE @],
                  "report", IF rule = NoRule THEN "failed" ELSE "mocked"))
  /\ UNCHANGED Shared

\* responseCapturer.statusCode: reset sets 200, the first WriteHeader its code.
StatusCode(c) == IF c.captured = "none" THEN "ok" ELSE c.captured

\* The outcome is reported for the target of the first Match.
Report(r) ==
  /\ req[r].pc = "report"
  /\ IF StatusCode(req[r]) = "5xx" THEN Failure(req[r].route)
                                   ELSE Success(req[r].route)
  /\ Goes(r, Forgets(req[r], "emit"))
  /\ UNCHANGED <<routes, mocks>>

\* emitTraceEvent, and ServeHTTP returns.
NoReturn == "emit"
AfterEvent == "done"

EmitTraceEvent(r) ==
  /\ req[r].pc = "emit"
  /\ Goes(r, Returned([req[r] EXCEPT !.logged = StatusCode(req[r]), !.events = @ + 1], AfterEvent))
  /\ UNCHANGED Shared

\* The call answers with s and returns without a trace event.
Silent(c, s) == Returned([c EXCEPT !.answer = s], "done")

-------------------------------------------------------------------------------
\* handleForwardProxyHTTP: rebuild the request, one round trip, stream the body
\* to the end or to the first error.
Forward(r) ==
  /\ req[r].pc = "forward"
  /\ \/ BadURLs /\ Goes(r, Silent(req[r], "5xx"))
     \/ \E s \in {"101", "ok", "5xx"} : Goes(r, Answered(req[r], s))
  /\ UNCHANGED Shared

\* handleConnectTunnel: dial, then hijack the client's connection, which the
\* replay recorder does not support and which may fail.
ConnectDial(r) ==
  /\ req[r].pc = "dial"
  /\ \/ \E s \in {"ok", "5xx"} : Goes(r, Answered(req[r], s))
     \/ Goes(r, Silent(req[r], "5xx"))
     \/ /\ req[r].origin = "client"
        /\ Goes(r, [req[r] EXCEPT !.captured = "ok", !.answer = "ok", !.pc = "pipe"])
  /\ UNCHANGED Shared

\* proxyWebSocket: hijack first, then dial.
WebSocketDial(r) ==
  /\ req[r].pc = "wsdial"
  /\ \/ Goes(r, Silent(req[r], "5xx"))
     \/ /\ req[r].origin = "client"
        /\ \E c \in {Answered(req[r], "5xx"), [req[r] EXCEPT !.pc = "wsask"]} : Goes(r, c)
  /\ UNCHANGED Shared

\* The upstream handshake: the request cannot be written; the response cannot be
\* read or is not a 101; the 101 cannot be passed on; or the tunnel is up.
WebSocketHandshake(r) ==
  /\ req[r].pc = "wsask"
  /\ \/ Goes(r, Silent(req[r], "5xx"))
     \/ \E s \in {"1xx", "ok", "5xx"} : Goes(r, Answered(req[r], s))
     \/ Goes(r, Silent(req[r], "none"))
     \/ Goes(r, Forgets([req[r] EXCEPT !.captured = "101", !.answer = "101"], "pipe"))
  /\ UNCHANGED Shared

\* A tunnel or a switched connection ends: the session is over, and counted for the
\* target when it was the reverse proxy's.
PipeEnds(r) ==
  /\ req[r].pc = "pipe"
  /\ Goes(r, IF req[r].kind = "http" THEN [req[r] EXCEPT !.pc = "report"]
                                     ELSE Forgets(req[r], "emit"))
  /\ UNCHANGED Shared

Serve(r) ==
  \/ Accept(r) \/ MockAlways(r) \/ Match(r) \/ CheckBreaker(r) \/ BrokenFallback(r)
  \/ Rewrite(r) \/ RoundTrip(r) \/ SwitchProtocols(r) \/ CopyBody(r) \/ HandleError(r)
  \/ Report(r) \/ EmitTraceEvent(r) \/ Forward(r) \/ ConnectDial(r) \/ WebSocketDial(r)
  \/ WebSocketHandshake(r) \/ PipeEnds(r)

-------------------------------------------------------------------------------
\* The route of a path changes: a container comes or goes.
Reroute(p, t) ==
  /\ routes' = [routes EXCEPT ![p] = t]
  /\ UNCHANGED <<mocks, breakerVars, req>>

\* The mock rules change through the dashboard (SetRule, ToggleRule).
SetRule(p, rule) ==
  /\ mocks' = [mocks EXCEPT ![p] = rule]
  /\ UNCHANGED <<routes, breakerVars, req>>

\* The watcher's callback registers a mounted target, after the mount.
RegisterTarget(t) ==
  /\ \E p \in Path : routes[p] = t
  /\ Register(t)
  /\ UNCHANGED <<routes, mocks, req>>

\* The prober applies the answer of a registered target.
Probe(t) ==
  /\ t \in known
  /\ Success(t) \/ Failure(t)
  /\ UNCHANGED <<routes, mocks, req>>

Next ==
  \/ \E r \in Request : Serve(r)
  \/ \E p \in Path, t \in Target \cup {NoTarget} : Reroute(p, t)
  \/ \E p \in Path \cup {Stripped}, rule \in Rules \cup {NoRule} : SetRule(p, rule)
  \/ \E t \in Target : RegisterTarget(t) \/ Probe(t)

Spec == Init /\ [][Next]_vars
-------------------------------------------------------------------------------
TypeOK ==
  /\ routes \in [Path -> Target \cup {NoTarget}]
  /\ mocks \in [Path \cup {Stripped} -> Rule \cup {NoRule}]
  /\ known \subseteq Target
  /\ streak \in [Target -> 0 .. Threshold]
  /\ open \in [Target -> BOOLEAN]
  /\ req \in [Request -> [pc : Places, kind : Kinds, origin : Origins, path : Path,
                          route : Target \cup {NoTarget}, dialled : Target \cup {NoTarget},
                          broken : BOOLEAN, end : Ends, captured : Statuses,
                          answer : Statuses, logged : Statuses, events : 0 .. 1]]

\* The trace log tells what the client saw: a call that has returned left one event
\* with the status the client got, whichever of its paths it took.  The code departs
\* from this in the ways named here and in no other:
\*   - a reverse-proxied call logs an informational response for the final one, logs
\*     200 for a 101 that the client got through Hijack, and logs the answer it could
\*     not write to a hijacked connection;
\*   - without an event stay a body whose copy broke off, a forwarded URL that does
\*     not parse again, and a tunnel that could not be set up
\* (engine.go:364-400, 427-437, 553-570, 605-615, 693-697, 739-770, 817-823).
EventTellsTheAnswer ==
  \A r \in Request :
    LET c == req[r] IN
    /\ c.pc = "done" /\ c.events = 1 =>
         \/ c.logged = c.answer
         \/ /\ c.kind = "http"
            /\ \/ c.logged = "1xx" /\ c.answer \in {"ok", "101"}
               \/ c.logged = "ok" /\ c.answer = "101"
               \/ c.answer = "none"
    /\ c.pc = "done" /\ c.events = 0 =>
         \/ c.kind = "forward" /\ BadURLs
         \/ c.kind \in {"ws", "connect"} /\ c.answer \in {"5xx", "none"}
    /\ c.pc = "aborted" => c.kind = "http" /\ c.events = 0

\* Of the calls, only one that the reverse proxy served changes the health of a
\* target: at its report, the target its path was matched with first, to a failure
\* exactly when the status it logs is a 5xx.  A mock before the proxy, a tunnel or
\* the 503 of a broken circuit never counts; and while the breaker is enforced only
\* a call that found this breaker closed does, so that an open breaker waits for the
\* prober or for calls admitted before it opened (engine.go:288-335, 366-375).
OnlyAdmittedRequestsCount ==
  [][\A t \in Target :
       <<streak[t], open[t]>>' # <<streak[t], open[t]>> =>
         \/ \A r \in Request : UNCHANGED req[r]
         \/ \E r \in Request :
              /\ req[r].pc = "report" /\ req'[r].pc = "emit"
              /\ req[r].kind = "http" /\ req[r].route = t
              /\ Enforce => ~req[r].broken
              /\ (streak'[t] > 0) <=> (StatusCode(req'[r]) = "5xx")]_vars

-------------------------------------------------------------------------------
(* What the repository says of the proxy, and the code does not keep. *)

\* "Every accepted request produces exactly one terminal telemetry event"
\* (pkg/proxy/invariants_test.go:23): ServeHTTP returns without one from a failed
\* hijack, a failed handshake and a body copy that breaks off.
ExactlyOneTerminalEvent ==
  \A r \in Request : req[r].pc \in {"done", "aborted"} => req[r].events = 1

\* "RecordSuccess registers a successful response from an upstream target"
\* (pkg/proxy/health.go:127): the status that decides is what the client was told,
\* also by a mock rule that stands in for a round trip that failed (engine.go:369-374).
SuccessIsAResponse ==
  \A r \in Request :
    req[r].pc = "report" /\ StatusCode(req[r]) # "5xx" => req[r].end = "answered"
===============================================================================

--------------------------------- MODULE Replay ---------------------------------
(***************************************************************************)
(* How one trace runs through DevHub: the calls of clients and of the       *)
(* services behind the proxy, the context pkg/proxy/engine.go reads from    *)
(* and writes into their headers, the events recorded with them, and the    *)
(* replays of pkg/proxy/replay.go, which send a recorded request again,     *)
(* signed anew if wanted.                                                   *)
(*                                                                          *)
(* Steps: a call up to the point where its upstream has the headers, except *)
(* that Rewrite and the second look at the clock of a re-signed replay are  *)
(* steps of their own; the event.                                           *)
(*                                                                          *)
(* Abstracted: bodies, answers and which way a call takes, which is free:   *)
(* "ingress" (ReverseProxy), "forward" (HTTP_PROXY), "ws" (the handshake is *)
(* passed on as it came) or "local" (a mock rule, no route or an open       *)
(* breaker answers).  The bytes inside a CONNECT tunnel carry no context.   *)
(* The process may restart, which empties the ring and starts the span      *)
(* counter again, while services and clients live on.                       *)
(***************************************************************************)
EXTENDS TraceContext, Webhook, Sequences

CONSTANTS
  ClientHeaders,  \* the headers a client outside the system sends
  Providers,      \* the providers the user of the dashboard chooses from
  MaxCalls,       \* bound: calls of a behaviour, replays included
  MaxRestarts,    \* bound: restarts of the process
  MaxTime         \* bound: seconds of the clock

VARIABLES
  spanSeq,   \* tracing.spanSeq
  traceSeq,  \* ids generated so far; a random half keeps them apart for good
  life,      \* how often the process was restarted
  now,       \* the clock in seconds
  calls,     \* the calls so far, in the order they came
  ring       \* the calls whose event the ring holds

vars == <<spanSeq, traceSeq, life, now, calls, ring>>

NoCause == 0
NoTrace == <<"none", 0>>

Names == {CanonicalKey[n] : n \in DOMAIN CanonicalKey}
           \cup SignatureKeys \cup {SlackTimestamp, SignatureHeader["generic_sha256"]}

\* The trace ids in the headers h.
TracesIn(h) ==
  {Get(h, n) : n \in {m \in {"X-DevHub-Trace-ID"} : Has(h, m)}}
    \cup {Get(h, n).trace : n \in {m \in {"traceparent"} : Has(h, m)}}

\* A client outside may send any spans, those drawn here among them.
ASSUME ReplayAssumption ==
  /\ {MaxCalls, MaxRestarts, MaxTime} \subseteq Nat
  /\ \A h \in ClientHeaders : DOMAIN h \subseteq Names /\ NoTrace \notin TracesIn(h)

Ways == {"ingress", "forward", "ws", "local"}
StampingWays == {"ingress", "forward"}

\* What a service passes on of the headers it got.
Propagated ==
  LET devhub == {CanonicalKey[n] : n \in DOMAIN CanonicalKey \ {"traceparent"}}
      w3c == {CanonicalKey["traceparent"]} IN
  {devhub, w3c, devhub \cup w3c, {CanonicalKey["X-DevHub-Trace-ID"]}}

Kept(h, names) == [n \in DOMAIN h \cap names |-> h[n]]

Init ==
  /\ spanSeq = 0
  /\ traceSeq = 0
  /\ life = 0
  /\ now = 0
  /\ calls = << >>
  /\ ring = {}

-------------------------------------------------------------------------------
(* ServeHTTP and handleForwardProxyHTTP. *)

Extracted(h) == ExtractOrGenerateContext(h, spanSeq + 1, <<"full", traceSeq + 1>>)

\* The call with headers h, after its way's first steps.  Only a proxied call is
\* stamped, and records the stamped headers.
Received(way, h, origin) ==
  LET c == Extracted(h)
      head == IF way \in StampingWays THEN Stamped(h, c) ELSE h IN
  [origin EXCEPT !.pc = IF way = "ingress" THEN "rewrite" ELSE "open",
                 !.way = way, !.head = head, !.trace = c.trace,
                 !.reached = way \in {"forward", "ws"}, !.out = head]

\* Each call draws a span id, and a trace id when it brings none.
Drawn(h) ==
  /\ spanSeq' = spanSeq + 1
  /\ traceSeq' = IF Generates(h) THEN traceSeq + 1 ELSE traceSeq

\* A call before it is served: where it comes from, and what is to be known of it.
Origin(cause) ==
  [cause |-> cause,     \* the call that caused it
   line |-> IF cause = NoCause THEN {} ELSE calls[cause].line \cup {cause},
   life |-> life,
   signer |-> "none",   \* who signed a replay
   reply |-> NoTrace,   \* the trace a replay answers with
   pc |-> "signing",
   way |-> "ingress",
   head |-> << >>,      \* req.Header, as the event records it
   trace |-> NoTrace,   \* the event's TraceID
   reached |-> FALSE,
   out |-> << >>]       \* what its upstream got, once reached

Arrives(h, cause) ==
  /\ Len(calls) < MaxCalls
  /\ \E way \in Ways : calls' = Append(calls, Received(way, h, Origin(cause)))
  /\ Drawn(h)
  /\ UNCHANGED <<life, now, ring>>

ClientCall == \E h \in ClientHeaders : Arrives(h, NoCause)

\* A service calls another through DevHub while or after it answers call i.
ServiceCall(i) ==
  /\ calls[i].reached
  /\ \E names \in Propagated : Arrives(Kept(calls[i].out, names), i)

\* Rewrite reads the context again, from the headers stamped before: the upstream
\* gets a span of its own.  Nothing is sent when the route has gone meanwhile.
StampedAgain(h) == Stamped(h, Extracted(h))

Rewrite(i) ==
  /\ calls[i].pc = "rewrite"
  /\ \/ /\ calls' = [calls EXCEPT ![i].pc = "open", ![i].reached = TRUE,
                                  ![i].out = StampedAgain(calls[i].head)]
        /\ Drawn(calls[i].head)
     \/ /\ calls' = [calls EXCEPT ![i].pc = "open"]
        /\ UNCHANGED <<spanSeq, traceSeq>>
  /\ UNCHANGED <<life, now, ring>>

Emit(i) ==
  /\ calls[i].pc = "open"
  /\ calls' = [calls EXCEPT ![i].pc = "done"]
  /\ ring' = ring \cup {i}
  /\ UNCHANGED <<spanSeq, traceSeq, life, now>>

-------------------------------------------------------------------------------
(* ReplayDispatcher.Execute on the recorded request of call i. *)

Requests ==
  [bypass : BOOLEAN, provider : Providers \cup {""}, secret : BOOLEAN]

\* Who signs: the provider asked for, else one detected, if there is a secret.
Signers(request, h) ==
  LET detected == DetectProvider(h) IN
  CASE request.bypass -> {"bypass"}
    [] ~request.bypass /\ ~request.secret -> {"none"}
    [] ~request.bypass /\ request.secret /\ request.provider # "" -> {request.provider}
    [] OTHER -> IF detected = {} THEN {"none"} ELSE detected

SignedBy(h, signer) ==
  CASE signer = "bypass" -> BypassHeaders(h)
    [] signer = "none" -> h
    [] OTHER -> ResignHeaders(h, signer, now)

ReplaySigns(i) ==
  /\ i \in ring
  /\ Len(calls) < MaxCalls
  /\ \E request \in Requests : \E signer \in Signers(request, calls[i].head) :
       LET h == SignedBy(calls[i].head, signer) IN
       calls' = Append(calls, [Origin(i) EXCEPT !.signer = signer, !.head = h, !.out = h])
  /\ UNCHANGED <<spanSeq, traceSeq, life, now, ring>>

\* Without a trace header the replay makes an id of 16 characters (fastTraceID, whose
\* counter is the process's own) and answers with it; then ServeHTTP.  The recorder
\* cannot be hijacked, so no "ws".
ReplayServes(i) ==
  LET r == calls[i]
      timed == TimestampHeader(r.head, r.signer, now)
      reply == IF Has(timed, "X-DevHub-Trace-ID") THEN Get(timed, "X-DevHub-Trace-ID")
                                                  ELSE <<"short", i>>
      h == With(timed, "X-DevHub-Trace-ID", reply) IN
  /\ r.pc = "signing"
  /\ \E way \in Ways \ {"ws"} : calls' = [calls EXCEPT ![i] = Received(way, h, [r EXCEPT !.reply = reply])]
  /\ Drawn(h)
  /\ UNCHANGED <<life, now, ring>>

-------------------------------------------------------------------------------
(* The clock and the process. *)

Tick ==
  /\ now < MaxTime
  /\ now' = now + 1
  /\ UNCHANGED <<spanSeq, traceSeq, life, calls, ring>>

\* Requests in progress end without an event; what the upstreams got, they have.
Restart ==
  /\ life < MaxRestarts
  /\ life' = life + 1
  /\ spanSeq' = 0
  /\ ring' = {}
  /\ calls' = [i \in DOMAIN calls |-> IF calls[i].pc = "done" THEN calls[i]
                                       ELSE [calls[i] EXCEPT !.pc = "lost"]]
  /\ UNCHANGED <<traceSeq, now>>

Next ==
  \/ ClientCall
  \/ \E i \in DOMAIN calls :
       ServiceCall(i) \/ Rewrite(i) \/ Emit(i) \/ ReplaySigns(i) \/ ReplayServes(i)
  \/ Tick \/ Restart

Spec == Init /\ [][Next]_vars

-------------------------------------------------------------------------------
TypeOK ==
  /\ spanSeq \in 0 .. 2 * MaxCalls
  /\ traceSeq \in 0 .. MaxCalls
  /\ life \in 0 .. MaxRestarts /\ now \in 0 .. MaxTime
  /\ Len(calls) <= MaxCalls
  /\ ring \subseteq {i \in DOMAIN calls : calls[i].pc = "done"}
  /\ \A i \in DOMAIN calls :
       /\ calls[i].pc \in {"signing", "rewrite", "open", "done", "lost"}
       /\ calls[i].way \in Ways
       /\ DOMAIN calls[i].head \subseteq Names /\ DOMAIN calls[i].out \subseteq Names
       /\ calls[i].line \subseteq 1 .. i - 1 /\ calls[i].cause \in {NoCause} \cup calls[i].line
       /\ calls[i].life \in 0 .. life

Served == {i \in DOMAIN calls : calls[i].trace # NoTrace}
Stamping == {i \in Served : calls[i].way \in StampingWays}
Replays == {i \in Served : calls[i].reply # NoTrace}

\* A service that passes on any one part of the context it got through DevHub, and a
\* replay of what DevHub stamped, stay in the trace of the call that caused them,
\* whatever the client sent to begin with, and across restarts (context.go:74-102,
\* with engine.go:338-344 and 164-170 in between); the replay's answer names that
\* trace too (replay.go:96-125).
OneTrace ==
  \A i \in Served : calls[i].cause \in Stamping =>
    /\ calls[i].trace = calls[calls[i].cause].trace
    /\ i \in Replays => calls[i].reply = calls[i].trace

\* An event that stamped calls led to names as its parent a span of the last of them,
\* if any, and no other event of that one's process records this span: no interleaving
\* of the counters, second extraction, restart, or header an upstream passed on makes a
\* parent of a sibling or of a call further up, whatever spans clients outside send
\* (engine.go:338-344, context.go:33).
SpanOf(h) == Get(h, "X-DevHub-Span-ID")
ParentSpanOf(h) == Get(h, "X-DevHub-Parent-Span-ID")

ParentIsTheCaller ==
  \A j \in Stamping : \A k \in calls[j].line \cap Stamping :
    /\ calls[j].line \cap Stamping \subseteq 1 .. k
    /\ Has(calls[j].head, "X-DevHub-Parent-Span-ID")
    => /\ ParentSpanOf(calls[j].head) \in {SpanOf(calls[k].head), SpanOf(calls[k].out)}
       /\ \A i \in Stamping :
            calls[i].life = calls[k].life /\ SpanOf(calls[i].head) = ParentSpanOf(calls[j].head)
              => i = k

\* A replay that DevHub signs carries its new signature, and Slack's timestamp is not
\* one that was recorded: it is of the second of the signature or later, though it may
\* be later, as the clock is read twice (signer.go:87-96).  A bypassed one carries no
\* recorded signature of a provider that is detected (replay.go:61-79).
SignedAnew ==
  \A i \in Replays :
    LET h == calls[i].head
        p == calls[i].signer IN
    /\ p \in Supported =>
         /\ h[SignatureHeader[p]].by = "devhub" /\ h[SignatureHeader[p]].provider = p
         /\ p = "slack" => h[SlackTimestamp] \in h[SignatureHeader[p]].at .. now
    /\ p = "bypass" => DetectProvider(h) = {}

\* What /api/waterfall shows: an event whose recorded parent is the recorded span of
\* another event of its trace is not a root ("Find parent by SpanID", waterfall.go:63).
Event(i) == [id |-> i, trace |-> calls[i].trace, headers |-> calls[i].head]

CausalHierarchy ==
  \A i, j \in ring \cap Stamping :
    /\ calls[i].trace = calls[j].trace
    /\ Has(calls[j].head, "X-DevHub-Parent-Span-ID")
    /\ ParentSpanOf(calls[j].head) = SpanOf(calls[i].head)
    => BuildWaterfall({Event(k) : k \in ring}, calls[i].trace)[Event(j)] # {}
===============================================================================

----------------------------- MODULE ReplayProofs -----------------------------
(***************************************************************************)
(* One trace through DevHub: the invariant of Replay.tla behind its four    *)
(* properties, and the proof that every action keeps it.                    *)
(*                                                                          *)
(* None of the properties is inductive.  OneTrace needs to know that the    *)
(* headers of a stamped call lead to its trace whichever part of them is    *)
(* passed on (AllTraced).  ParentIsTheCaller needs to know of the headers   *)
(* of every call that the spans in them are of the last stamped call before *)
(* it, through headers that services kept and replays copied, and that no   *)
(* two calls of one life drew the same (Spans).                             *)
(* SignedAnew needs the second of the signature from before the call was    *)
(* served (AllSigned).  The bound on the span counter needs what the calls  *)
(* still to be served and to be rewritten will draw (Counted).              *)
(*                                                                          *)
(* The parts: Shape, the sequence of calls and their places; Phases, what   *)
(* a place says of a call; then those four.                                 *)
(***************************************************************************)
EXTENDS Replay, SequenceTheorems, FiniteSetTheorems, TLAPS

Fields == {"cause", "line", "life", "signer", "reply", "pc", "way", "head", "trace",
           "reached", "out"}

\* A call that was served has its trace; a stamped one writes it into its headers.
IsServed(r) == r.trace # NoTrace
IsStamped(r) == IsServed(r) /\ r.way \in StampingWays

-------------------------------------------------------------------------------
\* Call r, the i-th, in life lf of the process.
CallTyped(r, i, lf) ==
  /\ DOMAIN r = Fields
  /\ r.pc \in {"signing", "rewrite", "open", "done", "lost"}
  /\ r.way \in Ways
  /\ r.line \subseteq 1 .. i - 1
  /\ r.cause \in {NoCause} \cup r.line
  /\ r.life \in 0 .. lf

Shape ==
  /\ life \in 0 .. MaxRestarts /\ now \in 0 .. MaxTime
  /\ Len(calls) \in 0 .. MaxCalls /\ calls = [i \in 1 .. Len(calls) |-> calls[i]]
  /\ \A i \in 1 .. Len(calls) : CallTyped(calls[i], i, life)
  /\ ring \subseteq {i \in 1 .. Len(calls) : calls[i].pc = "done"}

\* What its place in the handler says of a call.
Phase(r, lf) ==
  /\ r.pc \in {"signing", "rewrite", "open"} => r.life = lf
  /\ r.pc = "signing" => ~IsServed(r)
  /\ ~IsServed(r) => r.pc \in {"signing", "lost"} /\ ~r.reached /\ r.reply = NoTrace
  /\ r.pc = "rewrite" => IsStamped(r) /\ r.out = r.head

Proper(h) == DOMAIN h \subseteq Names /\ NoTrace \notin TracesIn(h)

Phases ==
  \A i \in 1 .. Len(calls) :
    Phase(calls[i], life) /\ Proper(calls[i].head) /\ Proper(calls[i].out)

-------------------------------------------------------------------------------
\* The counters.
At(pc) == {i \in 1 .. Len(calls) : calls[i].pc = pc}

Counted ==
  /\ spanSeq \in Nat /\ traceSeq \in 0 .. Len(calls)
  /\ spanSeq + 2 * Cardinality(At("signing")) + Cardinality(At("rewrite")) <= 2 * Len(calls)

-------------------------------------------------------------------------------
\* Headers h lead to trace t, and both of their parts do.
LeadsTo(h, t) == /\ t[1] \notin {"short", "long"}
                 /\ TracesIn(h) = {t}
BothLeadTo(h, t) == LeadsTo(h, t) /\ Has(h, "X-DevHub-Trace-ID") /\ Has(h, "traceparent")

Traced(cs, i) ==
  LET r == cs[i] IN
  /\ r.cause # NoCause => IsServed(cs[r.cause])
  /\ IsStamped(r) => BothLeadTo(r.head, r.trace) /\ BothLeadTo(r.out, r.trace)
  /\ r.cause # NoCause /\ IsStamped(cs[r.cause]) =>
       IF IsServed(r) THEN /\ r.trace = cs[r.cause].trace
                           /\ r.reply # NoTrace => r.reply = r.trace
                      ELSE BothLeadTo(r.head, cs[r.cause].trace)

AllTraced == \A i \in 1 .. Len(calls) : Traced(calls, i)

-------------------------------------------------------------------------------
\* The spans call r drew, as its headers keep them.
SpansOf(r) == {Get(r.head, "X-DevHub-Span-ID"), Get(r.out, "X-DevHub-Span-ID")}

\* Drawn by one process.
Drawable == 1 .. 2 * MaxCalls

\* Whoever reads headers h takes one of the spans S for its caller's, or none.
From(h, S) ==
  /\ Has(h, "traceparent") => Get(h, "traceparent").span \in S
  /\ Has(h, "X-DevHub-Span-ID") => Get(h, "X-DevHub-Span-ID") \in S
  /\ Has(h, "X-DevHub-Parent-Span-ID") => Has(h, "X-DevHub-Span-ID")

\* The last stamped call of the calls L; and headers that are from it, if there is one.
Last(cs, L, k) == k \in L /\ IsStamped(cs[k]) /\ \A m \in L : IsStamped(cs[m]) => m <= k
FromLast(cs, h, L) == \A k \in L : Last(cs, L, k) => From(h, SpansOf(cs[k]))

OwnHeaders(cs, i) ==
  LET r == cs[i] IN
  /\ \A k \in r.line : IsServed(cs[k])
  /\ FromLast(cs, r.head, r.line \cup {i}) /\ FromLast(cs, r.out, r.line \cup {i})
  /\ IsStamped(r) /\ Has(r.head, "X-DevHub-Parent-Span-ID") =>
       \A k \in r.line : Last(cs, r.line, k) =>
         Get(r.head, "X-DevHub-Parent-Span-ID") \in SpansOf(cs[k])

Spans ==
  /\ \A i \in 1 .. Len(calls) :
       /\ OwnHeaders(calls, i)
       /\ IsStamped(calls[i]) => /\ SpansOf(calls[i]) \subseteq Drawable
                                 /\ Has(calls[i].head, "X-DevHub-Span-ID")
                                 /\ calls[i].life = life => SpansOf(calls[i]) \subseteq 1 .. spanSeq
  /\ \A i, j \in 1 .. Len(calls) :
       IsStamped(calls[i]) /\ IsStamped(calls[j]) /\ calls[i].life = calls[j].life /\ i # j =>
         SpansOf(calls[i]) \cap SpansOf(calls[j]) = {}

-------------------------------------------------------------------------------
\* What the headers of a replay say of its signer, at time t.
SignedBefore(r, t) ==
  /\ r.signer \in Supported =>
       LET key == SignatureHeader[r.signer] IN
       /\ key \in DOMAIN r.head
       /\ r.head[key].by = "devhub" /\ r.head[key].provider = r.signer
       /\ r.signer = "slack" => /\ r.head[key].at \in 0 .. t
                                /\ IsServed(r) => /\ SlackTimestamp \in DOMAIN r.head
                                                  /\ r.head[SlackTimestamp] \in r.head[key].at .. t
  /\ r.signer = "bypass" => DetectProvider(r.head) = {}

AllSigned == \A i \in 1 .. Len(calls) : SignedBefore(calls[i], now)

Inv == Shape /\ Phases /\ Counted /\ AllTraced /\ Spans /\ AllSigned

-------------------------------------------------------------------------------
(* Headers. *)

LEMMA Keys ==
  /\ CanonicalKey["traceparent"] = "Traceparent"
  /\ CanonicalKey["X-DevHub-Trace-ID"] = "X-Devhub-Trace-Id"
  /\ CanonicalKey["X-DevHub-Span-ID"] = "X-Devhub-Span-Id"
  /\ CanonicalKey["X-DevHub-Parent-Span-ID"] = "X-Devhub-Parent-Span-Id"
  /\ DOMAIN CanonicalKey = {"traceparent", "X-DevHub-Trace-ID", "X-DevHub-Span-ID",
                            "X-DevHub-Parent-Span-ID"}
BY DEF CanonicalKey

ContextKeys ==
  {"Traceparent", "X-Devhub-Trace-Id", "X-Devhub-Span-Id", "X-Devhub-Parent-Span-Id"}

LEMMA SignatureNames ==
  /\ SignatureHeader["stripe"] = "Stripe-Signature"
  /\ SignatureHeader["github"] = "X-Hub-Signature-256"
  /\ SignatureHeader["razorpay"] = "X-Razorpay-Signature"
  /\ SignatureHeader["shopify"] = "X-Shopify-Hmac-Sha256"
  /\ SignatureHeader["slack"] = "X-Slack-Signature"
  /\ SignatureHeader["generic_sha256"] = "X-Signature-256"
  /\ Supported = {"stripe", "github", "razorpay", "shopify", "slack", "generic_sha256"}
  /\ SlackTimestamp = "X-Slack-Request-Timestamp"
BY DEF SignatureHeader, Supported, SlackTimestamp

\* No signature, nor its timestamp, is kept where the context is.
LEMMA KeysApart ==
  /\ Names = ContextKeys \cup SignatureKeys \cup {SlackTimestamp, SignatureHeader["generic_sha256"]}
  /\ ContextKeys \cap SignatureKeys = {} /\ SlackTimestamp \notin ContextKeys \cup SignatureKeys
  /\ \A p \in Supported : /\ SignatureHeader[p] \in Names \ ContextKeys
                          /\ SignatureHeader[p] # SlackTimestamp
<1>1. SignatureKeys = {"Stripe-Signature", "X-Hub-Signature-256", "X-Razorpay-Signature",
                       "X-Shopify-Hmac-Sha256", "X-Slack-Signature", "X-Hub-Signature"}
  BY SignatureNames DEF SignatureKeys
<1>2. {CanonicalKey[n] : n \in DOMAIN CanonicalKey} = ContextKeys
  BY Keys DEF ContextKeys
<1>3. Names = ContextKeys \cup SignatureKeys \cup {SlackTimestamp, SignatureHeader["generic_sha256"]}
  BY <1>2 DEF Names
<1>4. ContextKeys \cap SignatureKeys = {} /\ SlackTimestamp \notin ContextKeys \cup SignatureKeys
  BY <1>1, SignatureNames DEF ContextKeys
<1>5. ASSUME NEW p \in Supported
      PROVE  SignatureHeader[p] \in Names \ ContextKeys /\ SignatureHeader[p] # SlackTimestamp
  BY <1>1, <1>3, SignatureNames DEF ContextKeys
<1> QED BY <1>3, <1>4, <1>5

LEMMA TracesInIs ==
  ASSUME NEW h, NEW t
  PROVE  t \in TracesIn(h) <=>
           \/ "X-Devhub-Trace-Id" \in DOMAIN h /\ t = h["X-Devhub-Trace-Id"]
           \/ "Traceparent" \in DOMAIN h /\ t = h["Traceparent"].trace
BY Keys DEF TracesIn, Has, Get

LEMMA FromIs ==
  ASSUME NEW h, NEW S
  PROVE  From(h, S) <=>
           /\ "Traceparent" \in DOMAIN h => h["Traceparent"].span \in S
           /\ "X-Devhub-Span-Id" \in DOMAIN h => h["X-Devhub-Span-Id"] \in S
           /\ "X-Devhub-Parent-Span-Id" \in DOMAIN h => "X-Devhub-Span-Id" \in DOMAIN h
BY Keys DEF From, Has, Get

LEMMA StampedDomain ==
  ASSUME NEW h, NEW c, NEW x, x = Stamped(h, c)
  PROVE  DOMAIN x = DOMAIN h \cup {"Traceparent", "X-Devhub-Trace-Id", "X-Devhub-Span-Id"}
                      \cup (IF c.parent = NoSpan THEN {} ELSE {"X-Devhub-Parent-Span-Id"})
BY Keys DEF Stamped, With

\* What the engine writes, and what it leaves.
LEMMA StampedIs ==
  ASSUME NEW h, NEW c, NEW x, x = Stamped(h, c)
  PROVE  /\ x["Traceparent"].trace = c.trace /\ x["Traceparent"].span = c.span
         /\ x["X-Devhub-Trace-Id"] = c.trace
         /\ x["X-Devhub-Span-Id"] = c.span
         /\ c.parent # NoSpan => x["X-Devhub-Parent-Span-Id"] = c.parent
         /\ \A k \in DOMAIN h \ ContextKeys : x[k] = h[k]
         /\ c.parent = NoSpan /\ "X-Devhub-Parent-Span-Id" \in DOMAIN h =>
              x["X-Devhub-Parent-Span-Id"] = h["X-Devhub-Parent-Span-Id"]
<1> DEFINE tp == [trace |-> c.trace, span |-> c.span]
           h1 == [k \in DOMAIN h \cup {"Traceparent"} |-> IF k = "Traceparent" THEN tp ELSE h[k]]
           h2 == [k \in DOMAIN h1 \cup {"X-Devhub-Trace-Id"} |->
                    IF k = "X-Devhub-Trace-Id" THEN c.trace ELSE h1[k]]
           h3 == [k \in DOMAIN h2 \cup {"X-Devhub-Span-Id"} |->
                    IF k = "X-Devhub-Span-Id" THEN c.span ELSE h2[k]]
           h4 == [k \in DOMAIN h3 \cup {"X-Devhub-Parent-Span-Id"} |->
                    IF k = "X-Devhub-Parent-Span-Id" THEN c.parent ELSE h3[k]]
<1>1. x = IF c.parent = NoSpan THEN h3 ELSE h4
  BY Keys DEF Stamped, With, FormatTraceparent
<1> HIDE DEF tp
<1>2. /\ DOMAIN h3 = DOMAIN h \cup {"Traceparent", "X-Devhub-Trace-Id", "X-Devhub-Span-Id"}
      /\ h3["Traceparent"] = tp
      /\ h3["X-Devhub-Trace-Id"] = c.trace
      /\ h3["X-Devhub-Span-Id"] = c.span
      /\ \A k \in DOMAIN h \ {"Traceparent", "X-Devhub-Trace-Id", "X-Devhub-Span-Id"} : h3[k] = h[k]
  OBVIOUS
<1> HIDE DEF h3
<1>3. CASE c.parent = NoSpan
  BY <1>1, <1>2, <1>3 DEF tp, ContextKeys
<1>4. CASE c.parent # NoSpan
  BY <1>1, <1>2, <1>4 DEF tp, ContextKeys
<1> QED BY <1>3, <1>4

\* The caller's span that is read from headers; if none is, they name no older one either.
LEMMA ParentIs ==
  ASSUME NEW h, NEW S, NoSpan \notin S, From(h, S)
  PROVE  /\ ParentSpanID(h) \in S \cup {NoSpan}
         /\ ParentSpanID(h) = NoSpan => "X-Devhub-Parent-Span-Id" \notin DOMAIN h
BY FromIs, Keys DEF ParentSpanID, W3C, Has, Get

\* The trace of a call: one that its headers lead to, or else one that is never cut.
LEMMA TraceIs ==
  ASSUME NEW h, NEW n, NoTrace \notin TracesIn(h)
  PROVE  /\ TraceID(h, <<"full", n>>)[1] \notin {"short", "long"}
         /\ TraceID(h, <<"full", n>>) # NoTrace
<1> DEFINE fresh == <<"full", n>>
<1>1. fresh[1] = "full" /\ fresh # NoTrace
  BY DEF NoTrace
<1>2. CASE W3C(h)
  BY <1>2, TracesInIs, Keys DEF TraceID, W3C, Parses, Has, Get
<1>3. CASE ~W3C(h) /\ Generates(h)
  BY <1>1, <1>3 DEF TraceID
<1>4. CASE ~W3C(h) /\ ~Generates(h)
  <2> DEFINE id == Get(h, "X-DevHub-Trace-ID")
  <2>1. TraceID(h, fresh) = FullLength(id) /\ id # NoTrace
    BY <1>4, TracesInIs, Keys DEF TraceID, Generates, Has, Get
  <2> HIDE DEF id, fresh
  <2>2. CASE id[1] = "short"
    BY <2>1, <2>2 DEF FullLength, NoTrace, fresh
  <2>3. CASE id[1] = "long"
    BY <2>1, <2>3 DEF FullLength, NoTrace, fresh
  <2>4. CASE id[1] # "short" /\ id[1] # "long"
    BY <2>1, <2>4 DEF FullLength, fresh
  <2> QED BY <2>2, <2>3, <2>4
<1> QED BY <1>2, <1>3, <1>4

LEMMA TraceLeadsTo ==
  ASSUME NEW h, NEW t, NEW fresh, LeadsTo(h, t)
  PROVE  TraceID(h, fresh) = t /\ ~Generates(h)
<1>1. /\ t[1] # "short" /\ t[1] # "long"
      /\ Has(h, "X-DevHub-Trace-ID") => Get(h, "X-DevHub-Trace-ID") = t
      /\ Has(h, "traceparent") => Get(h, "traceparent").trace = t
      /\ Has(h, "X-DevHub-Trace-ID") \/ Has(h, "traceparent")
  <2>1. /\ "X-Devhub-Trace-Id" \in DOMAIN h => h["X-Devhub-Trace-Id"] = t
        /\ "Traceparent" \in DOMAIN h => h["Traceparent"].trace = t
        /\ "X-Devhub-Trace-Id" \in DOMAIN h \/ "Traceparent" \in DOMAIN h
    BY TracesInIs DEF LeadsTo
  <2> QED BY <2>1, Keys DEF LeadsTo, Has, Get
<1>2. FullLength(t) = t
  BY <1>1 DEF FullLength
<1>3. CASE W3C(h)
  BY <1>1, <1>3 DEF TraceID, W3C, Generates
<1>4. CASE ~W3C(h)
  <2>1. Has(h, "X-DevHub-Trace-ID") /\ ~Generates(h)
    BY <1>1, <1>4 DEF W3C, Parses, Generates
  <2> QED BY <1>1, <1>2, <1>4, <2>1 DEF TraceID
<1> QED BY <1>3, <1>4

\* The headers a call stamps lead to its trace and bear its span.
LEMMA StampedContext ==
  ASSUME NEW h, NEW c, NEW x, x = Stamped(h, c), DOMAIN h \subseteq Names,
         c.trace[1] \notin {"short", "long"}
  PROVE  /\ DOMAIN x \subseteq Names
         /\ BothLeadTo(x, c.trace)
         /\ Has(x, "X-DevHub-Span-ID") /\ Get(x, "X-DevHub-Span-ID") = c.span
         /\ \A k \in DOMAIN h \ ContextKeys : k \in DOMAIN x /\ x[k] = h[k]
<1>1. /\ DOMAIN x = DOMAIN h \cup {"Traceparent", "X-Devhub-Trace-Id", "X-Devhub-Span-Id"}
                      \cup (IF c.parent = NoSpan THEN {} ELSE {"X-Devhub-Parent-Span-Id"})
      /\ x["Traceparent"].trace = c.trace /\ x["Traceparent"].span = c.span
      /\ x["X-Devhub-Trace-Id"] = c.trace /\ x["X-Devhub-Span-Id"] = c.span
      /\ \A k \in DOMAIN h \ ContextKeys : x[k] = h[k]
      /\ c.parent # NoSpan => x["X-Devhub-Parent-Span-Id"] = c.parent
      /\ c.parent = NoSpan /\ "X-Devhub-Parent-Span-Id" \in DOMAIN h =>
           x["X-Devhub-Parent-Span-Id"] = h["X-Devhub-Parent-Span-Id"]
  <2>1. DOMAIN x = DOMAIN h \cup {"Traceparent", "X-Devhub-Trace-Id", "X-Devhub-Span-Id"}
                      \cup (IF c.parent = NoSpan THEN {} ELSE {"X-Devhub-Parent-Span-Id"})
    BY StampedDomain
  <2> QED BY <2>1, StampedIs
<1>2. DOMAIN x \subseteq Names
  BY <1>1, KeysApart DEF ContextKeys
<1>3. TracesIn(x) = {c.trace}
  BY <1>1, TracesInIs
<1>4. Has(x, "X-DevHub-Trace-ID") /\ Has(x, "traceparent") /\ Has(x, "X-DevHub-Span-ID")
      /\ Get(x, "X-DevHub-Span-ID") = c.span
  BY <1>1, Keys DEF Has, Get
<1> QED BY <1>1, <1>2, <1>3, <1>4 DEF BothLeadTo, LeadsTo

\* Who reads them takes that span for its caller's; their parent is the one read before.
LEMMA StampedSpans ==
  ASSUME NEW h, NEW c, NEW x, x = Stamped(h, c), NEW S
  PROVE  /\ c.span \in S => From(x, S)
         /\ c.parent = ParentSpanID(h) /\ NoSpan \notin S /\ From(h, S)
              /\ Has(x, "X-DevHub-Parent-Span-ID")
            => Get(x, "X-DevHub-Parent-Span-ID") \in S
<1>1. DOMAIN x = DOMAIN h \cup {"Traceparent", "X-Devhub-Trace-Id", "X-Devhub-Span-Id"}
                   \cup (IF c.parent = NoSpan THEN {} ELSE {"X-Devhub-Parent-Span-Id"})
  BY StampedDomain
<1>2. /\ x["Traceparent"].span = c.span /\ x["X-Devhub-Span-Id"] = c.span
      /\ c.parent # NoSpan => x["X-Devhub-Parent-Span-Id"] = c.parent
  BY StampedIs
<1>3. c.span \in S => From(x, S)
  BY <1>1, <1>2, FromIs
<1>4. ASSUME c.parent = ParentSpanID(h), NoSpan \notin S, From(h, S),
             Has(x, "X-DevHub-Parent-Span-ID")
      PROVE  Get(x, "X-DevHub-Parent-Span-ID") \in S
  <2>1. c.parent \in S \cup {NoSpan} /\ (c.parent = NoSpan => "X-Devhub-Parent-Span-Id" \notin DOMAIN h)
    BY <1>4, ParentIs
  <2>2. "X-Devhub-Parent-Span-Id" \in DOMAIN x
    BY <1>4, Keys DEF Has
  <2>3. c.parent # NoSpan
    BY <1>1, <2>1, <2>2
  <2> QED BY <1>2, <2>1, <2>3, Keys DEF Get
<1> QED BY <1>3, <1>4

\* What a service passes on of it: less, but one part at least that leads to the trace.
LEMMA KeptContext ==
  ASSUME NEW h, NEW names \in Propagated, NEW x, x = Kept(h, names)
  PROVE  /\ DOMAIN x \subseteq DOMAIN h
         /\ TracesIn(x) \subseteq TracesIn(h)
         /\ \A S : From(h, S) => From(x, S)
         /\ \A t : BothLeadTo(h, t) => LeadsTo(x, t)
<1>1. DOMAIN x = DOMAIN h \cap names /\ \A k \in DOMAIN x : x[k] = h[k]
  BY DEF Kept
<1>2. TracesIn(x) \subseteq TracesIn(h)
  BY <1>1, TracesInIs
<1>5. "X-Devhub-Parent-Span-Id" \in names => "X-Devhub-Span-Id" \in names
  BY Keys DEF Propagated
<1>6. \A S : From(h, S) => From(x, S)
  BY <1>1, <1>5, FromIs
<1>3. "X-Devhub-Trace-Id" \in names \/ "Traceparent" \in names
  BY Keys DEF Propagated
<1>4. ASSUME NEW t, BothLeadTo(h, t) PROVE LeadsTo(x, t)
  <2>1. /\ "X-Devhub-Trace-Id" \in DOMAIN h /\ "Traceparent" \in DOMAIN h
        /\ TracesIn(h) = {t} /\ t[1] \notin {"short", "long"}
    BY <1>4, Keys DEF BothLeadTo, LeadsTo, Has
  <2>2. "X-Devhub-Trace-Id" \in DOMAIN x \/ "Traceparent" \in DOMAIN x
    BY <1>1, <1>3, <2>1
  <2>3. TracesIn(x) # {}
    BY <2>2, TracesInIs
  <2> QED BY <1>2, <2>1, <2>3 DEF LeadsTo
<1> QED BY <1>1, <1>2, <1>4, <1>6

\* Headers that differ in other keys than the context's have its ids.
SameContext(x, h) ==
  \A k \in ContextKeys : /\ k \in DOMAIN x <=> k \in DOMAIN h
                         /\ k \in DOMAIN h => x[k] = h[k]

LEMMA SameIds ==
  ASSUME NEW h, NEW x, SameContext(x, h)
  PROVE  /\ TracesIn(x) = TracesIn(h)
         /\ \A S : From(h, S) => From(x, S)
         /\ \A t : BothLeadTo(h, t) => BothLeadTo(x, t)
<1>1. \A k \in {"Traceparent", "X-Devhub-Trace-Id", "X-Devhub-Span-Id", "X-Devhub-Parent-Span-Id"} :
        /\ k \in DOMAIN x <=> k \in DOMAIN h
        /\ k \in DOMAIN h => x[k] = h[k]
  BY DEF SameContext, ContextKeys
<1>2. TracesIn(x) = TracesIn(h)
  BY <1>1, TracesInIs
<1>3. \A S : From(h, S) => From(x, S)
  BY <1>1, FromIs
<1>4. /\ Has(x, "X-DevHub-Trace-ID") <=> Has(h, "X-DevHub-Trace-ID")
      /\ Has(x, "traceparent") <=> Has(h, "traceparent")
  BY <1>1, Keys DEF Has
<1> QED BY <1>2, <1>3, <1>4 DEF BothLeadTo, LeadsTo

\* What a signer leaves of the recorded headers, and what it adds.
LEMMA SignedByIs ==
  ASSUME NEW h, DOMAIN h \subseteq Names, NEW signer, NEW x, x = SignedBy(h, signer)
  PROVE  /\ DOMAIN x \subseteq Names /\ SameContext(x, h)
         /\ signer \in Supported => /\ SignatureHeader[signer] \in DOMAIN x
                                    /\ x[SignatureHeader[signer]] = CalculateSignature(signer, now)
         /\ signer = "bypass" => DetectProvider(x) = {}
<1>0. "bypass" \notin Supported /\ "none" \notin Supported
  BY SignatureNames
<1>1. CASE signer = "bypass"
  <2>1. DOMAIN x = DOMAIN h \ SignatureKeys /\ \A k \in DOMAIN x : x[k] = h[k]
    BY <1>1 DEF SignedBy, BypassHeaders
  <2>2. DOMAIN x \subseteq Names /\ SameContext(x, h)
    BY <2>1, KeysApart DEF SameContext
  <2>3. DetectProvider(x) = {}
    BY <2>1, SignatureNames DEF DetectProvider, SignatureKeys
  <2> QED BY <1>0, <1>1, <2>2, <2>3
<1>2. CASE signer = "none" \/ signer \notin Supported \cup {"bypass"}
  <2>1. x = h
    BY <1>0, <1>2 DEF SignedBy, ResignHeaders
  <2> QED BY <1>0, <1>2, <2>1 DEF SameContext
<1>3. CASE signer \in Supported
  <2> DEFINE key == SignatureHeader[signer]
  <2>1. x = NewWins(h, key, CalculateSignature(signer, now))
    BY <1>0, <1>3 DEF SignedBy, ResignHeaders
  <2>2. key \in Names \ ContextKeys
    BY <1>3, KeysApart
  <2> HIDE DEF key
  <2>3. /\ DOMAIN x = DOMAIN h \cup {key} /\ x[key] = CalculateSignature(signer, now)
        /\ \A k \in DOMAIN h \ {key} : x[k] = h[k]
    BY <2>1 DEF NewWins
  <2>4. DOMAIN x \subseteq Names /\ SameContext(x, h)
    BY <2>2, <2>3 DEF SameContext
  <2> QED BY <1>0, <1>3, <2>3, <2>4 DEF key
<1> QED BY <1>1, <1>2, <1>3

LEMMA TimestampIs ==
  ASSUME NEW h, DOMAIN h \subseteq Names, NEW p, NEW x, x = TimestampHeader(h, p, now)
  PROVE  /\ DOMAIN x \subseteq Names /\ SameContext(x, h) /\ DOMAIN h \subseteq DOMAIN x
         /\ \A k \in DOMAIN h \ {SlackTimestamp} : x[k] = h[k]
         /\ p = "slack" => SlackTimestamp \in DOMAIN x /\ x[SlackTimestamp] = now
         /\ p # "slack" => x = h
<1>1. SlackTimestamp \in Names \ ContextKeys
  BY KeysApart
<1>2. CASE p = "slack"
  <2>1. /\ DOMAIN x = DOMAIN h \cup {SlackTimestamp} /\ x[SlackTimestamp] = now
        /\ \A k \in DOMAIN h \ {SlackTimestamp} : x[k] = h[k]
    BY <1>2 DEF TimestampHeader, NewWins
  <2> QED BY <1>1, <1>2, <2>1 DEF SameContext
<1>3. CASE p # "slack"
  BY <1>3 DEF TimestampHeader, SameContext
<1> QED BY <1>2, <1>3

\* A replay names the trace it answers with; a recorded one stays.
LEMMA NamedIs ==
  ASSUME NEW h, DOMAIN h \subseteq Names, NoTrace \notin TracesIn(h), NEW i, NEW reply, NEW x,
         reply = IF Has(h, "X-DevHub-Trace-ID") THEN Get(h, "X-DevHub-Trace-ID") ELSE <<"short", i>>,
         x = With(h, "X-DevHub-Trace-ID", reply)
  PROVE  /\ DOMAIN x \subseteq Names /\ NoTrace \notin TracesIn(x)
         /\ \A S : From(h, S) => From(x, S)
         /\ Has(x, "X-DevHub-Trace-ID")
         /\ DOMAIN h \subseteq DOMAIN x /\ \A k \in DOMAIN h \ ContextKeys : x[k] = h[k]
         /\ DOMAIN x \subseteq DOMAIN h \cup ContextKeys
         /\ \A t : BothLeadTo(h, t) => BothLeadTo(x, t) /\ reply = t
<1>1. /\ DOMAIN x = DOMAIN h \cup {"X-Devhub-Trace-Id"} /\ x["X-Devhub-Trace-Id"] = reply
      /\ \A k \in DOMAIN h \ {"X-Devhub-Trace-Id"} : x[k] = h[k]
  BY Keys DEF With
<1>2. reply # NoTrace /\ ("X-Devhub-Trace-Id" \in DOMAIN h => reply = h["X-Devhub-Trace-Id"])
  BY TracesInIs, Keys DEF Has, Get, NoTrace
<1>3. DOMAIN x \subseteq Names /\ Has(x, "X-DevHub-Trace-ID") /\ DOMAIN x \subseteq DOMAIN h \cup ContextKeys
      /\ DOMAIN h \subseteq DOMAIN x /\ \A k \in DOMAIN h \ ContextKeys : x[k] = h[k]
  BY <1>1, Keys, KeysApart DEF ContextKeys, Has
<1>4. \A S : From(h, S) => From(x, S)
  <2>1. \A k \in {"Traceparent", "X-Devhub-Span-Id", "X-Devhub-Parent-Span-Id"} :
          /\ k \in DOMAIN x <=> k \in DOMAIN h
          /\ k \in DOMAIN h => x[k] = h[k]
    BY <1>1
  <2> QED BY <2>1, FromIs
<1>5. NoTrace \notin TracesIn(x)
  BY <1>1, <1>2, TracesInIs
<1>6. ASSUME NEW t, BothLeadTo(h, t) PROVE BothLeadTo(x, t) /\ reply = t
  <2>1. "X-Devhub-Trace-Id" \in DOMAIN h /\ "Traceparent" \in DOMAIN h /\ TracesIn(h) = {t}
    BY <1>6, Keys DEF BothLeadTo, LeadsTo, Has
  <2>2. reply = h["X-Devhub-Trace-Id"] /\ reply = t
    BY <1>2, <2>1, TracesInIs
  <2>3. SameContext(x, h)
    BY <1>1, <2>1, <2>2 DEF SameContext
  <2> QED BY <1>6, <2>2, <2>3, SameIds
<1> QED BY <1>3, <1>4, <1>5, <1>6

-------------------------------------------------------------------------------
(* Calls. *)

\* The fields of a call that tell where it comes from never change.
SameOrigin(x, r) ==
  x.cause = r.cause /\ x.line = r.line /\ x.life = r.life /\ x.signer = r.signer

LEMMA OriginIs ==
  ASSUME NEW cause, NEW r, r = Origin(cause)
  PROVE  /\ DOMAIN r = Fields /\ r.cause = cause /\ r.life = life
         /\ cause = NoCause => r.line = {}
         /\ cause # NoCause => r.line = calls[cause].line \cup {cause}
         /\ r.signer = "none" /\ r.reply = NoTrace /\ r.trace = NoTrace
         /\ r.pc = "signing" /\ r.way = "ingress" /\ ~r.reached
         /\ DOMAIN r.head = {} /\ DOMAIN r.out = {}
BY DEF Origin, Fields

LEMMA ReceivedFields ==
  ASSUME NEW way \in Ways, NEW h, NEW r, DOMAIN r = Fields, NEW x, x = Received(way, h, r)
  PROVE  /\ DOMAIN x = Fields /\ SameOrigin(x, r) /\ x.reply = r.reply
         /\ x.pc \in {"rewrite", "open"} /\ (x.pc = "rewrite" => way = "ingress")
         /\ x.way = way /\ x.trace = Extracted(h).trace
         /\ x.head = (IF way \in StampingWays THEN Stamped(h, Extracted(h)) ELSE h)
         /\ x.out = x.head
<1> DEFINE head == IF way \in StampingWays THEN Stamped(h, Extracted(h)) ELSE h
           c == Extracted(h)
<1>1. x = [r EXCEPT !.pc = IF way = "ingress" THEN "rewrite" ELSE "open",
                    !.way = way, !.head = head, !.trace = c.trace,
                    !.reached = way \in {"forward", "ws"}, !.out = head]
  BY DEF Received
<1> HIDE DEF head, c
<1>2. /\ DOMAIN x = Fields /\ SameOrigin(x, r) /\ x.reply = r.reply
      /\ x.pc = (IF way = "ingress" THEN "rewrite" ELSE "open")
      /\ x.way = way /\ x.trace = c.trace
      /\ x.head = head /\ x.out = head
  BY <1>1 DEF Fields, SameOrigin
<1> QED BY <1>2 DEF c, head

\* Call x is r after it was served, with a span of its own and what headers h lead to.
ServedFrom(x, h, r) ==
  /\ DOMAIN x = Fields /\ SameOrigin(x, r) /\ x.reply = r.reply
  /\ x.pc \in {"rewrite", "open"} /\ x.way \in Ways /\ x.out = x.head
  /\ x.pc = "rewrite" => IsStamped(x)
  /\ Proper(x.head) /\ IsServed(x) /\ x.trace[1] \notin {"short", "long"}
  /\ \A t : LeadsTo(h, t) => x.trace = t
  /\ \A k \in DOMAIN h \ ContextKeys : k \in DOMAIN x.head /\ x.head[k] = h[k]
  /\ DOMAIN x.head \subseteq DOMAIN h \cup ContextKeys
  /\ IsStamped(x) => /\ BothLeadTo(x.head, x.trace)
                     /\ Has(x.head, "X-DevHub-Span-ID")
                     /\ SpansOf(x) = {spanSeq + 1}
                     /\ From(x.head, {spanSeq + 1})
                     /\ \A S : /\ NoSpan \notin S /\ From(h, S)
                               /\ Has(x.head, "X-DevHub-Parent-Span-ID")
                             => Get(x.head, "X-DevHub-Parent-Span-ID") \in S
  /\ ~IsStamped(x) => x.head = h

LEMMA ReceivedIs ==
  ASSUME NEW way \in Ways, NEW h, Proper(h), NEW r, DOMAIN r = Fields,
         NEW x, x = Received(way, h, r)
  PROVE  ServedFrom(x, h, r)
<1> DEFINE c == Extracted(h)
<1>0. /\ DOMAIN x = Fields /\ SameOrigin(x, r) /\ x.reply = r.reply
      /\ x.pc \in {"rewrite", "open"} /\ (x.pc = "rewrite" => way = "ingress")
  BY ReceivedFields
<1>1. /\ x.way = way /\ x.trace = c.trace /\ x.out = x.head
      /\ x.head = (IF way \in StampingWays THEN Stamped(h, c) ELSE h)
  BY ReceivedFields
<1>2. /\ c.trace = TraceID(h, <<"full", traceSeq + 1>>) /\ c.span = spanSeq + 1
      /\ c.parent = ParentSpanID(h)
  BY DEF Extracted, ExtractOrGenerateContext, OwnSpan
<1> HIDE DEF c
<1>3. c.trace[1] \notin {"short", "long"} /\ c.trace # NoTrace
  BY <1>2, TraceIs DEF Proper
<1>4. \A t : LeadsTo(h, t) => c.trace = t
  BY <1>2, TraceLeadsTo
<1>6. IsServed(x) /\ (IsStamped(x) <=> way \in StampingWays)
  BY <1>1, <1>3 DEF IsServed, IsStamped
<1>7. CASE way \in StampingWays
  <2> DEFINE y == x.head
  <2>1. y = Stamped(h, c)
    BY <1>1, <1>7
  <2> HIDE DEF y
  <2>2. /\ DOMAIN y \subseteq Names
        /\ BothLeadTo(y, c.trace)
        /\ Has(y, "X-DevHub-Span-ID") /\ Get(y, "X-DevHub-Span-ID") = c.span
        /\ \A k \in DOMAIN h \ ContextKeys : k \in DOMAIN y /\ y[k] = h[k]
    BY <1>3, <2>1, StampedContext DEF Proper
  <2>6. /\ From(y, {spanSeq + 1})
        /\ \A S : NoSpan \notin S /\ From(h, S) /\ Has(y, "X-DevHub-Parent-Span-ID")
               => Get(y, "X-DevHub-Parent-Span-ID") \in S
    <3>1. \A S : c.span \in S => From(y, S)
      BY <2>1, StampedSpans
    <3>2. \A S : NoSpan \notin S /\ From(h, S) /\ Has(y, "X-DevHub-Parent-Span-ID")
             => Get(y, "X-DevHub-Parent-Span-ID") \in S
      BY <1>2, <2>1, StampedSpans
    <3> QED BY <1>2, <3>1, <3>2
  <2>3. Proper(y)
    BY <1>3, <2>2 DEF Proper, BothLeadTo, LeadsTo
  <2>4. SpansOf(x) = {spanSeq + 1}
    BY <1>1, <1>2, <2>2 DEF SpansOf, y
  <2>5. DOMAIN y \subseteq DOMAIN h \cup ContextKeys
    <3>1. DOMAIN y = DOMAIN h \cup {"Traceparent", "X-Devhub-Trace-Id", "X-Devhub-Span-Id"}
                       \cup (IF c.parent = NoSpan THEN {} ELSE {"X-Devhub-Parent-Span-Id"})
      BY <2>1, StampedDomain
    <3> QED BY <3>1 DEF ContextKeys
  <2> QED BY <1>0, <1>1, <1>2, <1>3, <1>4, <1>6, <1>7, <2>2, <2>3, <2>4, <2>5, <2>6 DEF y, ServedFrom
<1>8. CASE way \notin StampingWays
  <2>1. way # "ingress"
    BY <1>8 DEF StampingWays
  <2> QED BY <1>0, <1>1, <1>3, <1>4, <1>6, <1>8, <2>1 DEF ServedFrom
<1> QED BY <1>7, <1>8

\* The sequence of calls when one is added, and when some are changed.
LEMMA Appended ==
  ASSUME Shape, NEW x, calls' = Append(calls, x)
  PROVE  /\ Len(calls') = Len(calls) + 1 /\ calls' = [k \in 1 .. Len(calls') |-> calls'[k]]
         /\ calls'[Len(calls) + 1] = x /\ \A k \in 1 .. Len(calls) : calls'[k] = calls[k]
<1> DEFINE n == Len(calls)
           S == {calls[k] : k \in 1 .. n} \cup {x}
<1>1. n \in Nat /\ calls = [k \in 1 .. n |-> calls[k]]
  BY DEF Shape
<1>2. calls \in [1 .. n -> S]
  BY <1>1
<1> HIDE DEF S, n
<1>3. calls \in Seq(S)
  BY <1>1, <1>2
<1>4. x \in S
  BY DEF S
<1>5. /\ calls' \in Seq(S) /\ Len(calls') = n + 1
      /\ \A k \in 1 .. n : calls'[k] = calls[k]
      /\ calls'[n + 1] = x
  BY <1>3, <1>4, AppendProperties DEF n
<1>6. calls' = [k \in 1 .. Len(calls') |-> calls'[k]]
  <2>1. calls' \in [1 .. Len(calls') -> S]
    BY <1>5, LenProperties
  <2> QED BY <2>1
<1> QED BY <1>5, <1>6 DEF n

LEMMA Changed ==
  ASSUME Shape, NEW S, calls' \in [1 .. Len(calls) -> S]
  PROVE  Len(calls') = Len(calls) /\ calls' = [k \in 1 .. Len(calls') |-> calls'[k]]
<1>1. Len(calls) \in Nat
  BY DEF Shape
<1>2. Len(calls') = Len(calls)
  BY <1>1
<1> QED BY <1>2

LEMMA Replaced ==
  ASSUME Shape, NEW i \in 1 .. Len(calls), NEW x, calls' = [calls EXCEPT ![i] = x]
  PROVE  /\ Len(calls') = Len(calls) /\ calls' = [k \in 1 .. Len(calls') |-> calls'[k]]
         /\ calls'[i] = x /\ \A k \in 1 .. Len(calls) \ {i} : calls'[k] = calls[k]
<1> DEFINE n == Len(calls)
           S == {calls[k] : k \in 1 .. n} \cup {x}
<1>1. n \in Nat /\ calls = [k \in 1 .. n |-> calls[k]]
  BY DEF Shape
<1>2. calls' \in [1 .. n -> S] /\ calls'[i] = x /\ \A k \in 1 .. n \ {i} : calls'[k] = calls[k]
  BY <1>1
<1> HIDE DEF S
<1>3. Len(calls') = n
  BY <1>1, <1>2
<1> QED BY <1>2, <1>3

\* A step that takes nothing away from what was known of the calls.
Grows ==
  \A k \in 1 .. Len(calls) :
    /\ SameOrigin(calls'[k], calls[k])
    /\ IsServed(calls[k]) => calls'[k].trace = calls[k].trace /\ calls'[k].way = calls[k].way
    /\ IsStamped(calls[k]) => SpansOf(calls[k]) \subseteq SpansOf(calls'[k])

\* Call x is r, which may have gone on to its next place.
SameButPlace(x, r) ==
  /\ DOMAIN x = Fields /\ SameOrigin(x, r)
  /\ x.way = r.way /\ x.head = r.head /\ x.out = r.out
  /\ x.trace = r.trace /\ x.reply = r.reply /\ x.reached = r.reached

LEMMA SameIsServed ==
  ASSUME NEW x, NEW r, SameButPlace(x, r)
  PROVE  /\ IsServed(x) <=> IsServed(r)
         /\ IsStamped(x) <=> IsStamped(r)
         /\ SpansOf(x) = SpansOf(r) /\ SameOrigin(x, r)
         /\ x.trace = r.trace /\ x.way = r.way
BY DEF SameButPlace, IsServed, IsStamped, SpansOf

LEMMA KeepsTraced ==
  ASSUME Shape, Grows, NEW k \in 1 .. Len(calls), Traced(calls, k), SameButPlace(calls'[k], calls[k])
  PROVE  Traced(calls', k)
<1> DEFINE r == calls[k]
           x == calls'[k]
<1>1. /\ x.cause = r.cause /\ x.way = r.way /\ x.head = r.head /\ x.out = r.out
      /\ x.trace = r.trace /\ x.reply = r.reply
      /\ IsServed(x) <=> IsServed(r)
      /\ IsStamped(x) <=> IsStamped(r)
  BY SameIsServed DEF SameButPlace, SameOrigin
<1>2. r.cause # NoCause => r.cause \in 1 .. Len(calls)
  <2>1. r.line \subseteq 1 .. k - 1 /\ r.cause \in {NoCause} \cup r.line /\ Len(calls) \in Nat
    BY DEF Shape, CallTyped
  <2> QED BY <2>1
<1>3. r.cause # NoCause =>
        /\ IsServed(calls[r.cause]) /\ IsServed(calls'[r.cause])
        /\ calls'[r.cause].trace = calls[r.cause].trace /\ calls'[r.cause].way = calls[r.cause].way
  BY <1>2 DEF Traced, Grows, IsServed
<1> HIDE DEF r, x
<1>4. r.cause # NoCause => (IsStamped(calls'[r.cause]) <=> IsStamped(calls[r.cause]))
  BY <1>3 DEF IsStamped
<1>5. /\ r.cause # NoCause => IsServed(calls[r.cause])
      /\ IsStamped(r) => BothLeadTo(r.head, r.trace) /\ BothLeadTo(r.out, r.trace)
      /\ r.cause # NoCause /\ IsStamped(calls[r.cause]) =>
           IF IsServed(r) THEN /\ r.trace = calls[r.cause].trace
                               /\ r.reply # NoTrace => r.reply = r.trace
                          ELSE BothLeadTo(r.head, calls[r.cause].trace)
  BY DEF Traced, r
<1> QED BY <1>1, <1>3, <1>4, <1>5 DEF Traced, x

LEMMA FromMore ==
  ASSUME NEW h, NEW S, NEW T, S \subseteq T, From(h, S)
  PROVE  From(h, T)
BY DEF From

\* The last stamped call, when one more call is looked at.
LEMMA LastOfMore ==
  ASSUME NEW cs, NEW i \in Nat, NEW L \in SUBSET (1 .. i - 1), NEW k \in L \cup {i}
  PROVE  /\ IsStamped(cs[i]) => (Last(cs, L \cup {i}, k) <=> k = i)
         /\ ~IsStamped(cs[i]) => (Last(cs, L \cup {i}, k) <=> Last(cs, L, k))
BY DEF Last

\* Calls that were served stay the last stamped ones, and keep their spans.
LEMMA KeepsLast ==
  ASSUME Grows, NEW L \in SUBSET (1 .. Len(calls)),
         \A k \in L : IsServed(calls[k]) \/ (IsStamped(calls'[k]) <=> IsStamped(calls[k]))
  PROVE  \A k \in L : /\ Last(calls', L, k) <=> Last(calls, L, k)
                      /\ Last(calls, L, k) => SpansOf(calls[k]) \subseteq SpansOf(calls'[k])
<1>1. \A k \in L : IsStamped(calls'[k]) <=> IsStamped(calls[k])
  BY DEF Grows, IsStamped, IsServed
<1> QED BY <1>1 DEF Grows, Last

LEMMA KeepsFrom ==
  ASSUME Grows, NEW h, NEW L \in SUBSET (1 .. Len(calls)),
         \A k \in L : IsServed(calls[k]) \/ (IsStamped(calls'[k]) <=> IsStamped(calls[k])),
         FromLast(calls, h, L)
  PROVE  FromLast(calls', h, L)
BY KeepsLast, FromMore DEF FromLast

LEMMA KeepsOwnHeaders ==
  ASSUME Shape, Grows, NEW k \in 1 .. Len(calls), OwnHeaders(calls, k),
         SameButPlace(calls'[k], calls[k])
  PROVE  OwnHeaders(calls', k)
<1> DEFINE r == calls[k]
           L == r.line
<1>1. L \in SUBSET (1 .. Len(calls)) /\ L \cup {k} \in SUBSET (1 .. Len(calls))
  <2>1. L \subseteq 1 .. k - 1 /\ Len(calls) \in Nat
    BY DEF Shape, CallTyped
  <2> QED BY <2>1
<1>2. /\ calls'[k].line = L /\ calls'[k].head = r.head /\ calls'[k].out = r.out
      /\ IsStamped(calls'[k]) <=> IsStamped(r)
  BY SameIsServed DEF SameButPlace, SameOrigin
<1>3. /\ \A m \in L : IsServed(calls[m])
      /\ FromLast(calls, r.head, L \cup {k}) /\ FromLast(calls, r.out, L \cup {k})
      /\ IsStamped(r) /\ Has(r.head, "X-DevHub-Parent-Span-ID") =>
           \A m \in L : Last(calls, L, m) =>
             Get(r.head, "X-DevHub-Parent-Span-ID") \in SpansOf(calls[m])
  BY DEF OwnHeaders
<1>4. \A m \in L : IsServed(calls'[m])
  BY <1>1, <1>3 DEF Grows, IsServed
<1>5. \A m \in L \cup {k} : IsServed(calls[m]) \/ (IsStamped(calls'[m]) <=> IsStamped(calls[m]))
  BY <1>2, <1>3
<1> HIDE DEF r, L
<1>6. FromLast(calls', r.head, L \cup {k}) /\ FromLast(calls', r.out, L \cup {k})
  BY <1>1, <1>3, <1>5, KeepsFrom
<1>7. \A m \in L : /\ Last(calls', L, m) <=> Last(calls, L, m)
                   /\ Last(calls, L, m) => SpansOf(calls[m]) \subseteq SpansOf(calls'[m])
  BY <1>1, <1>3, KeepsLast
<1> QED BY <1>2, <1>3, <1>4, <1>6, <1>7 DEF OwnHeaders

-------------------------------------------------------------------------------
(* What a step that changes one call, or adds it, has to show of that call. *)

LEMMA CountOne ==
  ASSUME NEW S, NEW T, NEW i, IsFiniteSet(S), T \subseteq S \cup {i}
  PROVE  /\ IsFiniteSet(T) /\ Cardinality(S) \in Nat /\ Cardinality(T) \in Nat
         /\ Cardinality(T) <= Cardinality(S) + 1
         /\ T \subseteq S => Cardinality(T) <= Cardinality(S)
         /\ i \in S /\ T \subseteq S \ {i} => Cardinality(T) <= Cardinality(S) - 1
<1>1. /\ IsFiniteSet(S \cup {i}) /\ Cardinality(S \cup {i}) <= Cardinality(S) + 1
      /\ Cardinality(S) \in Nat /\ Cardinality(S \cup {i}) \in Nat
  <2>1. CASE i \in S
    <3>1. S \cup {i} = S
      BY <2>1
    <3>2. IsFiniteSet(S \cup {i}) /\ Cardinality(S \cup {i}) = Cardinality(S)
      BY <3>1
    <3>3. Cardinality(S) \in Nat
      BY FS_CardinalityType
    <3> QED BY <3>2, <3>3
  <2>2. CASE i \notin S
    <3>1. IsFiniteSet(S \cup {i}) /\ Cardinality(S \cup {i}) = Cardinality(S) + 1
      BY <2>2, FS_AddElement
    <3>2. Cardinality(S) \in Nat
      BY FS_CardinalityType
    <3> QED BY <3>1, <3>2
  <2> QED BY <2>1, <2>2
<1>2. /\ IsFiniteSet(T) /\ Cardinality(T) \in Nat /\ Cardinality(T) <= Cardinality(S \cup {i})
  BY <1>1, FS_Subset, FS_CardinalityType
<1>3. ASSUME T \subseteq S PROVE Cardinality(T) <= Cardinality(S)
  BY <1>3, FS_Subset
<1>4. ASSUME i \in S, T \subseteq S \ {i} PROVE Cardinality(T) <= Cardinality(S) - 1
  <2>1. IsFiniteSet(S \ {i}) /\ Cardinality(S \ {i}) = Cardinality(S) - 1
    BY <1>4, FS_RemoveElement
  <2>2. Cardinality(T) <= Cardinality(S \ {i})
    BY <1>4, <2>1, FS_Subset
  <2> QED BY <2>1, <2>2
<1>5. Cardinality(T) <= Cardinality(S) + 1
  BY <1>1, <1>2
<1> QED BY <1>1, <1>2, <1>3, <1>4, <1>5

LEMMA AtIsFinite ==
  ASSUME Shape, NEW pc
  PROVE  IsFiniteSet(At(pc)) /\ Cardinality(At(pc)) \in Nat
<1>0. 1 \in Int /\ Len(calls) \in Int
  BY DEF Shape
<1>1. IsFiniteSet(1 .. Len(calls))
  BY <1>0, FS_Interval
<1>2. At(pc) \subseteq 1 .. Len(calls)
  BY DEF At
<1> QED BY <1>1, <1>2, FS_Subset, FS_CardinalityType

\* Call i is changed, or added after the last; the others stay as they are.
OneChanges(i) ==
  /\ Len(calls') \in {Len(calls), Len(calls) + 1} /\ Len(calls') <= MaxCalls
  /\ calls' = [k \in 1 .. Len(calls') |-> calls'[k]]
  /\ i \in 1 .. Len(calls')
  /\ \A k \in 1 .. Len(calls') \ {i} : k \in 1 .. Len(calls) /\ calls'[k] = calls[k]

LEMMA ShapeKept ==
  ASSUME Shape, NEW i, OneChanges(i), CallTyped(calls'[i], i, life'), UNCHANGED life,
         UNCHANGED now, ring' \subseteq ring \cup {i},
         i \in ring' => calls'[i].pc = "done"
  PROVE  Shape'
<1>1. \A k \in 1 .. Len(calls') : CallTyped(calls'[k], k, life')
  BY DEF Shape, OneChanges
<1>0. MaxCalls \in Nat /\ Len(calls) \in Nat
  BY ReplayAssumption DEF Shape
<1>2. Len(calls') \in 0 .. MaxCalls
  <2>1. Len(calls') <= MaxCalls
    BY DEF OneChanges
  <2>2. Len(calls') \in {Len(calls), Len(calls) + 1}
    BY DEF OneChanges
  <2> QED BY <1>0, <2>1, <2>2
<1>3. \A k \in ring' : k \in 1 .. Len(calls') /\ calls'[k].pc = "done"
  <2> SUFFICES ASSUME NEW k \in ring', k # i PROVE k \in 1 .. Len(calls') /\ calls'[k].pc = "done"
    BY DEF OneChanges
  <2>1. k \in 1 .. Len(calls) /\ calls[k].pc = "done"
    BY DEF Shape
  <2>2. k \in 1 .. Len(calls')
    <3>1. Len(calls') = Len(calls) \/ Len(calls') = Len(calls) + 1
      BY DEF OneChanges
    <3> QED BY <1>0, <2>1, <3>1
  <2> QED BY <2>1, <2>2 DEF OneChanges
<1> QED BY <1>1, <1>2, <1>3 DEF Shape, OneChanges

LEMMA PhasesKept ==
  ASSUME Phases, NEW i, OneChanges(i), UNCHANGED life, Phase(calls'[i], life),
         Proper(calls'[i].head), Proper(calls'[i].out)
  PROVE  Phases'
<1>1. \A k \in 1 .. Len(calls') :
        Phase(calls'[k], life) /\ Proper(calls'[k].head) /\ Proper(calls'[k].out)
  BY DEF Phases, OneChanges
<1> QED BY <1>1 DEF Phases

LEMMA SignedKept ==
  ASSUME AllSigned, NEW i, OneChanges(i), UNCHANGED now, SignedBefore(calls'[i], now)
  PROVE  AllSigned'
<1>1. \A k \in 1 .. Len(calls') : SignedBefore(calls'[k], now)
  BY DEF AllSigned, OneChanges
<1> QED BY <1>1 DEF AllSigned

\* Grows, if the call that changes does.
LEMMA OneGrows ==
  ASSUME Shape, NEW i, OneChanges(i),
         i \in 1 .. Len(calls) =>
           /\ SameOrigin(calls'[i], calls[i])
           /\ IsServed(calls[i]) => calls'[i].trace = calls[i].trace /\ calls'[i].way = calls[i].way
           /\ IsStamped(calls[i]) => SpansOf(calls[i]) \subseteq SpansOf(calls'[i])
  PROVE  Grows /\ \A k \in 1 .. Len(calls) \ {i} : SameButPlace(calls'[k], calls[k])
<1>1. ASSUME NEW k \in 1 .. Len(calls), k # i
      PROVE  calls'[k] = calls[k] /\ DOMAIN calls[k] = Fields
  <2>1. Len(calls') \in {Len(calls), Len(calls) + 1}
    BY DEF OneChanges
  <2>2. Len(calls) \in Nat
    BY DEF Shape
  <2>3. k \in 1 .. Len(calls') \ {i}
    BY <1>1, <2>1, <2>2
  <2> QED BY <2>3 DEF OneChanges, Shape, CallTyped
<1> QED BY <1>1 DEF Grows, SameOrigin, SameButPlace

LEMMA TracedKept ==
  ASSUME Shape, AllTraced, Grows, NEW i, OneChanges(i), Traced(calls', i),
         \A k \in 1 .. Len(calls) \ {i} : SameButPlace(calls'[k], calls[k])
  PROVE  AllTraced'
<1>1. ASSUME NEW k \in 1 .. Len(calls'), k # i PROVE Traced(calls', k)
  BY <1>1, KeepsTraced DEF AllTraced, OneChanges
<1>2. \A k \in 1 .. Len(calls') : Traced(calls', k)
  BY <1>1
<1> QED BY <1>2 DEF AllTraced

\* Call k bears span s.
Bears(cs, k, s) == IsStamped(cs[k]) /\ s \in SpansOf(cs[k])

LEMMA Lengths ==
  ASSUME Shape, NEW i, OneChanges(i)
  PROVE  /\ Len(calls) \in Nat /\ Len(calls') \in Nat /\ MaxCalls \in Nat
         /\ Len(calls') \in {Len(calls), Len(calls) + 1} /\ Len(calls') <= MaxCalls
         /\ 1 .. Len(calls) \subseteq 1 .. Len(calls')
         /\ i \in 1 .. Len(calls') /\ 1 .. i - 1 \subseteq 1 .. Len(calls)
<1>1. Len(calls') \in {Len(calls), Len(calls) + 1} /\ Len(calls') <= MaxCalls
  <2>1. Len(calls') \in {Len(calls), Len(calls) + 1}
    BY DEF OneChanges
  <2>2. Len(calls') <= MaxCalls
    BY DEF OneChanges
  <2> QED BY <2>1, <2>2
<1>2. Len(calls) \in Nat
  BY DEF Shape
<1>3. MaxCalls \in Nat
  BY ReplayAssumption
<1>4. i \in 1 .. Len(calls')
  BY DEF OneChanges
<1> QED BY <1>1, <1>2, <1>3, <1>4

\* The spans of a step in which call i draws one, or nobody does.
LEMMA SpansKept ==
  ASSUME Shape, Spans, Grows, NEW i, OneChanges(i), UNCHANGED life,
         spanSeq \in Nat, spanSeq' \in {spanSeq, spanSeq + 1},
         \A k \in 1 .. Len(calls) \ {i} : SameButPlace(calls'[k], calls[k]),
         OwnHeaders(calls', i),
         IsStamped(calls'[i]) => Has(calls'[i].head, "X-DevHub-Span-ID"),
         \A s : Bears(calls', i, s) =>
           \/ i \in 1 .. Len(calls) /\ Bears(calls, i, s)
           \/ /\ s = spanSeq + 1 /\ spanSeq' = spanSeq + 1 /\ s \in Drawable
              /\ calls'[i].life = life
  PROVE  Spans'
<1>1. \A k \in 1 .. Len(calls') \ {i} : k \in 1 .. Len(calls) /\ SameButPlace(calls'[k], calls[k])
  BY DEF OneChanges
<1>2. ASSUME NEW k \in 1 .. Len(calls'), NEW s, Bears(calls', k, s)
      PROVE  \/ /\ k \in 1 .. Len(calls) /\ Bears(calls, k, s)
                /\ calls'[k].life = calls[k].life
                /\ s \in Drawable
                /\ calls[k].life = life => s \in 1 .. spanSeq
             \/ /\ k = i /\ s = spanSeq + 1 /\ spanSeq' = spanSeq + 1 /\ s \in Drawable
                /\ calls'[k].life = life
  <2>1. \/ k \in 1 .. Len(calls) /\ Bears(calls, k, s)
        \/ /\ k = i /\ s = spanSeq + 1 /\ spanSeq' = spanSeq + 1 /\ s \in Drawable
           /\ calls'[k].life = life
    <3>1. CASE k = i
      BY <1>2, <3>1
    <3>2. CASE k # i
      <4>1. k \in 1 .. Len(calls) /\ SameButPlace(calls'[k], calls[k])
        BY <1>1, <3>2
      <4> QED BY <1>2, <4>1, SameIsServed DEF Bears
    <3> QED BY <3>1, <3>2
  <2>2. ASSUME k \in 1 .. Len(calls), Bears(calls, k, s)
        PROVE  /\ calls'[k].life = calls[k].life /\ s \in Drawable
               /\ calls[k].life = life => s \in 1 .. spanSeq
    <3>1. calls'[k].life = calls[k].life
      BY <2>2 DEF Grows, SameOrigin
    <3>2. s \in Drawable /\ (calls[k].life = life => s \in 1 .. spanSeq)
      BY <2>2 DEF Spans, Bears
    <3> QED BY <3>1, <3>2
  <2> QED BY <2>1, <2>2
<1>3. ASSUME NEW k \in 1 .. Len(calls')
      PROVE  /\ OwnHeaders(calls', k)
             /\ IsStamped(calls'[k]) => Has(calls'[k].head, "X-DevHub-Span-ID")
  <2>1. CASE k = i
    BY <2>1
  <2>2. CASE k # i
    <3>1. k \in 1 .. Len(calls) /\ SameButPlace(calls'[k], calls[k])
      BY <1>1, <2>2
    <3>2. OwnHeaders(calls', k)
      BY <3>1, KeepsOwnHeaders DEF Spans
    <3>3. IsStamped(calls[k]) => Has(calls[k].head, "X-DevHub-Span-ID")
      BY <3>1 DEF Spans
    <3>4. calls'[k].head = calls[k].head /\ (IsStamped(calls'[k]) <=> IsStamped(calls[k]))
      BY <3>1, SameIsServed DEF SameButPlace
    <3> QED BY <3>2, <3>3, <3>4
  <2> QED BY <2>1, <2>2
<1>4. ASSUME NEW k \in 1 .. Len(calls'), IsStamped(calls'[k])
      PROVE  /\ SpansOf(calls'[k]) \subseteq Drawable
             /\ calls'[k].life = life => SpansOf(calls'[k]) \subseteq 1 .. spanSeq'
  <2> SUFFICES ASSUME NEW s \in SpansOf(calls'[k])
               PROVE  s \in Drawable /\ (calls'[k].life = life => s \in 1 .. spanSeq')
    OBVIOUS
  <2>1. Bears(calls', k, s)
    BY <1>4 DEF Bears
  <2> QED BY <1>2, <2>1
<1>5. ASSUME NEW j \in 1 .. Len(calls'), NEW k \in 1 .. Len(calls'), j # k,
             IsStamped(calls'[j]), IsStamped(calls'[k]), calls'[j].life = calls'[k].life,
             NEW s \in SpansOf(calls'[j]) \cap SpansOf(calls'[k])
      PROVE  FALSE
  <2>1. Bears(calls', j, s) /\ Bears(calls', k, s)
    BY <1>5 DEF Bears
  <2>2. ~(/\ j \in 1 .. Len(calls) /\ Bears(calls, j, s)
          /\ k \in 1 .. Len(calls) /\ Bears(calls, k, s)
          /\ calls[j].life = calls[k].life)
    BY <1>5 DEF Spans, Bears
  <2> QED BY <1>2, <1>5, <2>1, <2>2
<1> QED BY <1>3, <1>4, <1>5 DEF Spans

LEMMA AtKept ==
  ASSUME Shape, NEW i, OneChanges(i), NEW pc
  PROVE  /\ Cardinality(At(pc)) \in Nat /\ Cardinality(At(pc)') \in Nat
         /\ Cardinality(At(pc)') <= Cardinality(At(pc)) + 1
         /\ calls'[i].pc # pc => Cardinality(At(pc)') <= Cardinality(At(pc))
         /\ i \in 1 .. Len(calls) /\ calls[i].pc = pc /\ calls'[i].pc # pc =>
              Cardinality(At(pc)') <= Cardinality(At(pc)) - 1
<1> DEFINE S == At(pc)
           T == {k \in 1 .. Len(calls') : calls'[k].pc = pc}
<1>1. At(pc)' = T
  BY DEF At
<1>2. IsFiniteSet(S)
  BY AtIsFinite
<1>3. T \subseteq S \cup {i} /\ (calls'[i].pc # pc => T \subseteq S \ {i} /\ T \subseteq S)
  <2>1. \A k \in T : k # i => k \in S
    BY DEF At, OneChanges
  <2>2. calls'[i].pc # pc => i \notin T
    OBVIOUS
  <2> QED BY <2>1, <2>2
<1>4. i \in 1 .. Len(calls) /\ calls[i].pc = pc => i \in S
  BY DEF At
<1> HIDE DEF S, T
<1>5. /\ Cardinality(S) \in Nat /\ Cardinality(T) \in Nat
      /\ Cardinality(T) <= Cardinality(S) + 1
      /\ T \subseteq S => Cardinality(T) <= Cardinality(S)
      /\ i \in S /\ T \subseteq S \ {i} => Cardinality(T) <= Cardinality(S) - 1
  BY <1>2, <1>3, CountOne
<1>6. /\ Cardinality(S) \in Nat /\ Cardinality(T) \in Nat
      /\ Cardinality(T) <= Cardinality(S) + 1
      /\ calls'[i].pc # pc => Cardinality(T) <= Cardinality(S)
      /\ i \in 1 .. Len(calls) /\ calls[i].pc = pc /\ calls'[i].pc # pc =>
           Cardinality(T) <= Cardinality(S) - 1
  BY <1>3, <1>4, <1>5
<1> QED BY <1>1, <1>6 DEF S

-------------------------------------------------------------------------------
(* A call is served. *)

LEMMA ServedTraced ==
  ASSUME Shape, Grows, NEW i, OneChanges(i), NEW h, NEW r, ServedFrom(calls'[i], h, r),
         r.line \subseteq 1 .. i - 1, r.cause \in {NoCause} \cup r.line,
         r.cause # NoCause => IsServed(calls[r.cause]),
         r.cause # NoCause /\ IsStamped(calls[r.cause]) =>
           /\ LeadsTo(h, calls[r.cause].trace)
           /\ r.reply # NoTrace => r.reply = calls[r.cause].trace
  PROVE  Traced(calls', i)
<1> DEFINE x == calls'[i]
           c == r.cause
<1>1. /\ x.cause = c /\ x.reply = r.reply /\ x.out = x.head /\ IsServed(x)
      /\ \A t : LeadsTo(h, t) => x.trace = t
      /\ IsStamped(x) => BothLeadTo(x.head, x.trace)
  BY DEF ServedFrom, SameOrigin
<1>2. c # NoCause => c \in 1 .. Len(calls)
  BY Lengths
<1>3. c # NoCause => calls'[c].trace = calls[c].trace /\ calls'[c].way = calls[c].way
  BY <1>2 DEF Grows
<1>4. c # NoCause => IsServed(calls'[c]) /\ (IsStamped(calls'[c]) <=> IsStamped(calls[c]))
  BY <1>3 DEF IsStamped, IsServed
<1>5. c # NoCause /\ IsStamped(calls'[c]) =>
        x.trace = calls'[c].trace /\ (x.reply # NoTrace => x.reply = x.trace)
  BY <1>1, <1>3, <1>4
<1> HIDE DEF c
<1> QED BY <1>1, <1>4, <1>5 DEF Traced, x

LEMMA ServedOwns ==
  ASSUME Shape, Spans, Grows, NEW i, OneChanges(i), NEW h, NEW r, ServedFrom(calls'[i], h, r),
         r.line \subseteq 1 .. i - 1, \A k \in r.line : IsServed(calls[k]),
         FromLast(calls, h, r.line)
  PROVE  OwnHeaders(calls', i)
<1> DEFINE x == calls'[i]
           L == r.line
<1>1. L \in SUBSET (1 .. Len(calls)) /\ L \in SUBSET (1 .. i - 1) /\ i \in Nat
  BY Lengths
<1>2. /\ x.line = L /\ x.out = x.head
      /\ ~IsStamped(x) => x.head = h
      /\ IsStamped(x) => /\ From(x.head, SpansOf(x))
                         /\ \A S : /\ NoSpan \notin S /\ From(h, S)
                                   /\ Has(x.head, "X-DevHub-Parent-Span-ID")
                                 => Get(x.head, "X-DevHub-Parent-Span-ID") \in S
  BY DEF ServedFrom, SameOrigin
<1>3. /\ \A k \in L : IsServed(calls'[k])
      /\ \A k \in L : /\ Last(calls', L, k) <=> Last(calls, L, k)
                      /\ Last(calls, L, k) => SpansOf(calls[k]) \subseteq SpansOf(calls'[k])
  <2>1. \A k \in L : IsServed(calls'[k])
    BY <1>1 DEF Grows, IsServed
  <2> QED BY <1>1, <2>1, KeepsLast
<1>4. \A k \in L : Last(calls, L, k) => From(h, SpansOf(calls[k])) /\ NoSpan \notin SpansOf(calls[k])
  <2>1. \A k \in L : IsStamped(calls[k]) => SpansOf(calls[k]) \subseteq Drawable
    BY <1>1 DEF Spans
  <2>2. NoSpan \notin Drawable
    BY DEF NoSpan, Drawable
  <2> QED BY <2>1, <2>2 DEF FromLast, Last
<1> HIDE DEF L
<1>5. FromLast(calls', x.head, L \cup {i})
  <2> SUFFICES ASSUME NEW k \in L \cup {i}, Last(calls', L \cup {i}, k)
               PROVE  From(x.head, SpansOf(calls'[k]))
    BY DEF FromLast
  <2>1. CASE IsStamped(x)
    BY <1>1, <1>2, <2>1, LastOfMore
  <2>2. CASE ~IsStamped(x)
    <3>1. k \in L /\ Last(calls, L, k)
      BY <1>1, <1>3, <2>2, LastOfMore DEF Last
    <3> QED BY <1>2, <1>3, <1>4, <2>2, <3>1, FromMore
  <2> QED BY <2>1, <2>2
<1>6. ASSUME IsStamped(x), Has(x.head, "X-DevHub-Parent-Span-ID"),
             NEW k \in L, Last(calls', L, k)
      PROVE  Get(x.head, "X-DevHub-Parent-Span-ID") \in SpansOf(calls'[k])
  BY <1>2, <1>3, <1>4, <1>6
<1> QED BY <1>2, <1>3, <1>5, <1>6 DEF OwnHeaders

LEMMA ServeKeeps ==
  ASSUME Inv, NEW i, OneChanges(i), UNCHANGED <<life, now, ring>>,
         NEW h, NEW r, ServedFrom(calls'[i], h, r),
         r.life = life, r.line \subseteq 1 .. i - 1, r.cause \in {NoCause} \cup r.line,
         i \in 1 .. Len(calls) => calls[i].pc = "signing" /\ SameOrigin(r, calls[i]),
         r.cause # NoCause => IsServed(calls[r.cause]),
         r.cause # NoCause /\ IsStamped(calls[r.cause]) =>
           /\ LeadsTo(h, calls[r.cause].trace)
           /\ r.reply # NoTrace => r.reply = calls[r.cause].trace,
         \A k \in r.line : IsServed(calls[k]), FromLast(calls, h, r.line),
         spanSeq' = spanSeq + 1, Counted', SignedBefore(calls'[i], now)
  PROVE  Inv'
<1> DEFINE x == calls'[i]
<1>1. /\ DOMAIN x = Fields /\ x.cause = r.cause /\ x.line = r.line /\ x.life = life
      /\ x.signer = r.signer /\ x.pc \in {"rewrite", "open"} /\ x.way \in Ways
      /\ x.out = x.head /\ Proper(x.head) /\ IsServed(x)
      /\ x.pc = "rewrite" => IsStamped(x)
      /\ IsStamped(x) => Has(x.head, "X-DevHub-Span-ID") /\ SpansOf(x) = {spanSeq + 1}
  BY DEF ServedFrom, SameOrigin
<1>2. i \in 1 .. Len(calls) => ~IsServed(calls[i]) /\ SameOrigin(x, calls[i])
  <2>1. i \in 1 .. Len(calls) => ~IsServed(calls[i])
    BY DEF Inv, Phases, Phase
  <2>2. i \in 1 .. Len(calls) => SameOrigin(x, calls[i])
    BY <1>1 DEF SameOrigin
  <2> QED BY <2>1, <2>2
<1>3. Grows /\ \A k \in 1 .. Len(calls) \ {i} : SameButPlace(calls'[k], calls[k])
  BY <1>2, OneGrows DEF Inv, IsStamped
<1>4. Shape'
  <2>1. CallTyped(x, i, life')
    <3>1. life \in Nat /\ life' = life
      BY ReplayAssumption DEF Inv, Shape
    <3> QED BY <1>1, <3>1 DEF CallTyped
  <2>2. i \notin ring'
    BY DEF Inv, Shape
  <2> QED BY <2>1, <2>2, ShapeKept DEF Inv
<1>5. Phases'
  <2>1. Phase(x, life)
    BY <1>1 DEF Phase
  <2> QED BY <1>1, <2>1, PhasesKept DEF Inv
<1>6. AllTraced'
  <2>1. Traced(calls', i)
    BY <1>3, ServedTraced DEF Inv
  <2> QED BY <1>3, <2>1, TracedKept DEF Inv
<1>7. Spans'
  <2>2. OwnHeaders(calls', i)
    BY <1>3, ServedOwns DEF Inv
  <2>3. spanSeq \in Nat /\ spanSeq + 1 \in Drawable
    <3>1. spanSeq \in Nat
      BY DEF Inv, Counted
    <3>2. Cardinality(At("signing")') \in Nat /\ Cardinality(At("rewrite")') \in Nat
      BY AtKept DEF Inv
    <3>3. spanSeq' + 2 * Cardinality(At("signing")') + Cardinality(At("rewrite")') <= 2 * Len(calls')
      BY DEF Counted
    <3>4. Len(calls') \in Nat /\ MaxCalls \in Nat /\ Len(calls') <= MaxCalls
      BY Lengths DEF Inv
    <3> QED BY <3>1, <3>2, <3>3, <3>4 DEF Drawable
  <2>4. \A s : Bears(calls', i, s) => s = spanSeq + 1
    BY <1>1 DEF Bears
  <2> HIDE DEF x
  <2> QED BY <1>1, <1>3, <2>2, <2>3, <2>4, SpansKept DEF Inv, x
<1>8. AllSigned'
  BY SignedKept DEF Inv
<1> QED BY <1>4, <1>5, <1>6, <1>7, <1>8 DEF Inv

\* A call goes on to its next place, and nothing else changes of it.
LEMMA PlaceKeeps ==
  ASSUME Inv, NEW i \in 1 .. Len(calls), OneChanges(i), Len(calls') = Len(calls),
         SameButPlace(calls'[i], calls[i]),
         calls[i].pc \in {"rewrite", "open"}, calls'[i].pc \in {"open", "done"},
         UNCHANGED <<spanSeq, traceSeq, life, now>>,
         ring' \subseteq ring \cup {i}, i \in ring' \ ring => calls'[i].pc = "done"
  PROVE  Inv'
<1> DEFINE x == calls'[i]
           r == calls[i]
<1>1. /\ DOMAIN x = Fields /\ x.cause = r.cause /\ x.line = r.line /\ x.life = r.life
      /\ x.signer = r.signer /\ x.way = r.way /\ x.head = r.head /\ x.out = r.out
      /\ x.trace = r.trace /\ x.reply = r.reply
      /\ IsServed(x) <=> IsServed(r)
      /\ IsStamped(x) <=> IsStamped(r)
      /\ SpansOf(x) = SpansOf(r) /\ SameOrigin(x, r)
  BY SameIsServed DEF SameButPlace, SameOrigin
<1>2. Grows /\ \A k \in 1 .. Len(calls) : SameButPlace(calls'[k], calls[k])
  <2>1. Grows /\ \A k \in 1 .. Len(calls) \ {i} : SameButPlace(calls'[k], calls[k])
    BY <1>1, OneGrows DEF Inv
  <2> QED BY <2>1
<1>3. Shape'
  <2>1. CallTyped(x, i, life')
    <3>1. CallTyped(r, i, life) /\ life' = life
      BY DEF Inv, Shape
    <3> QED BY <1>1, <3>1 DEF CallTyped
  <2>2. i \notin ring
    BY DEF Inv, Shape
  <2> QED BY <2>1, <2>2, ShapeKept DEF Inv
<1>4. Phases'
  <2>1. Phase(r, life) /\ Proper(r.head) /\ Proper(r.out)
    BY DEF Inv, Phases
  <2>2. IsServed(r)
    BY <2>1 DEF Phase
  <2>3. Phase(x, life)
    BY <1>1, <2>1, <2>2 DEF Phase
  <2> QED BY <1>1, <2>1, <2>3, PhasesKept DEF Inv
<1>5. Counted'
  <2>1. /\ Cardinality(At("signing")) \in Nat /\ Cardinality(At("signing")') \in Nat
        /\ Cardinality(At("signing")') <= Cardinality(At("signing"))
    BY AtKept DEF Inv
  <2>2. /\ Cardinality(At("rewrite")) \in Nat /\ Cardinality(At("rewrite")') \in Nat
        /\ Cardinality(At("rewrite")') <= Cardinality(At("rewrite"))
    BY AtKept DEF Inv
  <2>3. Len(calls) \in Nat
    BY DEF Inv, Shape
  <2> QED BY <2>1, <2>2, <2>3 DEF Inv, Counted
<1>6. AllTraced'
  <2>1. Traced(calls', i)
    BY <1>2, KeepsTraced DEF Inv, AllTraced
  <2> QED BY <1>2, <2>1, TracedKept DEF Inv
<1>7. Spans'
  <2>1. OwnHeaders(calls', i)
    BY <1>2, KeepsOwnHeaders DEF Inv, Spans
  <2>2. IsStamped(x) => Has(x.head, "X-DevHub-Span-ID")
    BY <1>1 DEF Inv, Spans
  <2>3. \A s : Bears(calls', i, s) => Bears(calls, i, s)
    BY <1>1 DEF Bears
  <2>4. spanSeq \in Nat /\ spanSeq' = spanSeq /\ life' = life
    BY DEF Inv, Counted
  <2> HIDE DEF x
  <2> QED BY <1>2, <2>1, <2>2, <2>3, <2>4, SpansKept DEF Inv, x
<1>8. AllSigned'
  <2>1. SignedBefore(r, now)
    BY DEF Inv, AllSigned
  <2>2. SignedBefore(x, now)
    BY <1>1, <2>1 DEF SignedBefore
  <2> QED BY <2>2, SignedKept DEF Inv
<1> QED BY <1>3, <1>4, <1>5, <1>6, <1>7, <1>8 DEF Inv

-------------------------------------------------------------------------------
(* The actions. *)

\* Neither an unsigned nor a bypassed replay has a provider.
LEMMA NoProvider == "none" \notin Supported /\ "none" # "bypass" /\ "bypass" \notin Supported
BY SignatureNames

\* A call of a client or a service, with proper headers.
LEMMA ArrivesKeeps ==
  ASSUME Inv, NEW h, NEW cause, Arrives(h, cause), Proper(h),
         cause # NoCause => /\ cause \in 1 .. Len(calls) /\ IsServed(calls[cause])
                            /\ IsStamped(calls[cause]) => LeadsTo(h, calls[cause].trace)
                            /\ \A k \in calls[cause].line : IsServed(calls[k])
                            /\ FromLast(calls, h, calls[cause].line \cup {cause})
  PROVE  Inv'
<1> DEFINE r == Origin(cause)
           n == Len(calls) + 1
<1>1. PICK way \in Ways : calls' = Append(calls, Received(way, h, r))
  BY DEF Arrives
<1>0. r = Origin(cause)
  OBVIOUS
<1> HIDE DEF r
<1>2. /\ DOMAIN r = Fields /\ r.cause = cause /\ r.life = life
      /\ cause = NoCause => r.line = {}
      /\ cause # NoCause => r.line = calls[cause].line \cup {cause}
      /\ r.signer = "none" /\ r.reply = NoTrace
  BY <1>0, OriginIs
<1>3. /\ Len(calls') = n /\ calls' = [k \in 1 .. Len(calls') |-> calls'[k]]
      /\ calls'[n] = Received(way, h, r) /\ \A k \in 1 .. Len(calls) : calls'[k] = calls[k]
  BY <1>1, Appended DEF Inv
<1>4. ServedFrom(calls'[n], h, r)
  BY <1>2, <1>3, ReceivedIs
<1>5. Len(calls) \in Nat /\ MaxCalls \in Nat /\ Len(calls) < MaxCalls
  BY ReplayAssumption DEF Inv, Shape, Arrives
<1>6. OneChanges(n)
  <2>1. Len(calls') <= MaxCalls /\ n \in 1 .. Len(calls') /\ Len(calls') \in {Len(calls), Len(calls) + 1}
    BY <1>3, <1>5
  <2>2. \A k \in 1 .. Len(calls') \ {n} : k \in 1 .. Len(calls) /\ calls'[k] = calls[k]
    BY <1>3, <1>5
  <2> QED BY <1>3, <2>1, <2>2 DEF OneChanges
<1>7. r.line \subseteq 1 .. n - 1 /\ r.cause \in {NoCause} \cup r.line /\ n - 1 = Len(calls)
  <2>1. CASE cause = NoCause
    BY <1>2, <1>5, <2>1
  <2>2. CASE cause # NoCause
    <3>1. calls[cause].line \subseteq 1 .. cause - 1 /\ cause \in 1 .. Len(calls)
      BY <2>2 DEF Inv, Shape, CallTyped
    <3>2. calls[cause].line \subseteq 1 .. Len(calls)
      BY <1>5, <3>1
    <3> QED BY <1>2, <1>5, <2>2, <3>1, <3>2
  <2> QED BY <2>1, <2>2
<1>8. FromLast(calls, h, r.line) /\ \A k \in r.line : IsServed(calls[k])
  BY <1>2 DEF FromLast
<1>9. Counted'
  <2>1. calls'[n].pc \in {"rewrite", "open"}
    BY <1>4 DEF ServedFrom
  <2>2. /\ Cardinality(At("signing")) \in Nat /\ Cardinality(At("signing")') \in Nat
        /\ Cardinality(At("signing")') <= Cardinality(At("signing"))
    BY <1>6, <2>1, AtKept DEF Inv
  <2>3. /\ Cardinality(At("rewrite")) \in Nat /\ Cardinality(At("rewrite")') \in Nat
        /\ Cardinality(At("rewrite")') <= Cardinality(At("rewrite")) + 1
    BY <1>6, AtKept DEF Inv
  <2>4. spanSeq' = spanSeq + 1 /\ traceSeq' \in {traceSeq, traceSeq + 1}
    BY DEF Arrives, Drawn
  <2>5. /\ spanSeq \in Nat /\ traceSeq \in 0 .. Len(calls)
        /\ spanSeq + 2 * Cardinality(At("signing")) + Cardinality(At("rewrite")) <= 2 * Len(calls)
    BY DEF Inv, Counted
  <2>6. Len(calls) \in Nat /\ Len(calls') = Len(calls) + 1
    BY <1>3, <1>5
  <2>7. spanSeq' \in Nat /\ traceSeq' \in 0 .. Len(calls')
    BY <2>4, <2>5, <2>6
  <2> DEFINE s == Cardinality(At("signing"))
             S == Cardinality(At("signing")')
             w == Cardinality(At("rewrite"))
             W == Cardinality(At("rewrite")')
             k == Len(calls)
             K == Len(calls')
  <2>8. /\ s \in Nat /\ S \in Nat /\ S <= s /\ w \in Nat /\ W \in Nat /\ W <= w + 1
        /\ spanSeq \in Nat /\ spanSeq' = spanSeq + 1 /\ k \in Nat /\ K = k + 1
        /\ spanSeq + 2 * s + w <= 2 * k
    BY <2>2, <2>3, <2>4, <2>5, <2>6
  <2> HIDE DEF s, S, w, W, k, K
  <2>9. spanSeq' + 2 * S + W <= 2 * K
    BY <2>8
  <2> QED BY <2>7, <2>9 DEF Counted, S, W, K
<1>10. SignedBefore(calls'[n], now)
  BY <1>2, <1>4, NoProvider DEF SignedBefore, ServedFrom, SameOrigin
<1>11. /\ r.cause # NoCause => IsServed(calls[r.cause])
       /\ r.cause # NoCause /\ IsStamped(calls[r.cause]) =>
            LeadsTo(h, calls[r.cause].trace) /\ r.reply = NoTrace
  BY <1>2
<1>12. n \notin 1 .. Len(calls)
  BY <1>5
<1>13. UNCHANGED <<life, now, ring>> /\ spanSeq' = spanSeq + 1
  BY DEF Arrives, Drawn
<1> HIDE DEF n
<1> QED BY <1>2, <1>4, <1>6, <1>7, <1>8, <1>9, <1>10, <1>11, <1>12, <1>13, ServeKeeps

LEMMA ClientCallKeeps ==
  ASSUME Inv, ClientCall
  PROVE  Inv'
<1>1. PICK h \in ClientHeaders : Arrives(h, NoCause)
  BY DEF ClientCall
<1>2. Proper(h)
  BY ReplayAssumption DEF Proper
<1> QED BY <1>1, <1>2, ArrivesKeeps

LEMMA ServiceCallKeeps ==
  ASSUME Inv, NEW i \in 1 .. Len(calls), ServiceCall(i)
  PROVE  Inv'
<1>1. PICK names \in Propagated : Arrives(Kept(calls[i].out, names), i)
  BY DEF ServiceCall
<1> DEFINE h == Kept(calls[i].out, names)
<1>2. /\ DOMAIN h \subseteq DOMAIN calls[i].out
      /\ TracesIn(h) \subseteq TracesIn(calls[i].out)
      /\ \A S : From(calls[i].out, S) => From(h, S)
      /\ \A t : BothLeadTo(calls[i].out, t) => LeadsTo(h, t)
  BY KeptContext
<1>3. Proper(calls[i].out) /\ IsServed(calls[i])
  <2>1. calls[i].reached
    BY DEF ServiceCall
  <2>2. Phase(calls[i], life) /\ Proper(calls[i].out)
    BY DEF Inv, Phases
  <2> QED BY <2>1, <2>2 DEF Phase
<1>4. IsStamped(calls[i]) => BothLeadTo(calls[i].out, calls[i].trace)
  BY DEF Inv, AllTraced, Traced
<1>5. /\ FromLast(calls, calls[i].out, calls[i].line \cup {i})
      /\ \A k \in calls[i].line : IsServed(calls[k])
  BY DEF Inv, Spans, OwnHeaders
<1>6. i # NoCause
  BY DEF NoCause
<1> HIDE DEF h
<1>7. Proper(h) /\ FromLast(calls, h, calls[i].line \cup {i})
  BY <1>2, <1>3, <1>5 DEF Proper, FromLast
<1>8. Arrives(h, i)
  BY <1>1 DEF h
<1> QED BY <1>2, <1>3, <1>4, <1>5, <1>6, <1>7, <1>8, ArrivesKeeps

LEMMA OneReplaced ==
  ASSUME Shape, NEW i \in 1 .. Len(calls), NEW x, calls' = [calls EXCEPT ![i] = x]
  PROVE  OneChanges(i) /\ Len(calls') = Len(calls) /\ calls'[i] = x
<1>1. /\ Len(calls') = Len(calls) /\ calls' = [k \in 1 .. Len(calls') |-> calls'[k]]
      /\ calls'[i] = x /\ \A k \in 1 .. Len(calls) \ {i} : calls'[k] = calls[k]
  BY Replaced
<1>2. Len(calls) \in Nat /\ MaxCalls \in Nat /\ Len(calls) <= MaxCalls
  BY ReplayAssumption DEF Shape
<1>3. Len(calls') \in {Len(calls), Len(calls) + 1} /\ Len(calls') <= MaxCalls /\ i \in 1 .. Len(calls')
  BY <1>1, <1>2
<1>4. \A k \in 1 .. Len(calls') \ {i} : k \in 1 .. Len(calls) /\ calls'[k] = calls[k]
  BY <1>1
<1> QED BY <1>1, <1>3, <1>4 DEF OneChanges

LEMMA EmitKeeps ==
  ASSUME Inv, NEW i \in 1 .. Len(calls), Emit(i)
  PROVE  Inv'
<1> DEFINE r == calls[i]
           x == [r EXCEPT !.pc = "done"]
<1>1. calls' = [calls EXCEPT ![i] = x]
  BY DEF Emit
<1>2. DOMAIN r = Fields
  BY DEF Inv, Shape, CallTyped
<1> HIDE DEF r
<1>3. SameButPlace(x, r) /\ x.pc = "done"
  BY <1>2 DEF SameButPlace, SameOrigin, Fields
<1> HIDE DEF x
<1>4. OneChanges(i) /\ Len(calls') = Len(calls) /\ calls'[i] = x
  BY <1>1, OneReplaced DEF Inv
<1>5. r.pc = "open" /\ ring' = ring \cup {i} /\ UNCHANGED <<spanSeq, traceSeq, life, now>>
  BY DEF Emit, r
<1> QED BY <1>3, <1>4, <1>5, PlaceKeeps DEF r

LEMMA RewriteKeeps ==
  ASSUME Inv, NEW i \in 1 .. Len(calls), Rewrite(i)
  PROVE  Inv'
<1> DEFINE r == calls[i]
<1>1. /\ CallTyped(r, i, life) /\ Phase(r, life) /\ Proper(r.head) /\ Proper(r.out)
      /\ Traced(calls, i) /\ OwnHeaders(calls, i) /\ SignedBefore(r, now)
  BY DEF Inv, Shape, Phases, AllTraced, Spans, AllSigned
<1>2. r.pc = "rewrite" /\ UNCHANGED <<life, now, ring>>
  BY DEF Rewrite
<1>3. CASE calls' = [calls EXCEPT ![i] = [r EXCEPT !.pc = "open"]] /\ UNCHANGED <<spanSeq, traceSeq>>
  <2> DEFINE x == [r EXCEPT !.pc = "open"]
  <2>1. DOMAIN r = Fields
    BY <1>1 DEF CallTyped
  <2>2. calls' = [calls EXCEPT ![i] = x]
    BY <1>3
  <2> HIDE DEF r
  <2>3. SameButPlace(x, r) /\ x.pc = "open"
    BY <2>1 DEF SameButPlace, SameOrigin, Fields
  <2> HIDE DEF x
  <2>4. OneChanges(i) /\ Len(calls') = Len(calls) /\ calls'[i] = x
    BY <2>2, OneReplaced DEF Inv
  <2> QED BY <1>2, <1>3, <2>3, <2>4, PlaceKeeps DEF r
<1>4. CASE /\ calls' = [calls EXCEPT ![i] = [r EXCEPT !.pc = "open", !.reached = TRUE,
                                                      !.out = StampedAgain(r.head)]]
           /\ Drawn(r.head)
  <2> DEFINE c == Extracted(r.head)
             y == Stamped(r.head, c)
             x == [r EXCEPT !.pc = "open", !.reached = TRUE, !.out = y]
  <2>1. calls' = [calls EXCEPT ![i] = x]
    BY <1>4 DEF StampedAgain
  <2>2. /\ IsStamped(r) /\ r.out = r.head /\ r.life = life
        /\ BothLeadTo(r.head, r.trace) /\ LeadsTo(r.head, r.trace)
    BY <1>1, <1>2 DEF Phase, Traced, BothLeadTo
  <2>3. c.trace = r.trace /\ c.span = spanSeq + 1 /\ c.parent = ParentSpanID(r.head)
    BY <2>2, TraceLeadsTo DEF Extracted, ExtractOrGenerateContext, OwnSpan
  <2>4. spanSeq' = spanSeq + 1 /\ traceSeq' = traceSeq
    BY <1>4, <2>2, TraceLeadsTo DEF Drawn
  <2>6. y = Stamped(r.head, c)
    OBVIOUS
  <2> HIDE DEF c, y
  <2>7. /\ DOMAIN y \subseteq Names
        /\ BothLeadTo(y, c.trace)
        /\ Has(y, "X-DevHub-Span-ID") /\ Get(y, "X-DevHub-Span-ID") = c.span
    <3>1. c.trace[1] \notin {"short", "long"} /\ DOMAIN r.head \subseteq Names
      BY <1>1, <2>2, <2>3 DEF LeadsTo, Proper
    <3> QED BY <2>6, <3>1, StampedContext
  <2>8. Proper(y)
    BY <1>1, <2>2, <2>3, <2>7 DEF Proper, BothLeadTo, LeadsTo
  <2>9. DOMAIN r = Fields
    BY <1>1 DEF CallTyped
  <2> HIDE DEF r
  <2>10. /\ DOMAIN x = Fields /\ SameOrigin(x, r) /\ x.pc = "open" /\ x.reached = TRUE
         /\ x.way = r.way /\ x.head = r.head /\ x.out = y
         /\ x.trace = r.trace /\ x.reply = r.reply
    BY <2>9 DEF SameOrigin, Fields
  <2> HIDE DEF x
  <2>11. OneChanges(i) /\ Len(calls') = Len(calls) /\ calls'[i] = x
    BY <2>1, OneReplaced DEF Inv
  <2>12. IsServed(x) /\ IsStamped(x) /\ IsServed(r)
    BY <2>2, <2>10 DEF IsStamped, IsServed
  <2>13. SpansOf(r) = {Get(r.head, "X-DevHub-Span-ID")} /\ SpansOf(x) = SpansOf(r) \cup {spanSeq + 1}
    BY <2>2, <2>3, <2>7, <2>10 DEF SpansOf
  <2>14. Grows /\ \A k \in 1 .. Len(calls) \ {i} : SameButPlace(calls'[k], calls[k])
    BY <2>10, <2>11, <2>13, OneGrows DEF Inv, r
  <2>15. Shape'
    <3>1. CallTyped(x, i, life')
      BY <1>1, <1>2, <2>10 DEF CallTyped, SameOrigin, r
    <3>2. i \notin ring
      BY <1>2 DEF Inv, Shape, r
    <3> QED BY <1>2, <2>11, <3>1, <3>2, ShapeKept DEF Inv
  <2>16. Phases'
    <3>1. Phase(x, life)
      BY <2>2, <2>10, <2>12 DEF Phase, SameOrigin
    <3> QED BY <1>1, <1>2, <2>8, <2>10, <2>11, <3>1, PhasesKept DEF Inv, r
  <2>17. Counted'
    <3>1. /\ Cardinality(At("signing")) \in Nat /\ Cardinality(At("signing")') \in Nat
          /\ Cardinality(At("signing")') <= Cardinality(At("signing"))
      BY <2>10, <2>11, AtKept DEF Inv
    <3>2. /\ Cardinality(At("rewrite")) \in Nat /\ Cardinality(At("rewrite")') \in Nat
          /\ Cardinality(At("rewrite")') <= Cardinality(At("rewrite")) - 1
      BY <1>2, <2>10, <2>11, AtKept DEF Inv, r
    <3>3. Len(calls) \in Nat
      BY DEF Inv, Shape
    <3>4. /\ spanSeq \in Nat /\ traceSeq \in 0 .. Len(calls)
          /\ spanSeq + 2 * Cardinality(At("signing")) + Cardinality(At("rewrite")) <= 2 * Len(calls)
      BY DEF Inv, Counted
    <3>5. spanSeq' \in {spanSeq, spanSeq + 1} /\ traceSeq' = traceSeq /\ Len(calls') = Len(calls)
      BY <2>4, <2>11
    <3>6. spanSeq' \in Nat /\ traceSeq' \in 0 .. Len(calls')
      BY <3>3, <3>4, <3>5
    <3>7. spanSeq' + 2 * Cardinality(At("signing")') + Cardinality(At("rewrite")') <= 2 * Len(calls')
      BY <3>1, <3>2, <3>3, <3>4, <3>5, SMTT(30)
    <3> QED BY <3>6, <3>7 DEF Counted
  <2>18. AllTraced'
    <3>1. Traced(calls', i)
      <4>1. r.cause # NoCause => r.cause \in 1 .. i - 1 /\ r.cause # i /\ r.cause \in 1 .. Len(calls)
        BY <1>1, <2>11, Lengths DEF CallTyped, Inv, r
      <4>2. r.cause # NoCause => calls'[r.cause] = calls[r.cause]
        BY <2>11, <4>1 DEF OneChanges
      <4>3. /\ r.cause # NoCause => IsServed(calls[r.cause])
            /\ r.cause # NoCause /\ IsStamped(calls[r.cause]) =>
                 /\ r.trace = calls[r.cause].trace
                 /\ r.reply # NoTrace => r.reply = r.trace
        BY <1>1, <2>12 DEF Traced, r
      <4>4. x.cause = r.cause
        BY <2>10 DEF SameOrigin
      <4> QED BY <2>2, <2>3, <2>7, <2>10, <2>11, <2>12, <4>2, <4>3, <4>4 DEF Traced
    <3> QED BY <2>11, <2>14, <3>1, TracedKept DEF Inv
  <2>19. Spans'
    <3>1. OwnHeaders(calls', i)
      <4> DEFINE L == r.line
      <4>1. /\ \A k \in L : IsServed(calls[k])
            /\ FromLast(calls, r.head, L \cup {i})
            /\ Has(r.head, "X-DevHub-Parent-Span-ID") =>
                 \A k \in L : Last(calls, L, k) =>
                   Get(r.head, "X-DevHub-Parent-Span-ID") \in SpansOf(calls[k])
        BY <1>1, <2>2 DEF OwnHeaders, r
      <4>2. L \in SUBSET (1 .. Len(calls)) /\ L \in SUBSET (1 .. i - 1) /\ i \in Nat
        BY <1>1, <2>11, Lengths DEF CallTyped, Inv, r
      <4>3. x.line = L
        BY <2>10 DEF SameOrigin
      <4> HIDE DEF L
      <4>4. From(r.head, SpansOf(r))
        <5>1. Last(calls, L \cup {i}, i)
          BY <2>2, <4>2, LastOfMore DEF r
        <5> QED BY <4>1, <5>1 DEF FromLast, r
      <4>5. From(x.head, SpansOf(x)) /\ From(x.out, SpansOf(x))
        <5>1. c.span \in SpansOf(x) /\ SpansOf(r) \subseteq SpansOf(x)
          BY <2>3, <2>13
        <5>2. From(y, SpansOf(x))
          BY <2>6, <5>1, StampedSpans
        <5>3. From(r.head, SpansOf(x))
          BY <4>4, <5>1, FromMore
        <5> QED BY <2>10, <5>2, <5>3
      <4>6. \A k \in L \cup {i} : Last(calls', L \cup {i}, k) => k = i
        BY <2>11, <2>12, <4>2, LastOfMore
      <4>7. FromLast(calls', x.head, L \cup {i}) /\ FromLast(calls', x.out, L \cup {i})
        BY <2>11, <4>5, <4>6 DEF FromLast
      <4>8. \A k \in L : IsServed(calls'[k])
        BY <2>14, <4>1, <4>2 DEF Grows, IsServed
      <4>9. \A k \in L : /\ Last(calls', L, k) <=> Last(calls, L, k)
                         /\ Last(calls, L, k) => SpansOf(calls[k]) \subseteq SpansOf(calls'[k])
        BY <2>14, <4>1, <4>2, KeepsLast
      <4> QED BY <2>10, <2>11, <4>1, <4>3, <4>7, <4>8, <4>9 DEF OwnHeaders
    <3>2. Has(x.head, "X-DevHub-Span-ID") /\ x.life = life
      BY <2>2, <2>10 DEF Inv, Spans, SameOrigin, r
    <3>3. spanSeq \in Nat /\ spanSeq + 1 \in Drawable
      <4>1. spanSeq \in Nat
        BY DEF Inv, Counted
      <4>2. Cardinality(At("signing")') \in Nat /\ Cardinality(At("rewrite")') \in Nat
        BY <2>11, AtKept DEF Inv
      <4>3. spanSeq' + 2 * Cardinality(At("signing")') + Cardinality(At("rewrite")') <= 2 * Len(calls')
        BY <2>17 DEF Counted
      <4>4. Len(calls') \in Nat /\ MaxCalls \in Nat /\ Len(calls') <= MaxCalls
        BY <2>11, Lengths DEF Inv
      <4> QED BY <2>4, <4>1, <4>2, <4>3, <4>4 DEF Drawable
    <3>4. \A s : Bears(calls', i, s) => Bears(calls, i, s) \/ s = spanSeq + 1
      BY <2>2, <2>11, <2>13 DEF Bears, r
    <3> QED BY <1>2, <2>4, <2>11, <2>14, <3>1, <3>2, <3>3, <3>4, SpansKept DEF Inv
  <2>20. AllSigned'
    <3>1. SignedBefore(x, now)
      BY <1>1, <2>10, <2>12 DEF SignedBefore, SameOrigin
    <3> QED BY <1>2, <2>11, <3>1, SignedKept DEF Inv
  <2> QED BY <2>15, <2>16, <2>17, <2>18, <2>19, <2>20 DEF Inv
<1>5. \/ /\ calls' = [calls EXCEPT ![i] = [r EXCEPT !.pc = "open", !.reached = TRUE,
                                                    !.out = StampedAgain(r.head)]]
         /\ Drawn(r.head)
      \/ calls' = [calls EXCEPT ![i] = [r EXCEPT !.pc = "open"]] /\ UNCHANGED <<spanSeq, traceSeq>>
  BY DEF Rewrite
<1> QED BY <1>3, <1>4, <1>5

LEMMA ReplaySignsKeeps ==
  ASSUME Inv, NEW i \in 1 .. Len(calls), ReplaySigns(i)
  PROVE  Inv'
<1> DEFINE n == Len(calls) + 1
           old == calls[i].head
           o == Origin(i)
<1>1. PICK signer :
        calls' = Append(calls, [o EXCEPT !.signer = signer, !.head = SignedBy(old, signer),
                                         !.out = SignedBy(old, signer)])
  BY DEF ReplaySigns
<1> DEFINE h == SignedBy(old, signer)
           x == [o EXCEPT !.signer = signer, !.head = h, !.out = h]
<1>2. h = SignedBy(old, signer) /\ o = Origin(i) /\ calls' = Append(calls, x)
  BY <1>1
<1>3. /\ calls[i].pc = "done" /\ i \in ring /\ Len(calls) < MaxCalls
      /\ UNCHANGED <<spanSeq, traceSeq, life, now, ring>>
  BY DEF ReplaySigns, Inv, Shape
<1>4. /\ CallTyped(calls[i], i, life) /\ Phase(calls[i], life) /\ Proper(old)
      /\ Traced(calls, i) /\ OwnHeaders(calls, i)
  BY DEF Inv, Shape, Phases, AllTraced, Spans
<1>5. IsServed(calls[i]) /\ i # NoCause
  BY <1>3, <1>4 DEF Phase, NoCause
<1> HIDE DEF h, o
<1>6. /\ DOMAIN o = Fields /\ o.cause = i /\ o.life = life
      /\ o.line = calls[i].line \cup {i}
      /\ o.reply = NoTrace /\ o.trace = NoTrace
      /\ o.pc = "signing" /\ o.way = "ingress" /\ ~o.reached
  BY <1>2, <1>5, OriginIs
<1>7. /\ DOMAIN x = Fields /\ x.cause = i /\ x.life = life
      /\ x.line = calls[i].line \cup {i} /\ x.signer = signer
      /\ x.reply = NoTrace /\ x.trace = NoTrace
      /\ x.pc = "signing" /\ x.way = "ingress" /\ x.head = h /\ x.out = h
  BY <1>6 DEF Fields
<1>8. ~x.reached
  BY <1>6 DEF Fields
<1> HIDE DEF x
<1>9. /\ DOMAIN h \subseteq Names /\ SameContext(h, old)
      /\ signer \in Supported => /\ SignatureHeader[signer] \in DOMAIN h
                                 /\ h[SignatureHeader[signer]] = CalculateSignature(signer, now)
      /\ signer = "bypass" => DetectProvider(h) = {}
  BY <1>2, <1>4, SignedByIs DEF Proper
<1>10. /\ TracesIn(h) = TracesIn(old)
       /\ \A S : From(old, S) => From(h, S)
       /\ \A t : BothLeadTo(old, t) => BothLeadTo(h, t)
  BY <1>9, SameIds
<1>11. Proper(h)
  BY <1>4, <1>9, <1>10 DEF Proper
<1>12. /\ Len(calls') = n /\ calls' = [k \in 1 .. Len(calls') |-> calls'[k]]
       /\ calls'[n] = x /\ \A k \in 1 .. Len(calls) : calls'[k] = calls[k]
  BY <1>2, Appended DEF Inv
<1>13. Len(calls) \in Nat /\ MaxCalls \in Nat
  BY ReplayAssumption DEF Inv, Shape
<1>14. OneChanges(n)
  <2>1. Len(calls') <= MaxCalls /\ n \in 1 .. Len(calls') /\ Len(calls') \in {Len(calls), Len(calls) + 1}
    BY <1>3, <1>12, <1>13
  <2>2. \A k \in 1 .. Len(calls') \ {n} : k \in 1 .. Len(calls) /\ calls'[k] = calls[k]
    BY <1>12, <1>13
  <2> QED BY <1>12, <2>1, <2>2 DEF OneChanges
<1>15. n \notin 1 .. Len(calls) /\ n - 1 = Len(calls)
  BY <1>13
<1> HIDE DEF n
<1>16. ~IsServed(x) /\ ~IsStamped(x)
  BY <1>7 DEF IsServed, IsStamped
<1>17. Grows /\ \A k \in 1 .. Len(calls) \ {n} : SameButPlace(calls'[k], calls[k])
  BY <1>14, <1>15, OneGrows DEF Inv
<1>18. Shape'
  <2>1. x.line \subseteq 1 .. n - 1
    BY <1>4, <1>7, <1>13, <1>15 DEF CallTyped
  <2>2. life \in Nat /\ life' = life
    BY <1>3, ReplayAssumption DEF Inv, Shape
  <2>3. CallTyped(x, n, life')
    BY <1>7, <2>1, <2>2 DEF CallTyped, Ways
  <2>4. n \notin ring
    BY <1>15 DEF Inv, Shape
  <2> QED BY <1>3, <1>12, <1>14, <2>3, <2>4, ShapeKept DEF Inv
<1>19. Phases'
  <2>1. Phase(x, life)
    BY <1>7, <1>8, <1>16 DEF Phase
  <2> QED BY <1>3, <1>7, <1>11, <1>12, <1>14, <2>1, PhasesKept DEF Inv
<1>20. Counted'
  <2>1. /\ Cardinality(At("signing")) \in Nat /\ Cardinality(At("signing")') \in Nat
        /\ Cardinality(At("signing")') <= Cardinality(At("signing")) + 1
    BY <1>14, AtKept DEF Inv
  <2>2. /\ Cardinality(At("rewrite")) \in Nat /\ Cardinality(At("rewrite")') \in Nat
        /\ Cardinality(At("rewrite")') <= Cardinality(At("rewrite"))
    BY <1>7, <1>12, <1>14, AtKept DEF Inv
  <2>3. Len(calls') = Len(calls) + 1
    BY <1>12 DEF n
  <2>4. /\ spanSeq \in Nat /\ traceSeq \in 0 .. Len(calls)
        /\ spanSeq + 2 * Cardinality(At("signing")) + Cardinality(At("rewrite")) <= 2 * Len(calls)
    BY DEF Inv, Counted
  <2>5. spanSeq' = spanSeq /\ traceSeq' = traceSeq
    BY <1>3
  <2>6. spanSeq' \in Nat /\ traceSeq' \in 0 .. Len(calls')
    BY <1>13, <2>3, <2>4, <2>5
  <2> DEFINE s == Cardinality(At("signing"))
             S == Cardinality(At("signing")')
             w == Cardinality(At("rewrite"))
             W == Cardinality(At("rewrite")')
             k == Len(calls)
             K == Len(calls')
  <2>7. /\ s \in Nat /\ S \in Nat /\ S <= s + 1 /\ w \in Nat /\ W \in Nat /\ W <= w
        /\ spanSeq \in Nat /\ spanSeq' = spanSeq /\ k \in Nat /\ K = k + 1
        /\ spanSeq + 2 * s + w <= 2 * k
    BY <1>13, <2>1, <2>2, <2>3, <2>4, <2>5
  <2> HIDE DEF s, S, w, W, k, K
  <2>8. spanSeq' + 2 * S + W <= 2 * K
    BY <2>7
  <2> QED BY <2>6, <2>8 DEF Counted, S, W, K
<1>21. AllTraced'
  <2>1. calls'[i] = calls[i]
    BY <1>12
  <2>2. IsStamped(calls[i]) => BothLeadTo(old, calls[i].trace)
    BY <1>4 DEF Traced
  <2>3. Traced(calls', n)
    BY <1>5, <1>7, <1>10, <1>12, <1>16, <2>1, <2>2 DEF Traced
  <2> QED BY <1>14, <1>17, <2>3, TracedKept DEF Inv
<1>22. Spans'
  <2>1. x.line \in SUBSET (1 .. Len(calls))
    BY <1>4, <1>7, <1>13 DEF CallTyped
  <2>2. /\ \A k \in x.line : IsServed(calls[k]) /\ IsServed(calls'[k])
        /\ FromLast(calls, h, x.line)
    <3>1. /\ \A k \in calls[i].line : IsServed(calls[k])
          /\ FromLast(calls, old, calls[i].line \cup {i})
      BY <1>4 DEF OwnHeaders
    <3>2. \A k \in x.line : IsServed(calls[k])
      BY <1>5, <1>7, <3>1
    <3>3. FromLast(calls, h, x.line)
      BY <1>7, <1>10, <3>1 DEF FromLast
    <3> QED BY <1>12, <2>1, <3>2, <3>3
  <2>3. FromLast(calls', h, x.line)
    BY <1>17, <2>1, <2>2, KeepsFrom
  <2>4. OwnHeaders(calls', n)
    <3>1. x.line \in SUBSET (1 .. n - 1) /\ n \in Nat
      BY <1>13, <1>15, <2>1 DEF n
    <3>2. ~IsStamped(calls'[n])
      BY <1>12, <1>16
    <3>3. \A k \in x.line \cup {n} : Last(calls', x.line \cup {n}, k) => k \in x.line /\ Last(calls', x.line, k)
      BY <3>1, <3>2, LastOfMore DEF Last
    <3>4. FromLast(calls', h, x.line \cup {n})
      BY <2>3, <3>3 DEF FromLast
    <3> QED BY <1>7, <1>12, <2>2, <3>2, <3>4 DEF OwnHeaders
  <2>5. spanSeq \in Nat /\ ~IsStamped(calls'[n]) /\ \A s : ~Bears(calls', n, s)
    BY <1>12, <1>16 DEF Inv, Counted, Bears
  <2> QED BY <1>3, <1>14, <1>17, <2>4, <2>5, SpansKept DEF Inv
<1>23. AllSigned'
  <2>1. now \in Nat
    BY ReplayAssumption DEF Inv, Shape
  <2>2. SignedBefore(x, now)
    BY <1>7, <1>9, <1>16, <2>1 DEF SignedBefore, CalculateSignature
  <2> QED BY <1>3, <1>12, <1>14, <2>2, SignedKept DEF Inv
<1> QED BY <1>18, <1>19, <1>20, <1>21, <1>22, <1>23 DEF Inv

LEMMA ReplayServesKeeps ==
  ASSUME Inv, NEW i \in 1 .. Len(calls), ReplayServes(i)
  PROVE  Inv'
<1> DEFINE o == calls[i]
           timed == TimestampHeader(o.head, o.signer, now)
           reply == IF Has(timed, "X-DevHub-Trace-ID") THEN Get(timed, "X-DevHub-Trace-ID")
                                                       ELSE <<"short", i>>
           h == With(timed, "X-DevHub-Trace-ID", reply)
           r == [o EXCEPT !.reply = reply]
<1>1. PICK way \in Ways : calls' = [calls EXCEPT ![i] = Received(way, h, r)]
  BY DEF ReplayServes
<1>2. o.pc = "signing" /\ Drawn(h) /\ UNCHANGED <<life, now, ring>>
  BY DEF ReplayServes
<1>3. /\ CallTyped(o, i, life) /\ Phase(o, life) /\ Proper(o.head)
      /\ Traced(calls, i) /\ OwnHeaders(calls, i) /\ SignedBefore(o, now)
  BY DEF Inv, Shape, Phases, AllTraced, Spans, AllSigned
<1>4. /\ timed = TimestampHeader(o.head, o.signer, now)
      /\ reply = IF Has(timed, "X-DevHub-Trace-ID") THEN Get(timed, "X-DevHub-Trace-ID")
                                                    ELSE <<"short", i>>
      /\ h = With(timed, "X-DevHub-Trace-ID", reply)
  OBVIOUS
<1> HIDE DEF timed, reply, h
<1>5. /\ DOMAIN timed \subseteq Names /\ SameContext(timed, o.head) /\ DOMAIN o.head \subseteq DOMAIN timed
      /\ \A k \in DOMAIN o.head \ {SlackTimestamp} : timed[k] = o.head[k]
      /\ o.signer = "slack" => SlackTimestamp \in DOMAIN timed /\ timed[SlackTimestamp] = now
      /\ o.signer # "slack" => timed = o.head
  <2> DEFINE g == o.head
             p == o.signer
  <2>1. DOMAIN g \subseteq Names /\ timed = TimestampHeader(g, p, now)
    BY <1>3, <1>4 DEF Proper
  <2> HIDE DEF g, p
  <2>2. /\ DOMAIN timed \subseteq Names /\ SameContext(timed, g) /\ DOMAIN g \subseteq DOMAIN timed
        /\ \A k \in DOMAIN g \ {SlackTimestamp} : timed[k] = g[k]
        /\ p = "slack" => SlackTimestamp \in DOMAIN timed /\ timed[SlackTimestamp] = now
        /\ p # "slack" => timed = g
    BY <2>1, TimestampIs
  <2> QED BY <2>2 DEF g, p
<1>6. /\ TracesIn(timed) = TracesIn(o.head)
      /\ \A S : From(o.head, S) => From(timed, S)
      /\ \A t : BothLeadTo(o.head, t) => BothLeadTo(timed, t)
  BY <1>5, SameIds
<1>7. NoTrace \notin TracesIn(timed)
  BY <1>3, <1>6 DEF Proper
<1>8. /\ DOMAIN h \subseteq Names /\ NoTrace \notin TracesIn(h)
      /\ \A S : From(timed, S) => From(h, S)
      /\ Has(h, "X-DevHub-Trace-ID")
      /\ DOMAIN timed \subseteq DOMAIN h /\ \A k \in DOMAIN timed \ ContextKeys : h[k] = timed[k]
      /\ DOMAIN h \subseteq DOMAIN timed \cup ContextKeys
      /\ \A t : BothLeadTo(timed, t) => BothLeadTo(h, t) /\ reply = t
  BY <1>4, <1>5, <1>7, NamedIs
<1>9. Proper(h) /\ spanSeq' = spanSeq + 1 /\ traceSeq' = traceSeq
  BY <1>2, <1>8 DEF Proper, Drawn, Generates
<1>10. DOMAIN o = Fields
  BY <1>3 DEF CallTyped
<1> HIDE DEF o
<1>11. DOMAIN r = Fields /\ SameOrigin(r, o) /\ r.reply = reply
  BY <1>10 DEF Fields, SameOrigin
<1> HIDE DEF r
<1> DEFINE x == Received(way, h, r)
<1>12. ServedFrom(x, h, r)
  BY <1>9, <1>11, ReceivedIs
<1> HIDE DEF x
<1>13. OneChanges(i) /\ Len(calls') = Len(calls) /\ calls'[i] = x
  BY <1>1, OneReplaced DEF Inv, x
<1>14. ~IsServed(o) /\ o.life = life /\ ~IsStamped(o)
  BY <1>2, <1>3 DEF Phase, IsStamped
<1>15. r.life = life /\ r.line = o.line /\ r.cause = o.cause /\ r.signer = o.signer
  BY <1>11, <1>14 DEF SameOrigin
<1>16. r.line \subseteq 1 .. i - 1 /\ r.cause \in {NoCause} \cup r.line
  BY <1>3, <1>15 DEF CallTyped
<1>17. /\ r.cause # NoCause => IsServed(calls[r.cause])
       /\ r.cause # NoCause /\ IsStamped(calls[r.cause]) => BothLeadTo(o.head, calls[r.cause].trace)
  BY <1>3, <1>14, <1>15 DEF Traced, o
<1>18. r.cause # NoCause /\ IsStamped(calls[r.cause]) =>
         LeadsTo(h, calls[r.cause].trace) /\ r.reply = calls[r.cause].trace
  BY <1>6, <1>8, <1>11, <1>17 DEF BothLeadTo
<1>19. SignedBefore(x, now)
  <2>1. now \in Nat
    BY ReplayAssumption DEF Inv, Shape
  <2>2. x.signer = o.signer /\ IsServed(x)
    BY <1>12, <1>15 DEF ServedFrom, SameOrigin
  <2>3. /\ \A k \in DOMAIN o.head \ (ContextKeys \cup {SlackTimestamp}) :
             k \in DOMAIN x.head /\ x.head[k] = o.head[k]
        /\ \A k \in DOMAIN timed \ ContextKeys : k \in DOMAIN x.head /\ x.head[k] = timed[k]
        /\ DOMAIN x.head \subseteq DOMAIN timed \cup ContextKeys
    <3>1. /\ \A k \in DOMAIN h \ ContextKeys : k \in DOMAIN x.head /\ x.head[k] = h[k]
          /\ DOMAIN x.head \subseteq DOMAIN h \cup ContextKeys
      BY <1>12 DEF ServedFrom
    <3>2. \A k \in DOMAIN timed \ ContextKeys : k \in DOMAIN x.head /\ x.head[k] = timed[k]
      BY <1>8, <3>1
    <3>3. DOMAIN x.head \subseteq DOMAIN timed \cup ContextKeys
      BY <1>8, <3>1
    <3> QED BY <1>5, <3>2, <3>3
  <2>4. CASE o.signer \in Supported
    <3> DEFINE key == SignatureHeader[o.signer]
    <3>1. key \notin ContextKeys /\ key # SlackTimestamp /\ SlackTimestamp \notin ContextKeys
      BY <2>4, KeysApart
    <3>2. /\ key \in DOMAIN o.head
          /\ o.head[key].by = "devhub" /\ o.head[key].provider = o.signer
          /\ o.signer = "slack" => o.head[key].at \in 0 .. now
      BY <1>3, <2>4 DEF SignedBefore
    <3> HIDE DEF key
    <3>3. key \in DOMAIN x.head /\ x.head[key] = o.head[key]
      BY <2>3, <3>1, <3>2
    <3>4. o.signer = "slack" => SlackTimestamp \in DOMAIN x.head /\ x.head[SlackTimestamp] = now
      BY <1>5, <2>3, <3>1
    <3>5. o.signer = "slack" => now \in o.head[key].at .. now
      BY <2>1, <3>2
    <3> QED BY <2>2, <2>4, <3>2, <3>3, <3>4, <3>5, NoProvider DEF SignedBefore, key
  <2>5. CASE o.signer = "bypass"
    <3>1. timed = o.head /\ DetectProvider(o.head) = {}
      BY <1>3, <1>5, <2>5 DEF SignedBefore
    <3>2. SignatureKeys \cap DOMAIN o.head = {}
      BY <3>1, SignatureNames DEF DetectProvider, SignatureKeys
    <3>3. SignatureKeys \cap DOMAIN x.head = {}
      BY <2>3, <3>1, <3>2, KeysApart
    <3>4. DetectProvider(x.head) = {}
      BY <3>3, SignatureNames DEF DetectProvider, SignatureKeys
    <3> QED BY <2>2, <2>5, <3>4, NoProvider DEF SignedBefore
  <2>6. CASE o.signer \notin Supported \cup {"bypass"}
    BY <2>2, <2>6 DEF SignedBefore
  <2> QED BY <2>4, <2>5, <2>6
<1>20. FromLast(calls, h, r.line) /\ \A k \in r.line : IsServed(calls[k])
  <2>1. /\ \A k \in o.line : IsServed(calls[k])
        /\ FromLast(calls, o.head, o.line \cup {i})
    BY <1>3 DEF OwnHeaders, o
  <2>2. i \in Nat /\ ~IsStamped(calls[i]) /\ o.line \in SUBSET (1 .. i - 1)
    BY <1>14, <1>15, <1>16 DEF o
  <2>3. \A k \in o.line : Last(calls, o.line, k) => Last(calls, o.line \cup {i}, k)
    BY <2>2, LastOfMore
  <2>4. \A S : From(o.head, S) => From(h, S)
    BY <1>6, <1>8
  <2> QED BY <1>15, <2>1, <2>3, <2>4 DEF FromLast
<1>21. Counted'
  <2>1. x.pc \in {"rewrite", "open"}
    BY <1>12 DEF ServedFrom
  <2>2. /\ Cardinality(At("signing")) \in Nat /\ Cardinality(At("signing")') \in Nat
        /\ Cardinality(At("signing")') <= Cardinality(At("signing")) - 1
    BY <1>2, <1>13, <2>1, AtKept DEF Inv, o
  <2>3. /\ Cardinality(At("rewrite")) \in Nat /\ Cardinality(At("rewrite")') \in Nat
        /\ Cardinality(At("rewrite")') <= Cardinality(At("rewrite")) + 1
    BY <1>13, AtKept DEF Inv
  <2>4. Len(calls) \in Nat
    BY DEF Inv, Shape
  <2>5. /\ spanSeq \in Nat /\ traceSeq \in 0 .. Len(calls)
        /\ spanSeq + 2 * Cardinality(At("signing")) + Cardinality(At("rewrite")) <= 2 * Len(calls)
    BY DEF Inv, Counted
  <2>6. spanSeq' \in {spanSeq, spanSeq + 1} /\ traceSeq' = traceSeq /\ Len(calls') = Len(calls)
    BY <1>9, <1>13
  <2>7. spanSeq' \in Nat /\ traceSeq' \in 0 .. Len(calls')
    BY <2>4, <2>5, <2>6
  <2> DEFINE s == Cardinality(At("signing"))
             S == Cardinality(At("signing")')
             w == Cardinality(At("rewrite"))
             W == Cardinality(At("rewrite")')
             k == Len(calls)
             K == Len(calls')
  <2>8. /\ s \in Nat /\ S \in Nat /\ S <= s - 1 /\ w \in Nat /\ W \in Nat /\ W <= w + 1
        /\ spanSeq \in Nat /\ spanSeq' \in {spanSeq, spanSeq + 1} /\ k \in Nat /\ K = k
        /\ spanSeq + 2 * s + w <= 2 * k
    BY <2>2, <2>3, <2>4, <2>5, <2>6
  <2> HIDE DEF s, S, w, W, k, K
  <2>9. spanSeq' + 2 * S + W <= 2 * K
    <3> DEFINE a == 2 * s
               A == 2 * S
               b == 2 * k
               B == 2 * K
    <3>1. spanSeq' <= spanSeq + 1 /\ spanSeq' \in Nat
      BY <2>8
    <3>2. {a, A, b, B} \subseteq Nat /\ A <= a - 2 /\ B = b /\ spanSeq + a + w <= b
      BY <2>8
    <3> HIDE DEF a, A, b, B
    <3>3. spanSeq' + A + W <= B
      BY <2>8, <3>1, <3>2
    <3> QED BY <3>3 DEF A, B
  <2> QED BY <2>7, <2>9 DEF Counted, S, W, K
<1>22. o.pc = "signing" /\ SameOrigin(r, calls[i])
  BY <1>2, <1>11 DEF o
<1>23. SignedBefore(calls'[i], now) /\ ServedFrom(calls'[i], h, r)
  BY <1>12, <1>13, <1>19
<1> QED BY <1>2, <1>9, <1>13, <1>15, <1>16, <1>17, <1>18, <1>20, <1>21, <1>22, <1>23, ServeKeeps DEF o

LEMMA TickKeeps ==
  ASSUME Inv, Tick
  PROVE  Inv'
<1>1. /\ UNCHANGED <<spanSeq, traceSeq, life, calls, ring>> /\ now < MaxTime /\ now' = now + 1
      /\ now \in Nat /\ MaxTime \in Nat
  BY ReplayAssumption DEF Tick, Inv, Shape
<1>2. Shape' /\ Phases' /\ Counted' /\ AllTraced'
  <2>1. now' \in 0 .. MaxTime
    BY <1>1
  <2> QED BY <1>1, <2>1 DEF Inv, Shape, Phases, Counted, At, AllTraced
<1>3. Spans'
  BY <1>1 DEF Inv, Spans
<1>4. AllSigned'
  <2>1. \A a, b \in 0 .. now : b \in a .. now => a \in 0 .. now' /\ b \in a .. now'
    BY <1>1
  <2>2. ASSUME NEW i \in 1 .. Len(calls) PROVE SignedBefore(calls[i], now')
    <3> DEFINE r == calls[i]
               key == SignatureHeader[r.signer]
    <3>1. SignedBefore(r, now)
      BY DEF Inv, AllSigned
    <3> HIDE DEF r
    <3>2. CASE r.signer = "slack" /\ r.signer \in Supported
      <4>1. /\ key \in DOMAIN r.head
            /\ r.head[key].by = "devhub" /\ r.head[key].provider = r.signer
            /\ r.head[key].at \in 0 .. now
            /\ IsServed(r) => /\ SlackTimestamp \in DOMAIN r.head
                              /\ r.head[SlackTimestamp] \in r.head[key].at .. now
        BY <3>1, <3>2 DEF SignedBefore
      <4>2. r.head[key].at \in 0 .. now'
        BY <1>1, <4>1
      <4>3. IsServed(r) => r.head[SlackTimestamp] \in r.head[key].at .. now'
        BY <1>1, <4>1
      <4> HIDE DEF key
      <4> QED BY <3>2, <4>1, <4>2, <4>3, NoProvider DEF SignedBefore, r, key
    <3>3. CASE ~(r.signer = "slack" /\ r.signer \in Supported)
      BY <3>1, <3>3, SignatureNames DEF SignedBefore, r
    <3> QED BY <3>2, <3>3
  <2> QED BY <1>1, <2>2 DEF AllSigned
<1> QED BY <1>2, <1>3, <1>4 DEF Inv

LEMMA RestartKeeps ==
  ASSUME Inv, Restart
  PROVE  Inv'
<1>1. /\ life < MaxRestarts /\ life' = life + 1 /\ spanSeq' = 0 /\ ring' = {}
      /\ UNCHANGED <<traceSeq, now>> /\ life \in Nat /\ MaxRestarts \in Nat
      /\ Len(calls) \in Nat /\ MaxCalls \in Nat
  BY ReplayAssumption DEF Restart, Inv, Shape
<1>2. DOMAIN calls = 1 .. Len(calls)
  BY DEF Inv, Shape
<1>3. ASSUME NEW i \in 1 .. Len(calls)
      PROVE  /\ SameButPlace(calls'[i], calls[i])
             /\ calls'[i].pc \in {"done", "lost"}
             /\ calls[i].pc # "done" => calls'[i].pc = "lost"
  <2> DEFINE r == calls[i]
             x == calls'[i]
  <2>1. x = IF r.pc = "done" THEN r ELSE [r EXCEPT !.pc = "lost"]
    BY <1>2 DEF Restart
  <2>2. DOMAIN r = Fields
    BY DEF Inv, Shape, CallTyped
  <2> HIDE DEF r, x
  <2>3. /\ SameButPlace(x, r) /\ x.pc \in {"done", "lost"}
        /\ r.pc # "done" => x.pc = "lost"
    <3>1. CASE r.pc = "done"
      BY <2>1, <2>2, <3>1 DEF SameButPlace, SameOrigin
    <3>2. CASE r.pc # "done"
      <4>1. x = [r EXCEPT !.pc = "lost"]
        BY <2>1, <3>2
      <4> QED BY <2>2, <4>1 DEF SameButPlace, SameOrigin, Fields
    <3> QED BY <3>1, <3>2
  <2> QED BY <2>3 DEF r, x
<1>4. Len(calls') = Len(calls) /\ calls' = [k \in 1 .. Len(calls') |-> calls'[k]]
  <2> DEFINE S == {calls'[k] : k \in 1 .. Len(calls)}
  <2>1. calls' \in [1 .. Len(calls) -> S]
    BY <1>2 DEF Restart
  <2> HIDE DEF S
  <2> QED BY <2>1, Changed DEF Inv
<1>5. Grows
  BY <1>3, SameIsServed DEF Grows
<1>6. ASSUME NEW i \in 1 .. Len(calls)
      PROVE  /\ CallTyped(calls'[i], i, life') /\ Phase(calls'[i], life')
             /\ Proper(calls'[i].head) /\ Proper(calls'[i].out)
             /\ SignedBefore(calls'[i], now)
             /\ IsStamped(calls'[i]) <=> IsStamped(calls[i])
             /\ SpansOf(calls'[i]) = SpansOf(calls[i]) /\ calls'[i].life = calls[i].life
             /\ calls'[i].head = calls[i].head
  <2> DEFINE r == calls[i]
             x == calls'[i]
  <2>1. /\ DOMAIN x = Fields /\ x.cause = r.cause /\ x.line = r.line /\ x.life = r.life
        /\ x.signer = r.signer /\ x.way = r.way /\ x.head = r.head /\ x.out = r.out
        /\ x.trace = r.trace /\ x.reply = r.reply /\ x.pc \in {"done", "lost"}
    BY <1>3 DEF SameButPlace, SameOrigin
  <2>2. /\ IsServed(x) <=> IsServed(r)
        /\ IsStamped(x) <=> IsStamped(r)
        /\ SpansOf(x) = SpansOf(r)
    BY <1>3, SameIsServed
  <2>3. CallTyped(r, i, life) /\ Phase(r, life) /\ Proper(r.head) /\ Proper(r.out) /\ SignedBefore(r, now)
    BY DEF Inv, Shape, Phases, AllSigned
  <2>4. x.reached = r.reached
    BY <1>3 DEF SameButPlace
  <2> HIDE DEF r, x
  <2>6. CallTyped(x, i, life')
    BY <1>1, <2>1, <2>3 DEF CallTyped
  <2>7. ~IsServed(x) => x.pc = "lost" /\ ~x.reached /\ x.reply = NoTrace
    <3>1. ~IsServed(r) => r.pc # "done" /\ ~r.reached /\ r.reply = NoTrace
      BY <2>3 DEF Phase
    <3>2. r.pc # "done" => x.pc = "lost"
      BY <1>3 DEF r, x
    <3> QED BY <2>1, <2>2, <2>4, <3>1, <3>2
  <2>8. Phase(x, life')
    BY <2>1, <2>7 DEF Phase
  <2>9. SignedBefore(x, now)
    BY <2>1, <2>2, <2>3 DEF SignedBefore
  <2> QED BY <2>1, <2>2, <2>3, <2>6, <2>8, <2>9 DEF r, x
<1>7. Shape'
  <2>1. life' \in 0 .. MaxRestarts
    BY <1>1
  <2> QED BY <1>1, <1>4, <1>6, <2>1 DEF Inv, Shape
<1>8. Phases' /\ AllSigned'
  BY <1>1, <1>4, <1>6 DEF Phases, AllSigned
<1>9. Counted'
  <2>1. \A k \in 1 .. Len(calls') : calls'[k].pc # "signing" /\ calls'[k].pc # "rewrite"
    BY <1>3, <1>4
  <2>2. At("signing")' = {} /\ At("rewrite")' = {}
    BY <2>1 DEF At
  <2>3. Cardinality({}) = 0
    BY FS_EmptySet
  <2>4. Cardinality(At("signing")') = 0 /\ Cardinality(At("rewrite")') = 0
    BY <2>2, <2>3
  <2>5. /\ spanSeq \in Nat /\ traceSeq \in 0 .. Len(calls)
        /\ spanSeq + 2 * Cardinality(At("signing")) + Cardinality(At("rewrite")) <= 2 * Len(calls)
    BY DEF Inv, Counted
  <2>6. /\ Cardinality(At("signing")) \in Nat /\ Cardinality(At("rewrite")) \in Nat /\ Len(calls) \in Nat
    BY AtIsFinite DEF Inv, Shape
  <2>7. spanSeq' = 0 /\ traceSeq' = traceSeq /\ Len(calls') = Len(calls)
    <3>1. spanSeq' = 0 /\ traceSeq' = traceSeq
      BY <1>1
    <3>2. Len(calls') = Len(calls)
      BY <1>4
    <3> QED BY <3>1, <3>2
  <2>8. spanSeq' \in Nat /\ traceSeq' \in 0 .. Len(calls')
    BY <2>5, <2>6, <2>7
  <2>9. spanSeq' + 2 * Cardinality(At("signing")') + Cardinality(At("rewrite")') <= 2 * Len(calls')
    BY <2>4, <2>5, <2>6, <2>7
  <2> QED BY <2>8, <2>9 DEF Counted
<1>10. AllTraced'
  <2>1. \A i \in 1 .. Len(calls') : Traced(calls', i)
    BY <1>3, <1>4, <1>5, KeepsTraced DEF Inv, AllTraced
  <2> QED BY <2>1 DEF AllTraced
<1>11. Spans'
  <2>1. \A i \in 1 .. Len(calls') : OwnHeaders(calls', i)
    BY <1>3, <1>4, <1>5, KeepsOwnHeaders DEF Inv, Spans
  <2>2. ASSUME NEW i \in 1 .. Len(calls'), IsStamped(calls'[i])
        PROVE  /\ SpansOf(calls'[i]) \subseteq Drawable
               /\ Has(calls'[i].head, "X-DevHub-Span-ID")
               /\ calls'[i].life # life'
    <3>1. i \in 1 .. Len(calls) /\ IsStamped(calls[i])
      BY <1>4, <1>6, <2>2
    <3>2. SpansOf(calls[i]) \subseteq Drawable /\ Has(calls[i].head, "X-DevHub-Span-ID")
      BY <3>1 DEF Inv, Spans
    <3>3. calls[i].life \in 0 .. life
      BY <3>1 DEF Inv, Shape, CallTyped
    <3>4. calls[i].life # life'
      BY <1>1, <3>3
    <3> QED BY <1>6, <3>1, <3>2, <3>4
  <2>3. ASSUME NEW i \in 1 .. Len(calls'), NEW j \in 1 .. Len(calls'), i # j,
               IsStamped(calls'[i]), IsStamped(calls'[j]), calls'[i].life = calls'[j].life
        PROVE  SpansOf(calls'[i]) \cap SpansOf(calls'[j]) = {}
    <3>1. /\ i \in 1 .. Len(calls) /\ IsStamped(calls[i])
          /\ j \in 1 .. Len(calls) /\ IsStamped(calls[j])
          /\ calls[i].life = calls[j].life
      BY <1>4, <1>6, <2>3
    <3>2. SpansOf(calls[i]) \cap SpansOf(calls[j]) = {}
      BY <2>3, <3>1 DEF Inv, Spans
    <3> QED BY <1>6, <3>1, <3>2
  <2> QED BY <2>1, <2>2, <2>3 DEF Spans
<1> QED BY <1>7, <1>8, <1>9, <1>10, <1>11 DEF Inv

-------------------------------------------------------------------------------
LEMMA InvInit ==
  ASSUME Init
  PROVE  Inv
<1>1. Len(calls) = 0 /\ calls = [i \in 1 .. Len(calls) |-> calls[i]] /\ 1 .. Len(calls) = {}
  <2>1. calls = << >> /\ Len(<< >>) = 0
    BY DEF Init
  <2>2. 1 .. Len(calls) = {} /\ << >> = [i \in {} |-> calls[i]]
    BY <2>1
  <2> QED BY <2>1, <2>2
<1>2. {MaxCalls, MaxRestarts, MaxTime} \subseteq Nat
  BY ReplayAssumption
<1>3. Shape
  BY <1>1, <1>2 DEF Shape, Init
<1>4. Phases /\ AllTraced /\ Spans /\ AllSigned
  BY <1>1 DEF Phases, AllTraced, Spans, AllSigned
<1>5. Counted
  <2>1. At("signing") = {} /\ At("rewrite") = {}
    BY <1>1 DEF At
  <2>2. Cardinality({}) = 0
    BY FS_EmptySet
  <2>3. Cardinality(At("signing")) = 0 /\ Cardinality(At("rewrite")) = 0
    BY <2>1, <2>2
  <2> QED BY <1>1, <2>3 DEF Counted, Init
<1> QED BY <1>3, <1>4, <1>5 DEF Inv

LEMMA InvStep ==
  ASSUME Inv, [Next]_vars
  PROVE  Inv'
<1>0. DOMAIN calls = 1 .. Len(calls)
  BY DEF Inv, Shape
<1>1. CASE ClientCall
  BY <1>1, ClientCallKeeps
<1>2. ASSUME NEW i \in 1 .. Len(calls), ServiceCall(i) PROVE Inv'
  BY <1>2, ServiceCallKeeps
<1>3. ASSUME NEW i \in 1 .. Len(calls), Rewrite(i) PROVE Inv'
  BY <1>3, RewriteKeeps
<1>4. ASSUME NEW i \in 1 .. Len(calls), Emit(i) PROVE Inv'
  BY <1>4, EmitKeeps
<1>5. ASSUME NEW i \in 1 .. Len(calls), ReplaySigns(i) PROVE Inv'
  BY <1>5, ReplaySignsKeeps
<1>6. ASSUME NEW i \in 1 .. Len(calls), ReplayServes(i) PROVE Inv'
  BY <1>6, ReplayServesKeeps
<1>7. CASE Tick
  BY <1>7, TickKeeps
<1>8. CASE Restart
  BY <1>8, RestartKeeps
<1>9. CASE UNCHANGED vars
  BY <1>9 DEF vars, Inv, Shape, Phases, Counted, At, AllTraced, Spans, AllSigned
<1> QED BY <1>0, <1>1, <1>2, <1>3, <1>4, <1>5, <1>6, <1>7, <1>8, <1>9 DEF Next

\* The inductive invariant holds in every behaviour.
LEMMA InvAlways == Spec => []Inv
<1>1. Init => Inv
  BY InvInit
<1>2. Inv /\ [Next]_vars => Inv'
  BY InvStep
<1> QED BY <1>1, <1>2, PTL DEF Spec

\* Type correctness.  That the counters stay in their bounds is not a matter of the
\* guards: a call draws two spans, and no more, and a replay none until it is served.
THEOREM TypeCorrect == Spec => []TypeOK
<1>1. ASSUME Inv PROVE TypeOK
  <2>1. /\ MaxCalls \in Nat /\ Len(calls) \in Nat /\ Len(calls) <= MaxCalls
        /\ DOMAIN calls = 1 .. Len(calls)
    BY <1>1, ReplayAssumption DEF Inv, Shape
  <2>2. spanSeq \in 0 .. 2 * MaxCalls
    <3>1. Cardinality(At("signing")) \in Nat /\ Cardinality(At("rewrite")) \in Nat
      BY <1>1, AtIsFinite DEF Inv
    <3>2. /\ spanSeq \in Nat
          /\ spanSeq + 2 * Cardinality(At("signing")) + Cardinality(At("rewrite")) <= 2 * Len(calls)
      BY <1>1 DEF Inv, Counted
    <3> QED BY <2>1, <3>1, <3>2
  <2>3. traceSeq \in 0 .. MaxCalls
    <3>1. traceSeq \in 0 .. Len(calls)
      BY <1>1 DEF Inv, Counted
    <3> QED BY <2>1, <3>1
  <2>4. ASSUME NEW i \in DOMAIN calls
        PROVE  /\ calls[i].pc \in {"signing", "rewrite", "open", "done", "lost"}
               /\ calls[i].way \in Ways
               /\ DOMAIN calls[i].head \subseteq Names /\ DOMAIN calls[i].out \subseteq Names
               /\ calls[i].line \subseteq 1 .. i - 1
               /\ calls[i].cause \in {NoCause} \cup calls[i].line
               /\ calls[i].life \in 0 .. life
    BY <1>1, <2>1, <2>4 DEF Inv, Shape, CallTyped, Phases, Proper
  <2>5. life \in 0 .. MaxRestarts /\ now \in 0 .. MaxTime
        /\ ring \subseteq {i \in DOMAIN calls : calls[i].pc = "done"}
    BY <1>1, <2>1 DEF Inv, Shape
  <2> QED BY <2>1, <2>2, <2>3, <2>4, <2>5 DEF TypeOK
<1> QED BY <1>1, InvAlways, PTL

\* What a stamped call caused stays in its trace, and so does the answer of a replay
\* (context.go:74-102, engine.go:338-344, replay.go:96-125).
THEOREM TraceStaysOne == Spec => []OneTrace
<1>1. ASSUME Inv PROVE OneTrace
  <2> SUFFICES ASSUME NEW i \in DOMAIN calls, calls[i].trace # NoTrace,
                      calls[i].cause \in Stamping
               PROVE  /\ calls[i].trace = calls[calls[i].cause].trace
                      /\ calls[i].reply # NoTrace => calls[i].reply = calls[i].trace
    BY DEF OneTrace, Served, Replays
  <2>1. DOMAIN calls = 1 .. Len(calls)
    BY <1>1 DEF Inv, Shape
  <2>2. Traced(calls, i)
    BY <1>1, <2>1 DEF Inv, AllTraced
  <2>3. calls[i].cause # NoCause /\ IsStamped(calls[calls[i].cause]) /\ IsServed(calls[i])
    BY <2>1 DEF Stamping, Served, IsStamped, IsServed, NoCause
  <2> QED BY <2>2, <2>3 DEF Traced
<1> QED BY <1>1, InvAlways, PTL

\* A recorded parent is a span of the last stamped call that led to the event, and of
\* no other event of that call's process, whatever clients send and however often the
\* counter starts again (engine.go:338-344, context.go:33).
THEOREM ParentsAreTheCallers == Spec => []ParentIsTheCaller
<1>1. ASSUME Inv PROVE ParentIsTheCaller
  <2> SUFFICES ASSUME NEW j \in Stamping, NEW k \in calls[j].line \cap Stamping,
                      calls[j].line \cap Stamping \subseteq 1 .. k,
                      Has(calls[j].head, "X-DevHub-Parent-Span-ID")
               PROVE  /\ ParentSpanOf(calls[j].head) \in SpansOf(calls[k])
                      /\ \A i \in Stamping :
                           /\ calls[i].life = calls[k].life
                           /\ SpanOf(calls[i].head) = ParentSpanOf(calls[j].head)
                           => i = k
    BY DEF ParentIsTheCaller, SpansOf, SpanOf
  <2>1. \A i : i \in Stamping <=> i \in 1 .. Len(calls) /\ IsStamped(calls[i])
    <3>1. DOMAIN calls = 1 .. Len(calls)
      BY <1>1 DEF Inv, Shape
    <3> QED BY <3>1 DEF Stamping, Served, IsStamped, IsServed
  <2>2. calls[j].line \subseteq 1 .. Len(calls)
    <3>1. calls[j].line \subseteq 1 .. j - 1 /\ Len(calls) \in Nat
      BY <1>1, <2>1 DEF Inv, Shape, CallTyped
    <3> QED BY <2>1, <3>1
  <2>3. Last(calls, calls[j].line, k)
    BY <2>1, <2>2 DEF Last
  <2>4. ParentSpanOf(calls[j].head) \in SpansOf(calls[k])
    <3>1. OwnHeaders(calls, j) /\ IsStamped(calls[j])
      BY <1>1, <2>1 DEF Inv, Spans
    <3> QED BY <2>3, <3>1 DEF OwnHeaders, ParentSpanOf
  <2>5. ASSUME NEW i \in Stamping, calls[i].life = calls[k].life, i # k,
               SpanOf(calls[i].head) = ParentSpanOf(calls[j].head)
        PROVE  FALSE
    <3>1. SpansOf(calls[i]) \cap SpansOf(calls[k]) = {}
      BY <1>1, <2>1, <2>5 DEF Inv, Spans
    <3>2. SpanOf(calls[i].head) \in SpansOf(calls[i])
      BY DEF SpanOf, SpansOf
    <3> QED BY <2>4, <2>5, <3>1, <3>2
  <2> QED BY <2>4, <2>5
<1> QED BY <1>1, InvAlways, PTL

\* A replay that is signed carries the new signature, and Slack's timestamp is of the
\* second of the signature or later; a bypassed one carries none that is detected
\* (signer.go:87-96, replay.go:61-79).
THEOREM ReplaysAreSignedAnew == Spec => []SignedAnew
<1>1. ASSUME Inv PROVE SignedAnew
  <2> SUFFICES ASSUME NEW i \in Replays
               PROVE  LET h == calls[i].head
                          p == calls[i].signer IN
                      /\ p \in Supported =>
                           /\ h[SignatureHeader[p]].by = "devhub"
                           /\ h[SignatureHeader[p]].provider = p
                           /\ p = "slack" =>
                                h[SlackTimestamp] \in h[SignatureHeader[p]].at .. now
                      /\ p = "bypass" => DetectProvider(h) = {}
    BY DEF SignedAnew
  <2>1. i \in 1 .. Len(calls) /\ IsServed(calls[i])
    <3>1. DOMAIN calls = 1 .. Len(calls)
      BY <1>1 DEF Inv, Shape
    <3> QED BY <3>1 DEF Replays, Served, IsServed
  <2>2. SignedBefore(calls[i], now)
    BY <1>1, <2>1 DEF Inv, AllSigned
  <2> QED BY <2>1, <2>2 DEF SignedBefore
<1> QED BY <1>1, InvAlways, PTL
===============================================================================

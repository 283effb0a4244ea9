------------------------------ MODULE TraceContext ------------------------------
(***************************************************************************)
(* pkg/tracing: the trace context in the headers of a request, and the      *)
(* waterfall built from the headers an event recorded.                      *)
(*                                                                          *)
(* A header is a function from the names that http.Header keeps, in its     *)
(* canonical spelling, to values; an absent name is an empty value.  A      *)
(* trace id is <<form, n>>: the n-th id of that form, "full" when it has    *)
(* the 32 characters of W3C.  A span id is a number.  A traceparent is the  *)
(* pair of ids in it.                                                       *)
(*                                                                          *)
(* Abstracted: the hexadecimal digits; a traceparent that does not parse    *)
(* for another reason than its trace id's length; sampling.  CopiedIDs,     *)
(* AlwaysGenerates and CallersSpan are mutants of the definition after them. *)
(***************************************************************************)
EXTENDS Naturals

NoSpan == 0

\* textproto.CanonicalMIMEHeaderKey on the names the code writes.
CanonicalKey ==
  [name \in {"traceparent", "X-DevHub-Trace-ID", "X-DevHub-Span-ID", "X-DevHub-Parent-Span-ID"} |->
     CASE name = "traceparent" -> "Traceparent"
       [] name = "X-DevHub-Trace-ID" -> "X-Devhub-Trace-Id"
       [] name = "X-DevHub-Span-ID" -> "X-Devhub-Span-Id"
       [] name = "X-DevHub-Parent-Span-ID" -> "X-Devhub-Parent-Span-Id"]

Has(h, name) == CanonicalKey[name] \in DOMAIN h
Get(h, name) == h[CanonicalKey[name]]
With(h, name, value) ==
  [k \in DOMAIN h \cup {CanonicalKey[name]} |-> IF k = CanonicalKey[name] THEN value ELSE h[k]]

\* An id of another length is padded with zeros or cut.
CopiedIDs(id) == id
FullLength(id) ==
  CASE id[1] = "short" -> <<"padded", id[2]>>
    [] id[1] = "long" -> <<"cut", id[2]>>
    [] OTHER -> id

FormatTraceparent(trace, span) == [trace |-> trace, span |-> span]

\* ParseTraceparent succeeds: only an id of 32 characters is accepted.
Parses(tp) == tp.trace[1] \notin {"short", "long"}

W3C(h) == Has(h, "traceparent") /\ Parses(Get(h, "traceparent"))
AlwaysGenerates(h) == TRUE
Generates(h) == ~W3C(h) /\ ~Has(h, "X-DevHub-Trace-ID")

\* The span of the caller is taken from the same place as the trace.
ParentSpanID(h) ==
  IF W3C(h) THEN Get(h, "traceparent").span
  ELSE IF Has(h, "X-DevHub-Span-ID") THEN Get(h, "X-DevHub-Span-ID") ELSE NoSpan

TraceID(h, fresh) ==
  IF W3C(h) THEN Get(h, "traceparent").trace
  ELSE IF Generates(h) THEN fresh ELSE FullLength(Get(h, "X-DevHub-Trace-ID"))

\* ExtractOrGenerateContext, with the ids the two generators would return.
CallersSpan(h, span) == IF ParentSpanID(h) = NoSpan THEN span ELSE ParentSpanID(h)
OwnSpan(h, span) == span

ExtractOrGenerateContext(h, span, fresh) ==
  [trace |-> TraceID(h, fresh), parent |-> ParentSpanID(h), span |-> OwnSpan(h, span)]

\* The engine writes the context back; an older parent stays when there is no new one.
Stamped(h, c) ==
  LET own == With(With(With(h, "traceparent", FormatTraceparent(c.trace, c.span)),
                       "X-DevHub-Trace-ID", c.trace), "X-DevHub-Span-ID", c.span) IN
  IF c.parent = NoSpan THEN own ELSE With(own, "X-DevHub-Parent-Span-ID", c.parent)

-------------------------------------------------------------------------------
\* BuildWaterfall looks the spans up in the recorded map, by the name as it is
\* written: no spelling is changed there.
Recorded(h, name) == IF name \in DOMAIN h THEN h[name] ELSE NoSpan

\* The nodes below which BuildWaterfall may hang e; it takes the first of a map's
\* order, and e is a root when there is none.
Candidates(events, e) ==
  {f \in events : /\ Recorded(e.headers, "X-DevHub-Parent-Span-ID") # NoSpan
                  /\ Recorded(f.headers, "X-DevHub-Span-ID")
                       = Recorded(e.headers, "X-DevHub-Parent-Span-ID")}

BuildWaterfall(events, target) ==
  LET matching == {e \in events : e.trace = target} IN
  [e \in matching |-> Candidates(matching, e)]
===============================================================================

-------------------------------- MODULE Webhook --------------------------------
(***************************************************************************)
(* pkg/webhook/signer.go: what re-signing and bypassing do to the headers   *)
(* of a replayed webhook.                                                   *)
(*                                                                          *)
(* A signature is a record: who made it, for which provider, over which     *)
(* timestamp (0 where the provider signs the payload alone).  Headers are   *)
(* functions from names in their canonical spelling, as the ring records    *)
(* them.                                                                    *)
(*                                                                          *)
(* Abstracted: the MAC itself, the payload and the secret; the marks that   *)
(* only say what was done (X-DevHub-Resigned-Webhook and the like).         *)
(* RecordedWins is a mutant of the definition after it.                     *)
(***************************************************************************)
EXTENDS Naturals

\* The header each provider signs into.
SignatureHeader ==
  [stripe |-> "Stripe-Signature",
   github |-> "X-Hub-Signature-256",
   razorpay |-> "X-Razorpay-Signature",
   shopify |-> "X-Shopify-Hmac-Sha256",
   slack |-> "X-Slack-Signature",
   generic_sha256 |-> "X-Signature-256"]

Supported == DOMAIN SignatureHeader
SlackTimestamp == "X-Slack-Request-Timestamp"

\* CalculateSignature: Stripe and Slack sign the time too.
CalculateSignature(provider, now) ==
  [by |-> "devhub", provider |-> provider,
   at |-> IF provider \in {"stripe", "slack"} THEN now ELSE 0]

\* out[key] = val, after the recorded headers were copied.
RecordedWins(headers, key, value) ==
  [k \in DOMAIN headers \cup {key} |-> IF k \in DOMAIN headers THEN headers[k] ELSE value]
NewWins(headers, key, value) ==
  [k \in DOMAIN headers \cup {key} |-> IF k = key THEN value ELSE headers[k]]

\* ResignHeaders up to the signature; an unsupported provider is an error, which
\* leaves the headers alone.
ResignHeaders(headers, provider, now) ==
  IF provider \notin Supported THEN headers
  ELSE NewWins(headers, SignatureHeader[provider], CalculateSignature(provider, now))

\* The rest of it: Slack's own timestamp header, from a second look at the clock.
TimestampHeader(headers, provider, now) ==
  IF provider = "slack" THEN NewWins(headers, SlackTimestamp, now) ELSE headers

\* BypassHeaders: the signatures go, SHA-1 included, but for the generic one.
SignatureKeys ==
  ({SignatureHeader[p] : p \in Supported} \ {SignatureHeader["generic_sha256"]})
    \cup {"X-Hub-Signature"}

BypassHeaders(headers) ==
  [k \in DOMAIN headers \ SignatureKeys |-> headers[k]]

\* DetectProvider: the header that a map's order shows first decides.
DetectProvider(headers) ==
  {p \in Supported \ {"generic_sha256"} : SignatureHeader[p] \in DOMAIN headers}
    \cup (IF "X-Hub-Signature" \in DOMAIN headers THEN {"github"} ELSE {})
===============================================================================

-------------------------------- MODULE MCReplay --------------------------------
(* TLC instance of Replay.                                                        *)
EXTENDS Replay, TLC

\* A client without context, one with an id of its own making and one with a W3C
\* context besides, whose spans are such as are drawn here; the last two bring
\* signatures to replay.
MCClientHeaders ==
  LET own == "X-Devhub-Trace-Id" :> <<"short", 0>> @@ "X-Devhub-Span-Id" :> 1
      w3c == "Traceparent" :> FormatTraceparent(<<"client", 1>>, 2)
      signed(name) == name :> [by |-> "sender", provider |-> "any", at |-> 0] IN
  {<< >>,
   own @@ signed("X-Hub-Signature") @@ signed("Stripe-Signature"),
   own @@ w3c @@ signed("X-Slack-Signature") @@ SlackTimestamp :> 0}
===============================================================================

---------------------------- MODULE CircuitBreaker ----------------------------
(***************************************************************************)
(* What the health monitor promises to the engine, without probes, locks    *)
(* and announcements: per registered target, the run of failures that no    *)
(* success has interrupted, and a breaker that is open from the third one   *)
(* on.  HealthMonitor implements this; Engine is built on it.               *)
(***************************************************************************)
EXTENDS Naturals

CONSTANTS
  Target,    \* the upstream URLs
  Threshold  \* failures in a row that open the breaker (3 in the code)

ASSUME BreakerAssumption == Threshold \in Nat \ {0}

VARIABLES
  known,     \* the registered targets
  streak,    \* failures since the last success, saturating at Threshold
  open       \* the target counts as unhealthy

breakerVars == <<known, streak, open>>

BreakerInit ==
  /\ known = {}
  /\ streak = [t \in Target |-> 0]
  /\ open = [t \in Target |-> FALSE]

\* RegisterTarget: a known target keeps its state.
Register(t) ==
  /\ known' = known \cup {t}
  /\ UNCHANGED <<streak, open>>

\* RecordSuccess, or a probe that got an answer: no-op for an unknown target.
Success(t) ==
  /\ IF t \in known
       THEN /\ streak' = [streak EXCEPT ![t] = 0]
            /\ open' = [open EXCEPT ![t] = FALSE]
       ELSE UNCHANGED <<streak, open>>
  /\ UNCHANGED known

Longer(n) == IF n < Threshold THEN n + 1 ELSE Threshold

\* RecordFailure, or a probe without an answer.
Failure(t) ==
  /\ IF t \in known
       THEN /\ streak' = [streak EXCEPT ![t] = Longer(@)]
            /\ open' = [open EXCEPT ![t] = Longer(streak[t]) = Threshold]
       ELSE UNCHANGED <<streak, open>>
  /\ UNCHANGED known

BreakerNext == \E t \in Target : Register(t) \/ Success(t) \/ Failure(t)

BreakerSpec == BreakerInit /\ [][BreakerNext]_breakerVars
===============================================================================

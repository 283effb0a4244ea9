---------------------------- MODULE HealthMonitor ----------------------------
(***************************************************************************)
(* pkg/proxy/health.go: the health monitor.  Requests report outcomes       *)
(* (RecordSuccess, RecordFailure) while a background goroutine probes       *)
(* every registered target; three consecutive failures, from whichever      *)
(* source, make a target unhealthy and one success makes it healthy again.  *)
(* Each flip is announced to the dashboard through onStatusChange: on a     *)
(* new goroutine by the passive reports, synchronously by the prober.       *)
(*                                                                          *)
(* Steps: every locked section is one step.  A probe takes three: the pick  *)
(* of a target, the answer, read with no lock held, and the locked section  *)
(* that applies the answer.  The goroutine scheduler may run announcements  *)
(* in any order, so notices is kept in the order the flips were made and    *)
(* DeliverAsync takes any.                                                  *)
(*                                                                          *)
(* Abstracted: times, latencies, messages; the traffic, which may report    *)
(* anything about a target at any time (Engine models what it reports);     *)
(* ConsecutiveFails, which saturates at MaxFails because the code only      *)
(* compares it with 3.  AllTargets, HealthyTargets, FailsKept,              *)
(* TripsOneLate and FlipsAlways are mutants of the definition after them.   *)
(***************************************************************************)
EXTENDS Integers, Sequences, FiniteSets

CONSTANTS
  Target,      \* the upstream URLs
  NoTarget,    \* the prober works on no target
  Threshold,   \* consecutive failures that trip the breaker (3 in the code)
  MaxFails,    \* bound: ConsecutiveFails saturates here
  MaxNotices   \* bound: goroutines announcing flips of one target at a time

ASSUME HealthAssumption ==
  /\ NoTarget \notin Target
  /\ Threshold \in Nat \ {0}
  /\ MaxFails \in Nat /\ MaxFails >= Threshold
  /\ MaxNotices \in Nat \ {0}

VARIABLES
  registered,  \* the keys of h.targets
  healthy,     \* TargetHealth.Healthy
  fails,       \* TargetHealth.ConsecutiveFails
  status,      \* TargetHealth.Status
  notices,     \* announcements made and not yet delivered, in flip order
  probe,       \* the prober: where it is, its round, its target, the answer
  done,        \* the context of Start is cancelled
  up,          \* environment: the upstream answers
  recent,      \* history: the last Threshold outcomes recorded for a target
  balance      \* history: "unhealthy" minus "healthy" announcements delivered

targetVars == <<healthy, fails, status, recent>>
vars == <<registered, healthy, fails, status, notices, probe, done, up, recent, balance>>

Statuses == {"HEALTHY", "DEGRADED", "UNHEALTHY", "UNKNOWN"}
Answers == {"ok", "404", "bad"}
Idle == [pc |-> "idle", todo |-> {}, at |-> NoTarget, answer |-> "ok"]

Init ==
  /\ registered = {}
  /\ healthy = [t \in Target |-> TRUE]
  /\ fails = [t \in Target |-> 0]
  /\ status = [t \in Target |-> "HEALTHY"]
  /\ notices = [t \in Target |-> << >>]
  /\ probe = Idle
  /\ done = FALSE
  /\ up \in [Target -> BOOLEAN]
  /\ recent = [t \in Target |-> << >>]
  /\ balance = [t \in Target |-> 0]

\* RegisterTarget: a known target keeps its state.
RegisterTarget(t) ==
  /\ t \notin registered
  /\ registered' = registered \cup {t}
  /\ UNCHANGED <<targetVars, notices, probe, done, up, balance>>

-------------------------------------------------------------------------------
FailsAfterFailure(t) == IF fails[t] < MaxFails THEN fails[t] + 1 ELSE MaxFails

FailsKept(t) == fails[t]
FailsAfterSuccess(t) == 0

TripsOneLate(f) == f > Threshold
Trips(f) == f >= Threshold

Remember(t, outcome) ==
  recent' = [recent EXCEPT ![t] =
    SubSeq(<<outcome>> \o @, 1, IF Len(@) < Threshold THEN Len(@) + 1 ELSE Threshold)]

\* The target becomes h with f failures and status s.
SetTarget(t, h, f, s) ==
  /\ healthy' = [healthy EXCEPT ![t] = h]
  /\ fails' = [fails EXCEPT ![t] = f]
  /\ status' = [status EXCEPT ![t] = s]

\* Announce the value h of Healthy when it differs from the one before.
FlipsAlways(t, h) == TRUE
Flips(t, h) == h # healthy[t]

Announce(t, h, sync) ==
  IF Flips(t, h)
    THEN /\ sync \/ Len(notices[t]) < MaxNotices
         /\ notices' = [notices EXCEPT ![t] = Append(@, [healthy |-> h, sync |-> sync])]
    ELSE UNCHANGED notices

RecordSuccess(t) ==
  /\ t \in registered
  /\ SetTarget(t, TRUE, FailsAfterSuccess(t), "HEALTHY")
  /\ Announce(t, TRUE, FALSE)
  /\ Remember(t, "ok")
  /\ UNCHANGED <<registered, probe, done, up, balance>>

\* Below the threshold a passive failure leaves Status as it was.
RecordFailure(t) ==
  /\ t \in registered
  /\ LET f == FailsAfterFailure(t) IN
       IF Trips(f)
         THEN SetTarget(t, FALSE, f, "UNHEALTHY") /\ Announce(t, FALSE, FALSE)
         ELSE SetTarget(t, healthy[t], f, status[t]) /\ UNCHANGED notices
  /\ Remember(t, "bad")
  /\ UNCHANGED <<registered, probe, done, up, balance>>

-------------------------------------------------------------------------------
AllTargets == Target
HealthyTargets == {t \in registered : healthy[t]}
ProbeTargets == registered

\* The ticker fires: probeAll copies the targets under the read lock.
ProbeRound ==
  /\ probe.pc = "idle"
  /\ ~done
  /\ probe' = [Idle EXCEPT !.pc = "pick", !.todo = ProbeTargets]
  /\ UNCHANGED <<registered, targetVars, notices, done, up, balance>>

\* The loop head: leave when the context is cancelled, else start one probe.
ProbePick ==
  /\ probe.pc = "pick"
  /\ \/ /\ done
        /\ probe' = [Idle EXCEPT !.pc = "stopped"]
     \/ /\ ~done
        /\ probe.todo = {}
        /\ probe' = Idle
     \/ /\ ~done
        /\ \E t \in probe.todo :
             probe' = [probe EXCEPT !.pc = "ask", !.at = t, !.todo = @ \ {t}]
  /\ UNCHANGED <<registered, targetVars, notices, done, up, balance>>

\* The answer of the target, or an error because the context was cancelled.
ProbeAnswer ==
  /\ probe.pc = "ask"
  /\ \E a \in (IF up[probe.at] THEN {"ok", "404"} ELSE {"bad"})
                 \cup (IF done THEN {"bad"} ELSE {}) :
       probe' = [probe EXCEPT !.pc = "apply", !.answer = a]
  /\ UNCHANGED <<registered, targetVars, notices, done, up, balance>>

\* The locked section of probeAll (health.go:274-296).
ProbeApply ==
  LET t == probe.at
      f == FailsAfterFailure(t)
  IN
  /\ probe.pc = "apply"
  /\ \/ /\ probe.answer \in {"ok", "404"}
        /\ SetTarget(t, TRUE, FailsAfterSuccess(t),
                     IF probe.answer = "ok" THEN "HEALTHY" ELSE "UNKNOWN")
        /\ Announce(t, TRUE, TRUE)
        /\ Remember(t, "ok")
     \/ /\ probe.answer = "bad"
        /\ IF Trips(f) THEN SetTarget(t, FALSE, f, "UNHEALTHY")
                       ELSE SetTarget(t, healthy[t], f, "DEGRADED")
        /\ Announce(t, IF Trips(f) THEN FALSE ELSE healthy[t], TRUE)
        /\ Remember(t, "bad")
  /\ probe' = [probe EXCEPT !.pc = IF notices' = notices THEN "pick" ELSE "notify"]
  /\ UNCHANGED <<registered, done, up, balance>>

\* Hand notice i of target t to the hub: onStatusChange runs.
Deliver(t, i) ==
  /\ notices' = [notices EXCEPT ![t] = SubSeq(@, 1, i - 1) \o SubSeq(@, i + 1, Len(@))]
  /\ balance' = [balance EXCEPT ![t] = IF notices[t][i].healthy THEN @ - 1 ELSE @ + 1]
  /\ UNCHANGED <<registered, targetVars, done, up>>

\* The prober makes its own announcement before it goes on.
ProbeNotify ==
  /\ probe.pc = "notify"
  /\ \E i \in 1 .. Len(notices[probe.at]) :
       notices[probe.at][i].sync /\ Deliver(probe.at, i)
  /\ probe' = [probe EXCEPT !.pc = "pick"]

\* A goroutine started by a passive report makes its announcement.
DeliverAsync(t) ==
  /\ \E i \in 1 .. Len(notices[t]) : ~notices[t][i].sync /\ Deliver(t, i)
  /\ UNCHANGED probe

\* The app's context is cancelled.
Cancel ==
  /\ ~done
  /\ done' = TRUE
  /\ UNCHANGED <<registered, targetVars, notices, probe, up, balance>>

\* An idle prober notices the cancellation in Start's select.
ProbeStop ==
  /\ probe.pc = "idle"
  /\ done
  /\ probe' = [Idle EXCEPT !.pc = "stopped"]
  /\ UNCHANGED <<registered, targetVars, notices, done, up, balance>>

\* Environment: the upstream starts or stops answering.
Toggle(t) ==
  /\ up' = [up EXCEPT ![t] = ~@]
  /\ UNCHANGED <<registered, targetVars, notices, probe, done, balance>>

Prober == ProbeRound \/ ProbePick \/ ProbeAnswer \/ ProbeApply \/ ProbeNotify \/ ProbeStop

Next ==
  \/ \E t \in Target : \/ RegisterTarget(t)
                       \/ RecordSuccess(t)
                       \/ RecordFailure(t)
                       \/ DeliverAsync(t)
                       \/ Toggle(t)
  \/ Prober
  \/ Cancel

\* The prober goroutine is scheduled and its ticker fires; traffic, upstreams and
\* the user are free to do nothing.
Fairness == WF_vars(Prober)

Spec == Init /\ [][Next]_vars /\ Fairness

-------------------------------------------------------------------------------
TypeOK ==
  /\ registered \subseteq Target
  /\ healthy \in [Target -> BOOLEAN]
  /\ fails \in [Target -> 0 .. MaxFails]
  /\ status \in [Target -> Statuses]
  /\ notices \in [Target -> Seq([healthy : BOOLEAN, sync : BOOLEAN])]
  /\ probe \in [pc : {"idle", "pick", "ask", "apply", "notify", "stopped"},
                todo : SUBSET registered, at : registered \cup {NoTarget}, answer : Answers]
  /\ done \in BOOLEAN
  /\ up \in [Target -> BOOLEAN]
  /\ recent \in [Target -> Seq({"ok", "bad"})]
  /\ balance \in [Target -> Int]

\* Healthy, ConsecutiveFails and Status never contradict each other, although
\* probes and requests write them in different combinations: the breaker is open
\* exactly from the third failure on, UNHEALTHY says exactly that, and a target
\* called DEGRADED has failed.
BreakerConsistent ==
  \A t \in Target :
    /\ ~healthy[t] <=> fails[t] >= Threshold
    /\ ~healthy[t] <=> status[t] = "UNHEALTHY"
    /\ status[t] = "DEGRADED" => fails[t] > 0

\* A target is unhealthy exactly when the last three outcomes recorded for it,
\* probes and requests together in the order they took the lock, were failures:
\* no success in between is lost and no single failure reopens the breaker.
OpenMeansThreeFailures ==
  \A t \in Target :
    ~healthy[t] <=> recent[t] = [i \in 1 .. Threshold |-> "bad"]

NoticesOf(t, h) == Cardinality({i \in 1 .. Len(notices[t]) : notices[t][i].healthy = h})

\* Every flip of Healthy is announced once and nothing else is: over what was
\* delivered and what is still on its way, the "unhealthy" announcements exceed
\* the "healthy" ones by one while the target is unhealthy, else by none.
EveryFlipAnnouncedOnce ==
  \A t \in Target :
    balance[t] + NoticesOf(t, FALSE) - NoticesOf(t, TRUE) = IF healthy[t] THEN 0 ELSE 1

\* An upstream that answers from some point on does not stay unhealthy while the
\* prober runs, whatever the requests report: an open breaker, which admits no
\* request, can only be closed by the prober.
BreakerRecloses ==
  \A t \in Target :
    <>[](t \in registered /\ up[t] /\ ~done) => []<>healthy[t]

Breaker == INSTANCE CircuitBreaker WITH
  known <- registered,
  streak <- [t \in Target |-> IF fails[t] < Threshold THEN fails[t] ELSE Threshold],
  open <- [t \in Target |-> ~healthy[t]]

\* Probes and requests together are, for the engine, one circuit breaker: every
\* locked section of the monitor counts as one success or one failure of one
\* target and no other step changes what IsCircuitBroken answers.
ImplementsBreaker == Breaker!BreakerSpec
===============================================================================

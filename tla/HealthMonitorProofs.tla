-------------------------- MODULE HealthMonitorProofs --------------------------
(***************************************************************************)
(* Theorems about HealthMonitor: its state is well typed, its three fields  *)
(* never contradict each other, it is a CircuitBreaker, a target is         *)
(* unhealthy exactly after Threshold failures in a row, and every flip of   *)
(* a target is announced once.                                              *)
(***************************************************************************)
EXTENDS HealthMonitor, SequenceTheorems, FiniteSetTheorems, FunctionTheorems, TLAPS

\* The prober works on a registered target between the pick and the announcement.
ProbeHasTarget == probe.pc \in {"ask", "apply", "notify"} => probe.at \in registered

Inv == TypeOK /\ ProbeHasTarget

-------------------------------------------------------------------------------
(* Facts about the operators. *)

\* A counted failure stays in range and is positive.
LEMMA FailuresInRange ==
  ASSUME TypeOK, NEW t \in Target
  PROVE  /\ FailsAfterFailure(t) \in 1 .. MaxFails
         /\ fails[t] < MaxFails => FailsAfterFailure(t) = fails[t] + 1
         /\ fails[t] >= MaxFails => FailsAfterFailure(t) = MaxFails
BY HealthAssumption DEF TypeOK, FailsAfterFailure

\* Setting a target keeps the three fields well typed.
LEMMA SetTargetTyped ==
  ASSUME TypeOK, NEW t \in Target, NEW h \in BOOLEAN, NEW f \in 0 .. MaxFails,
         NEW s \in Statuses, SetTarget(t, h, f, s)
  PROVE  /\ healthy' \in [Target -> BOOLEAN]
         /\ fails' \in [Target -> 0 .. MaxFails]
         /\ status' \in [Target -> Statuses]
BY DEF TypeOK, SetTarget

\* Remembering an outcome keeps the history well typed.
LEMMA RememberTyped ==
  ASSUME TypeOK, NEW t \in Target, NEW o \in {"ok", "bad"}, Remember(t, o)
  PROVE  recent' \in [Target -> Seq({"ok", "bad"})]
<1> DEFINE n == IF Len(recent[t]) < Threshold THEN Len(recent[t]) + 1 ELSE Threshold
           r == SubSeq(<<o>> \o recent[t], 1, n)
<1>1. recent[t] \in Seq({"ok", "bad"}) /\ Len(recent[t]) \in Nat
  BY DEF TypeOK
<1>2. <<o>> \o recent[t] \in Seq({"ok", "bad"}) /\ Len(<<o>> \o recent[t]) = Len(recent[t]) + 1
  BY <1>1
<1>3. n \in Nat /\ n <= Len(recent[t]) + 1
  BY <1>1, HealthAssumption
<1>4. r \in Seq({"ok", "bad"})
  BY <1>2, <1>3, <1>1
<1>5. recent' = [recent EXCEPT ![t] = r]
  BY DEF Remember
<1> QED BY <1>4, <1>5 DEF TypeOK

\* Announcing a flip, or nothing, keeps the notices well typed.
LEMMA AnnounceTyped ==
  ASSUME TypeOK, NEW t \in Target, NEW h \in BOOLEAN, NEW sync \in BOOLEAN, Announce(t, h, sync)
  PROVE  notices' \in [Target -> Seq([healthy : BOOLEAN, sync : BOOLEAN])]
<1> DEFINE N == [healthy : BOOLEAN, sync : BOOLEAN]
           n == [healthy |-> h, sync |-> sync]
<1>1. CASE Flips(t, h)
  <2>1. n \in N
    OBVIOUS
  <2>2. notices[t] \in Seq(N)
    BY DEF TypeOK
  <2>3. Append(notices[t], n) \in Seq(N)
    BY <2>1, <2>2
  <2>4. notices' = [notices EXCEPT ![t] = Append(notices[t], n)]
    BY <1>1 DEF Announce
  <2> QED BY <2>3, <2>4 DEF TypeOK
<1>2. CASE ~Flips(t, h)
  BY <1>2 DEF Announce, TypeOK
<1> QED BY <1>1, <1>2

\* A sequence without its i-th element.
LEMMA WithoutElement ==
  ASSUME NEW S, NEW s \in Seq(S), NEW i \in 1 .. Len(s)
  PROVE  SubSeq(s, 1, i - 1) \o SubSeq(s, i + 1, Len(s)) \in Seq(S)
<1>1. SubSeq(s, 1, i - 1) \in Seq(S)
  BY SubSeqProperties
<1>2. SubSeq(s, i + 1, Len(s)) \in Seq(S)
  BY SubSeqProperties
<1> QED BY <1>1, <1>2, ConcatProperties

\* Delivering a notice keeps the notices and the balance well typed.
LEMMA DeliverTyped ==
  ASSUME TypeOK, NEW t \in Target, NEW i \in 1 .. Len(notices[t]), Deliver(t, i)
  PROVE  /\ notices' \in [Target -> Seq([healthy : BOOLEAN, sync : BOOLEAN])]
         /\ balance' \in [Target -> Int]
<1> DEFINE N == [healthy : BOOLEAN, sync : BOOLEAN]
           s == notices[t]
<1>1. s \in Seq(N) /\ Len(s) \in Nat /\ i \in Nat
  BY DEF TypeOK
<1>3. SubSeq(s, 1, i - 1) \o SubSeq(s, i + 1, Len(s)) \in Seq(N)
  BY <1>1, WithoutElement
<1>4. notices' \in [Target -> Seq(N)]
  <2>1. notices' = [notices EXCEPT ![t] = SubSeq(s, 1, i - 1) \o SubSeq(s, i + 1, Len(s))]
    BY DEF Deliver
  <2>2. notices \in [Target -> Seq(N)]
    BY DEF TypeOK
  <2>3. ASSUME NEW q \in Seq(N), notices' = [notices EXCEPT ![t] = q] PROVE <1>4
    BY <2>2, <2>3
  <2> QED BY <2>1, <2>3, <1>3
<1>5. balance' \in [Target -> Int]
  <2>1. balance[t] - 1 \in Int /\ balance[t] + 1 \in Int /\ balance \in [Target -> Int]
    BY DEF TypeOK
  <2>2. \E b \in {balance[t] - 1, balance[t] + 1} : balance' = [balance EXCEPT ![t] = b]
    BY DEF Deliver
  <2> QED BY <2>1, <2>2
<1> QED BY <1>4, <1>5

-------------------------------------------------------------------------------
(* Type correctness. *)

LEMMA InvInit == Init => Inv
<1> SUFFICES ASSUME Init PROVE Inv
  OBVIOUS
<1>1. /\ registered \subseteq Target
      /\ healthy \in [Target -> BOOLEAN]
      /\ fails \in [Target -> 0 .. MaxFails]
      /\ status \in [Target -> Statuses]
  BY HealthAssumption DEF Init, Statuses
<1>2. /\ notices \in [Target -> Seq([healthy : BOOLEAN, sync : BOOLEAN])]
      /\ recent \in [Target -> Seq({"ok", "bad"})]
      /\ balance \in [Target -> Int]
  BY DEF Init
<1>3. /\ probe \in [pc : {"idle", "pick", "ask", "apply", "notify", "stopped"},
                    todo : SUBSET registered, at : registered \cup {NoTarget}, answer : Answers]
      /\ ProbeHasTarget
  BY DEF Init, Idle, Answers, ProbeHasTarget
<1>4. done \in BOOLEAN /\ up \in [Target -> BOOLEAN]
  BY DEF Init
<1> QED BY <1>1, <1>2, <1>3, <1>4 DEF Inv, TypeOK

LEMMA InvStep == Inv /\ [Next]_vars => Inv'
<1> SUFFICES ASSUME Inv, [Next]_vars PROVE Inv'
  OBVIOUS
<1> USE DEF Inv
<1>1. ASSUME NEW t \in Target, RegisterTarget(t) PROVE Inv'
  BY <1>1 DEF RegisterTarget, TypeOK, ProbeHasTarget, targetVars
<1>2. ASSUME NEW t \in Target, RecordSuccess(t) PROVE Inv'
  <2>1. SetTarget(t, TRUE, 0, "HEALTHY") /\ Announce(t, TRUE, FALSE) /\ Remember(t, "ok")
    BY <1>2 DEF RecordSuccess, FailsAfterSuccess
  <2>2. /\ healthy' \in [Target -> BOOLEAN]
        /\ fails' \in [Target -> 0 .. MaxFails]
        /\ status' \in [Target -> Statuses]
    <3>1. 0 \in 0 .. MaxFails /\ "HEALTHY" \in Statuses
      BY HealthAssumption DEF Statuses
    <3> QED BY <2>1, <3>1, SetTargetTyped
  <2>3. notices' \in [Target -> Seq([healthy : BOOLEAN, sync : BOOLEAN])]
    BY <2>1, AnnounceTyped
  <2>4. recent' \in [Target -> Seq({"ok", "bad"})]
    BY <2>1, RememberTyped
  <2> QED BY <1>2, <2>2, <2>3, <2>4 DEF RecordSuccess, TypeOK, ProbeHasTarget
<1>3. ASSUME NEW t \in Target, RecordFailure(t) PROVE Inv'
  <2> DEFINE f == FailsAfterFailure(t)
  <2>1. f \in 0 .. MaxFails
    BY FailuresInRange, HealthAssumption
  <2>2. /\ healthy' \in [Target -> BOOLEAN]
        /\ fails' \in [Target -> 0 .. MaxFails]
        /\ status' \in [Target -> Statuses]
    <3>1. CASE Trips(f)
      BY <1>3, <2>1, <3>1, SetTargetTyped DEF RecordFailure, Statuses
    <3>2. CASE ~Trips(f)
      <4>1. SetTarget(t, healthy[t], f, status[t])
        BY <1>3, <3>2 DEF RecordFailure
      <4>2. healthy[t] \in BOOLEAN /\ status[t] \in Statuses
        BY DEF TypeOK
      <4> QED BY <4>1, <4>2, <2>1, SetTargetTyped
    <3> QED BY <3>1, <3>2
  <2>3. notices' \in [Target -> Seq([healthy : BOOLEAN, sync : BOOLEAN])]
    <3>1. CASE Trips(f)
      BY <1>3, <3>1, AnnounceTyped DEF RecordFailure
    <3>2. CASE ~Trips(f)
      BY <1>3, <3>2 DEF RecordFailure, TypeOK
    <3> QED BY <3>1, <3>2
  <2>4. recent' \in [Target -> Seq({"ok", "bad"})]
    BY <1>3, RememberTyped DEF RecordFailure
  <2> QED BY <1>3, <2>2, <2>3, <2>4 DEF RecordFailure, TypeOK, ProbeHasTarget
<1>4. CASE ProbeRound
  BY <1>4 DEF ProbeRound, ProbeTargets, Idle, TypeOK, ProbeHasTarget, targetVars, Answers
<1>5. CASE ProbePick
  <2>1. UNCHANGED <<registered, targetVars, notices, done, up, balance>>
    BY <1>5 DEF ProbePick
  <2>2. /\ probe' \in [pc : {"idle", "pick", "ask", "apply", "notify", "stopped"},
                       todo : SUBSET registered, at : registered \cup {NoTarget},
                       answer : Answers]
        /\ probe'.pc \in {"ask", "apply", "notify"} => probe'.at \in registered
    <3>1. CASE probe' \in {Idle, [Idle EXCEPT !.pc = "stopped"]}
      BY <3>1 DEF Idle, Answers
    <3>2. ASSUME NEW t \in probe.todo,
                 probe' = [probe EXCEPT !.pc = "ask", !.at = t, !.todo = @ \ {t}]
          PROVE  <2>2!1 /\ <2>2!2
      BY <3>2 DEF TypeOK, Answers
    <3> QED BY <1>5, <3>1, <3>2 DEF ProbePick
  <2> QED BY <2>1, <2>2 DEF targetVars, TypeOK, ProbeHasTarget
<1>6. CASE ProbeAnswer
  <2>1. PICK a \in {"ok", "404", "bad"} : probe' = [probe EXCEPT !.pc = "apply", !.answer = a]
    BY <1>6 DEF ProbeAnswer
  <2>2. probe.pc = "ask" /\ UNCHANGED <<registered, targetVars, notices, done, up, balance>>
    BY <1>6 DEF ProbeAnswer
  <2>3. /\ probe' \in [pc : {"idle", "pick", "ask", "apply", "notify", "stopped"},
                       todo : SUBSET registered, at : registered \cup {NoTarget},
                       answer : Answers]
        /\ probe'.pc = "apply" /\ probe'.at = probe.at
    BY <2>1 DEF TypeOK, Answers
  <2>4. TypeOK'
    BY <2>2, <2>3 DEF TypeOK, targetVars
  <2>5. ProbeHasTarget'
    BY <2>2, <2>3 DEF ProbeHasTarget
  <2> QED BY <2>4, <2>5
<1>7. CASE ProbeApply
  <2> DEFINE t == probe.at
             f == FailsAfterFailure(t)
  <2>0. t \in registered /\ t \in Target
    BY <1>7 DEF ProbeApply, ProbeHasTarget, TypeOK
  <2>1. f \in 0 .. MaxFails
    BY <2>0, FailuresInRange, HealthAssumption
  <2>2. healthy[t] \in BOOLEAN
    BY <2>0 DEF TypeOK
  <2>3. /\ healthy' \in [Target -> BOOLEAN]
        /\ fails' \in [Target -> 0 .. MaxFails]
        /\ status' \in [Target -> Statuses]
    <3>1. CASE SetTarget(t, TRUE, 0, IF probe.answer = "ok" THEN "HEALTHY" ELSE "UNKNOWN")
      <4>1. 0 \in 0 .. MaxFails
            /\ (IF probe.answer = "ok" THEN "HEALTHY" ELSE "UNKNOWN") \in Statuses
        BY HealthAssumption DEF Statuses
      <4> QED BY <2>0, <3>1, <4>1, SetTargetTyped
    <3>2. CASE SetTarget(t, FALSE, f, "UNHEALTHY")
      BY <2>0, <2>1, <3>2, SetTargetTyped DEF Statuses
    <3>3. CASE SetTarget(t, healthy[t], f, "DEGRADED")
      BY <2>0, <2>1, <2>2, <3>3, SetTargetTyped DEF Statuses
    <3> QED BY <1>7, <3>1, <3>2, <3>3 DEF ProbeApply, FailsAfterSuccess
  <2>4. notices' \in [Target -> Seq([healthy : BOOLEAN, sync : BOOLEAN])]
    <3>1. PICK h \in BOOLEAN : Announce(t, h, TRUE)
      BY <1>7, <2>2 DEF ProbeApply
    <3> QED BY <2>0, <3>1, AnnounceTyped
  <2>5. recent' \in [Target -> Seq({"ok", "bad"})]
    <3>1. PICK o \in {"ok", "bad"} : Remember(t, o)
      BY <1>7 DEF ProbeApply
    <3> QED BY <2>0, <3>1, RememberTyped
  <2>6. /\ probe' = [probe EXCEPT !.pc = IF notices' = notices THEN "pick" ELSE "notify"]
        /\ UNCHANGED <<registered, done, up, balance>>
    BY <1>7 DEF ProbeApply
  <2> QED BY <2>0, <2>3, <2>4, <2>5, <2>6 DEF TypeOK, ProbeHasTarget
<1>8. CASE ProbeNotify
  <2>1. PICK i \in 1 .. Len(notices[probe.at]) : Deliver(probe.at, i)
    BY <1>8 DEF ProbeNotify
  <2>2. probe.at \in Target
    BY <1>8 DEF ProbeNotify, ProbeHasTarget, TypeOK
  <2>3. /\ notices' \in [Target -> Seq([healthy : BOOLEAN, sync : BOOLEAN])]
        /\ balance' \in [Target -> Int]
    BY <2>1, <2>2, DeliverTyped
  <2> QED BY <1>8, <2>1, <2>3 DEF ProbeNotify, Deliver, TypeOK, ProbeHasTarget, targetVars
<1>9. ASSUME NEW t \in Target, DeliverAsync(t) PROVE Inv'
  <2>1. PICK i \in 1 .. Len(notices[t]) : Deliver(t, i)
    BY <1>9 DEF DeliverAsync
  <2>2. /\ notices' \in [Target -> Seq([healthy : BOOLEAN, sync : BOOLEAN])]
        /\ balance' \in [Target -> Int]
    BY <2>1, DeliverTyped
  <2> QED BY <1>9, <2>1, <2>2 DEF DeliverAsync, Deliver, TypeOK, ProbeHasTarget, targetVars
<1>10. CASE ProbeStop
  BY <1>10 DEF ProbeStop, Idle, TypeOK, ProbeHasTarget, targetVars, Answers
<1>11. CASE Cancel
  BY <1>11 DEF Cancel, TypeOK, ProbeHasTarget, targetVars
<1>12. ASSUME NEW t \in Target, Toggle(t) PROVE Inv'
  BY <1>12 DEF Toggle, TypeOK, ProbeHasTarget, targetVars
<1>13. CASE UNCHANGED vars
  BY <1>13 DEF vars, targetVars, TypeOK, ProbeHasTarget
<1> QED
  BY <1>1, <1>2, <1>3, <1>4, <1>5, <1>6, <1>7, <1>8, <1>9, <1>10, <1>11, <1>12, <1>13
  DEF Next, Prober

\* The state stays well typed, and a probe in flight belongs to a registered target.
LEMMA InvAlways == Spec => []Inv
BY InvInit, InvStep, PTL DEF Spec

\* TypeOK for any set of targets and any bounds.
THEOREM TypeCorrect == Spec => []TypeOK
<1>1. Inv => TypeOK
  BY DEF Inv
<1> QED BY <1>1, InvAlways, PTL

-------------------------------------------------------------------------------
(* Healthy, ConsecutiveFails and Status never contradict each other. *)

\* A step that sets one target consistently keeps all of them consistent.
LEMMA ConsistentAfterSet ==
  ASSUME TypeOK, BreakerConsistent, NEW t \in Target, NEW h \in BOOLEAN,
         NEW f \in 0 .. MaxFails, NEW s \in Statuses, SetTarget(t, h, f, s),
         ~h <=> f >= Threshold, ~h <=> s = "UNHEALTHY", s = "DEGRADED" => f > 0
  PROVE  BreakerConsistent'
<1> SUFFICES ASSUME NEW u \in Target
             PROVE  /\ ~healthy'[u] <=> fails'[u] >= Threshold
                    /\ ~healthy'[u] <=> status'[u] = "UNHEALTHY"
                    /\ status'[u] = "DEGRADED" => fails'[u] > 0
  BY DEF BreakerConsistent
<1>1. CASE u = t
  <2>1. healthy'[u] = h /\ fails'[u] = f /\ status'[u] = s
    BY <1>1 DEF TypeOK, SetTarget
  <2> QED BY <2>1
<1>2. CASE u # t
  <2>1. healthy'[u] = healthy[u] /\ fails'[u] = fails[u] /\ status'[u] = status[u]
    BY <1>2 DEF TypeOK, SetTarget
  <2> QED BY <2>1 DEF BreakerConsistent
<1> QED BY <1>1, <1>2

\* A failure that does not trip the breaker found it closed and leaves it so.
LEMMA UntrippedIsHealthy ==
  ASSUME TypeOK, BreakerConsistent, NEW t \in Target, ~Trips(FailsAfterFailure(t))
  PROVE  healthy[t] /\ status[t] # "UNHEALTHY" /\ fails[t] + 1 < Threshold
         /\ FailsAfterFailure(t) = fails[t] + 1
<1>1. fails[t] \in 0 .. MaxFails /\ healthy[t] \in BOOLEAN
  BY DEF TypeOK
<1>2. FailsAfterFailure(t) = fails[t] + 1 /\ fails[t] + 1 < Threshold
  BY <1>1, HealthAssumption DEF Trips, FailsAfterFailure
<1>3. ~(fails[t] >= Threshold)
  BY <1>1, <1>2, HealthAssumption
<1> QED BY <1>1, <1>2, <1>3 DEF BreakerConsistent

LEMMA ConsistentInit == Init => BreakerConsistent
BY HealthAssumption DEF Init, BreakerConsistent

LEMMA ConsistentStep == Inv /\ BreakerConsistent /\ [Next]_vars => BreakerConsistent'
<1> SUFFICES ASSUME Inv, BreakerConsistent, [Next]_vars PROVE BreakerConsistent'
  OBVIOUS
<1> USE DEF Inv
<1>0. Threshold \in Nat /\ Threshold > 0 /\ 0 \in 0 .. MaxFails
  BY HealthAssumption
<1>1. ASSUME UNCHANGED <<healthy, fails, status>> PROVE BreakerConsistent'
  BY <1>1 DEF BreakerConsistent
\* A success, with status "HEALTHY" or "UNKNOWN".
<1>2. ASSUME NEW t \in Target, NEW s \in {"HEALTHY", "UNKNOWN"},
             SetTarget(t, TRUE, FailsAfterSuccess(t), s)
      PROVE  BreakerConsistent'
  <2>1. s \in Statuses /\ s # "UNHEALTHY" /\ s # "DEGRADED"
    BY DEF Statuses
  <2>2. SetTarget(t, TRUE, 0, s)
    BY <1>2 DEF FailsAfterSuccess
  <2>3. ~(0 >= Threshold)
    BY <1>0
  <2> QED BY <1>0, <2>1, <2>2, <2>3, ConsistentAfterSet
\* A failure that trips the breaker.
<1>3. ASSUME NEW t \in Target, Trips(FailsAfterFailure(t)),
             SetTarget(t, FALSE, FailsAfterFailure(t), "UNHEALTHY")
      PROVE  BreakerConsistent'
  <2>1. FailsAfterFailure(t) \in 0 .. MaxFails /\ FailsAfterFailure(t) >= Threshold
    BY <1>3, FailuresInRange, HealthAssumption DEF Trips
  <2>2. "UNHEALTHY" \in Statuses
    BY DEF Statuses
  <2> QED BY <1>3, <2>1, <2>2, ConsistentAfterSet
\* A failure below the threshold, which leaves the status or makes it "DEGRADED".
<1>4. ASSUME NEW t \in Target, ~Trips(FailsAfterFailure(t)), NEW s \in {status[t], "DEGRADED"},
             SetTarget(t, healthy[t], FailsAfterFailure(t), s)
      PROVE  BreakerConsistent'
  <2>1. FailsAfterFailure(t) \in 1 .. MaxFails
    BY FailuresInRange
  <2>2. healthy[t] /\ s # "UNHEALTHY" /\ ~(FailsAfterFailure(t) >= Threshold)
    <3>1. fails[t] \in Nat
      BY DEF TypeOK
    <3> QED BY <1>4, <1>0, <3>1, UntrippedIsHealthy
  <2>3. healthy[t] \in BOOLEAN /\ s \in Statuses
    BY DEF TypeOK, Statuses
  <2>4. FailsAfterFailure(t) \in 0 .. MaxFails /\ FailsAfterFailure(t) > 0
    BY <2>1, HealthAssumption
  <2> QED BY <1>4, <2>2, <2>3, <2>4, ConsistentAfterSet
<1>5. ASSUME NEW t \in Target, RecordSuccess(t) PROVE BreakerConsistent'
  BY <1>2, <1>5 DEF RecordSuccess
<1>6. ASSUME NEW t \in Target, RecordFailure(t) PROVE BreakerConsistent'
  BY <1>3, <1>4, <1>6 DEF RecordFailure
<1>7. CASE ProbeApply
  <2>1. probe.at \in Target
    BY <1>7 DEF ProbeApply, ProbeHasTarget, TypeOK
  <2>2. CASE probe.answer = "bad"
    BY <1>3, <1>4, <1>7, <2>1, <2>2 DEF ProbeApply
  <2>3. CASE probe.answer \in {"ok", "404"}
    BY <1>2, <1>7, <2>1, <2>3 DEF ProbeApply
  <2> QED BY <1>7, <2>2, <2>3 DEF ProbeApply
<1>8. CASE ~(\E t \in Target : RecordSuccess(t) \/ RecordFailure(t)) /\ ~ProbeApply
  <2>1. UNCHANGED <<healthy, fails, status>>
    BY <1>8 DEF Next, Prober, RegisterTarget, DeliverAsync, Deliver, Toggle, ProbeRound, ProbePick,
       ProbeAnswer, ProbeNotify, ProbeStop, Cancel, vars, targetVars
  <2> QED BY <2>1, <1>1
<1> QED BY <1>5, <1>6, <1>7, <1>8

\* A target is unhealthy exactly from its third failure on, says UNHEALTHY exactly
\* then, and says DEGRADED only after a failure, for any targets and threshold.
THEOREM FieldsAgree == Spec => []BreakerConsistent
BY ConsistentInit, ConsistentStep, InvAlways, PTL DEF Spec

-------------------------------------------------------------------------------
(* The monitor is a circuit breaker. *)

LEMMA BreakerStep ==
  Inv /\ BreakerConsistent /\ [Next]_vars => [Breaker!BreakerNext]_(Breaker!breakerVars)
<1> SUFFICES ASSUME Inv, BreakerConsistent, [Next]_vars
             PROVE  [Breaker!BreakerNext]_(Breaker!breakerVars)
  OBVIOUS
<1> USE DEF Inv
<1> DEFINE streak == [t \in Target |-> IF fails[t] < Threshold THEN fails[t] ELSE Threshold]
           open == [t \in Target |-> ~healthy[t]]
<1>0. /\ Threshold \in Nat /\ Threshold > 0
      /\ healthy \in [Target -> BOOLEAN] /\ fails \in [Target -> 0 .. MaxFails]
  BY HealthAssumption DEF TypeOK
<1>1. ASSUME UNCHANGED <<registered, healthy, fails>>
      PROVE  UNCHANGED Breaker!breakerVars
  BY <1>1 DEF Breaker!breakerVars
<1>2. ASSUME NEW t \in registered, NEW s, SetTarget(t, TRUE, FailsAfterSuccess(t), s),
             UNCHANGED registered
      PROVE  Breaker!Success(t)
  <2>1. t \in Target
    BY DEF TypeOK
  <2>2. healthy' = [healthy EXCEPT ![t] = TRUE] /\ fails' = [fails EXCEPT ![t] = 0]
    BY <1>2 DEF SetTarget, FailsAfterSuccess
  <2>3. streak' = [streak EXCEPT ![t] = 0]
    BY <1>0, <2>1, <2>2
  <2>4. open' = [open EXCEPT ![t] = FALSE]
    BY <1>0, <2>1, <2>2
  <2> QED BY <1>2, <2>3, <2>4 DEF Breaker!Success
<1>3. ASSUME NEW t \in registered, NEW h \in BOOLEAN, NEW s,
             SetTarget(t, h, FailsAfterFailure(t), s),
             ~h <=> Trips(FailsAfterFailure(t)), UNCHANGED registered
      PROVE  Breaker!Failure(t)
  <2> DEFINE f == FailsAfterFailure(t)
  <2>1. t \in Target
    BY DEF TypeOK
  <2>2. healthy' = [healthy EXCEPT ![t] = h] /\ fails' = [fails EXCEPT ![t] = f]
    BY <1>3 DEF SetTarget
  <2>3. /\ Breaker!Longer(streak[t]) = IF f < Threshold THEN f ELSE Threshold
        /\ Breaker!Longer(streak[t]) = Threshold <=> f >= Threshold
        /\ f \in Nat
    <3>1. fails[t] \in 0 .. MaxFails
      BY <2>1, <1>0
    <3> QED BY <1>0, <2>1, <3>1, HealthAssumption DEF Breaker!Longer, FailsAfterFailure
  <2>4. streak' = [streak EXCEPT ![t] = Breaker!Longer(@)]
    <3>1. ASSUME NEW u \in Target PROVE streak'[u] = [streak EXCEPT ![t] = Breaker!Longer(@)][u]
      <4>1. CASE u = t
        <5>1. fails'[u] = f
          BY <1>0, <2>1, <2>2, <4>1
        <5> QED BY <2>1, <2>3, <4>1, <5>1
      <4>2. CASE u # t
        <5>1. fails'[u] = fails[u]
          BY <1>0, <2>1, <2>2, <4>2
        <5> QED BY <2>1, <4>2, <5>1
      <4> QED BY <4>1, <4>2
    <3> QED BY <3>1
  <2>5. open' = [open EXCEPT ![t] = (Breaker!Longer(streak[t]) = Threshold)]
    <3>1. (Breaker!Longer(streak[t]) = Threshold) = ~h
      BY <1>3, <2>3 DEF Trips
    <3>2. open' = [open EXCEPT ![t] = ~h]
      BY <1>0, <2>1, <2>2
    <3> QED BY <3>1, <3>2
  <2> QED BY <1>3, <2>4, <2>5 DEF Breaker!Failure
<1>4. ASSUME NEW t \in Target, RegisterTarget(t) PROVE Breaker!Register(t)
  BY <1>4 DEF RegisterTarget, Breaker!Register, targetVars
<1>5. ASSUME NEW t \in Target, RecordSuccess(t) PROVE Breaker!Success(t)
  BY <1>2, <1>5 DEF RecordSuccess
<1>6. ASSUME NEW t \in Target, RecordFailure(t) PROVE Breaker!Failure(t)
  <2>1. CASE Trips(FailsAfterFailure(t))
    BY <1>3, <1>6, <2>1 DEF RecordFailure
  <2>2. CASE ~Trips(FailsAfterFailure(t))
    <3>1. healthy[t] /\ healthy[t] \in BOOLEAN
      BY <1>0, <2>2, UntrippedIsHealthy
    <3>2. SetTarget(t, healthy[t], FailsAfterFailure(t), status[t])
          /\ t \in registered /\ UNCHANGED registered
      BY <1>6, <2>2 DEF RecordFailure
    <3> QED BY <1>3, <2>2, <3>1, <3>2
  <2> QED BY <2>1, <2>2
<1>7. CASE ProbeApply
  <2> DEFINE t == probe.at
  <2>1. t \in registered /\ t \in Target /\ UNCHANGED registered
    BY <1>7 DEF ProbeApply, ProbeHasTarget, TypeOK
  <2>2. CASE probe.answer \in {"ok", "404"}
    <3>1. \E s : SetTarget(t, TRUE, FailsAfterSuccess(t), s)
      BY <1>7, <2>2 DEF ProbeApply
    <3> QED BY <1>2, <2>1, <3>1 DEF Breaker!BreakerNext
  <2>3. CASE probe.answer = "bad" /\ Trips(FailsAfterFailure(t))
    <3>1. SetTarget(t, FALSE, FailsAfterFailure(t), "UNHEALTHY")
      BY <1>7, <2>3 DEF ProbeApply
    <3> QED BY <1>3, <2>1, <2>3, <3>1 DEF Breaker!BreakerNext
  <2>4. CASE probe.answer = "bad" /\ ~Trips(FailsAfterFailure(t))
    <3>1. SetTarget(t, healthy[t], FailsAfterFailure(t), "DEGRADED")
      BY <1>7, <2>4 DEF ProbeApply
    <3>2. healthy[t] /\ healthy[t] \in BOOLEAN
      BY <1>0, <2>1, <2>4, UntrippedIsHealthy
    <3> QED BY <1>3, <2>1, <2>4, <3>1, <3>2 DEF Breaker!BreakerNext
  <2> QED BY <1>7, <2>2, <2>3, <2>4 DEF ProbeApply
<1>8. CASE /\ ~(\E t \in Target : RegisterTarget(t) \/ RecordSuccess(t) \/ RecordFailure(t))
           /\ ~ProbeApply
  <2>1. UNCHANGED <<registered, healthy, fails>>
    BY <1>8 DEF Next, Prober, DeliverAsync, Deliver, Toggle, ProbeRound, ProbePick,
       ProbeAnswer, ProbeNotify, ProbeStop, Cancel, vars, targetVars
  <2> QED BY <2>1, <1>1
<1> QED BY <1>4, <1>5, <1>6, <1>7, <1>8 DEF Breaker!BreakerNext

\* For any targets, threshold and schedule of probes and requests, the monitor is
\* the circuit breaker that the engine is built on.
THEOREM MonitorIsBreaker == Spec => ImplementsBreaker
<1>1. Init => Breaker!BreakerInit
  <2> SUFFICES ASSUME Init PROVE Breaker!BreakerInit
    OBVIOUS
  <2>1. \A t \in Target : fails[t] = 0 /\ healthy[t] = TRUE
    BY DEF Init
  <2>2. 0 < Threshold
    BY HealthAssumption
  <2>3. [t \in Target |-> IF fails[t] < Threshold THEN fails[t] ELSE Threshold]
        = [t \in Target |-> 0]
    BY <2>1, <2>2
  <2>4. [t \in Target |-> ~healthy[t]] = [t \in Target |-> FALSE]
    BY <2>1
  <2>5. registered = {}
    BY DEF Init
  <2> QED BY <2>3, <2>4, <2>5 DEF Breaker!BreakerInit
<1> QED
  BY <1>1, BreakerStep, InvAlways, FieldsAgree, PTL DEF Spec, ImplementsBreaker, Breaker!BreakerSpec

-------------------------------------------------------------------------------
(* The breaker is open exactly after Threshold failures in a row. *)

\* The newest entries of r are the n failures counted, and the one before them, if
\* remembered, is the success that ended an earlier run.
CountsRun(n, r) ==
  /\ n <= Len(r) /\ Len(r) <= Threshold
  /\ \A i \in 1 .. n : r[i] = "bad"
  /\ n < Threshold => (Len(r) = n \/ (n + 1 <= Len(r) /\ r[n + 1] = "ok"))

RunOf(t) == IF fails[t] < Threshold THEN fails[t] ELSE Threshold

\* ConsecutiveFails counts the failures at the head of the history.
RecentCounted == \A t \in Target : CountsRun(RunOf(t), recent[t])

\* What Remember does to one history.
LEMMA RememberShape ==
  ASSUME TypeOK, NEW t \in Target, NEW o \in {"ok", "bad"}, Remember(t, o),
         Len(recent[t]) <= Threshold
  PROVE  /\ recent'[t] \in Seq({"ok", "bad"})
         /\ Len(recent'[t]) = IF Len(recent[t]) < Threshold THEN Len(recent[t]) + 1
                                                            ELSE Threshold
         /\ recent'[t][1] = o
         /\ \A i \in 2 .. Len(recent'[t]) : recent'[t][i] = recent[t][i - 1]
         /\ \A u \in Target \ {t} : recent'[u] = recent[u]
<1> DEFINE r == recent[t]
           n == IF Len(r) < Threshold THEN Len(r) + 1 ELSE Threshold
           s == <<o>> \o r
           q == SubSeq(s, 1, n)
<1>1. r \in Seq({"ok", "bad"}) /\ Len(r) \in Nat
  BY DEF TypeOK
<1>2. /\ s \in Seq({"ok", "bad"}) /\ Len(s) = Len(r) + 1
      /\ s[1] = o /\ \A i \in 2 .. Len(s) : s[i] = r[i - 1]
  BY <1>1
<1>3. n \in Nat /\ 1 <= n /\ n <= Len(s)
  BY <1>1, <1>2, HealthAssumption
<1>4. q \in Seq({"ok", "bad"}) /\ Len(q) = n /\ \A i \in 1 .. n : q[i] = s[i]
  BY <1>1, <1>2, <1>3
<1>5. recent' = [recent EXCEPT ![t] = q]
  BY DEF Remember
<1>6. recent'[t] = q /\ \A u \in Target \ {t} : recent'[u] = recent[u]
  BY <1>5 DEF TypeOK
<1>7. q[1] = o
  BY <1>2, <1>3, <1>4
<1>8. \A i \in 2 .. n : q[i] = r[i - 1]
  BY <1>2, <1>3, <1>4
<1> HIDE DEF q, s, r
<1>9. Len(recent'[t]) = n
  BY <1>4, <1>6
<1>10. \A i \in 2 .. Len(recent'[t]) : recent'[t][i] = recent[t][i - 1]
  BY <1>6, <1>8, <1>9 DEF r
<1> QED BY <1>4, <1>6, <1>7, <1>9, <1>10 DEF r

\* A success starts a new run.
LEMMA CountedAfterSuccess ==
  ASSUME TypeOK, RecentCounted, NEW t \in Target,
         fails' = [fails EXCEPT ![t] = 0], Remember(t, "ok")
  PROVE  RecentCounted'
<1>1. Len(recent[t]) \in Nat /\ Len(recent[t]) <= Threshold /\ 0 < Threshold
  BY HealthAssumption DEF TypeOK, RecentCounted, CountsRun
<1>2. /\ Len(recent'[t]) \in 1 .. Threshold
      /\ recent'[t][1] = "ok"
      /\ \A u \in Target \ {t} : recent'[u] = recent[u]
  <2>1. /\ Len(recent'[t]) = IF Len(recent[t]) < Threshold THEN Len(recent[t]) + 1
                                                             ELSE Threshold
        /\ recent'[t][1] = "ok"
        /\ \A u \in Target \ {t} : recent'[u] = recent[u]
    BY <1>1, RememberShape
  <2> QED BY <1>1, <2>1, HealthAssumption
<1>3. fails'[t] = 0 /\ \A u \in Target \ {t} : fails'[u] = fails[u]
  BY DEF TypeOK
<1>4. CountsRun(0, recent'[t])
  BY <1>1, <1>2 DEF CountsRun
<1> SUFFICES ASSUME NEW u \in Target
             PROVE  CountsRun(IF fails'[u] < Threshold THEN fails'[u] ELSE Threshold, recent'[u])
  BY DEF RecentCounted, RunOf
<1>5. CASE u = t
  BY <1>1, <1>3, <1>4, <1>5
<1>6. CASE u # t
  BY <1>2, <1>3, <1>6 DEF RecentCounted, RunOf
<1> QED BY <1>5, <1>6

\* A failure makes the run one longer, up to Threshold.
LEMMA CountedAfterFailure ==
  ASSUME TypeOK, RecentCounted, NEW t \in Target,
         fails' = [fails EXCEPT ![t] = FailsAfterFailure(t)], Remember(t, "bad")
  PROVE  RecentCounted'
<1> DEFINE n == RunOf(t)
           m == IF n < Threshold THEN n + 1 ELSE Threshold
           r == recent[t]
           q == recent'[t]
<1>1. /\ Len(r) \in Nat /\ n \in Nat /\ n <= Threshold /\ Threshold \in Nat /\ 0 < Threshold
      /\ fails[t] \in 0 .. MaxFails /\ CountsRun(n, r)
  BY HealthAssumption DEF TypeOK, RecentCounted, RunOf
<1>2. /\ Len(q) = IF Len(r) < Threshold THEN Len(r) + 1 ELSE Threshold
      /\ q[1] = "bad"
      /\ \A i \in 2 .. Len(q) : q[i] = r[i - 1]
      /\ \A u \in Target \ {t} : recent'[u] = recent[u]
  BY <1>1, RememberShape DEF CountsRun
<1>3. /\ fails'[t] = FailsAfterFailure(t)
      /\ \A u \in Target \ {t} : fails'[u] = fails[u]
  BY DEF TypeOK
<1>4. (IF FailsAfterFailure(t) < Threshold THEN FailsAfterFailure(t) ELSE Threshold) = m
  BY <1>1, HealthAssumption DEF FailsAfterFailure, RunOf
<1>5. CountsRun(m, q)
  <2> HIDE DEF n, r, q
  <2>1. m <= Len(q) /\ Len(q) <= Threshold
    BY <1>1, <1>2 DEF CountsRun
  <2>2. \A i \in 1 .. m : q[i] = "bad"
    <3> SUFFICES ASSUME NEW i \in 1 .. m PROVE q[i] = "bad"
      OBVIOUS
    <3>1. CASE i = 1
      BY <1>2, <3>1
    <3>2. CASE i # 1
      <4>1. i \in 2 .. Len(q) /\ i - 1 \in 1 .. n
        BY <1>1, <2>1, <3>2, <1>2
      <4> QED BY <1>1, <1>2, <4>1 DEF CountsRun
    <3> QED BY <3>1, <3>2
  <2>3. m < Threshold => (Len(q) = m \/ (m + 1 <= Len(q) /\ q[m + 1] = "ok"))
    <3> SUFFICES ASSUME m < Threshold
                 PROVE  Len(q) = m \/ (m + 1 <= Len(q) /\ q[m + 1] = "ok")
      OBVIOUS
    <3>1. n < Threshold /\ m = n + 1
      BY <1>1
    <3>2. CASE Len(r) = n
      BY <1>1, <1>2, <3>1, <3>2
    <3>3. CASE n + 1 <= Len(r) /\ r[n + 1] = "ok"
      <4>1. m + 1 <= Len(q) /\ m + 1 \in 2 .. Len(q)
        BY <1>1, <1>2, <3>1, <3>3
      <4>2. q[m + 1] = r[(m + 1) - 1] /\ (m + 1) - 1 = n + 1
        BY <1>1, <1>2, <3>1, <4>1
      <4> QED BY <3>3, <4>1, <4>2
    <3> QED BY <1>1, <3>1, <3>2, <3>3 DEF CountsRun
  <2> QED BY <2>1, <2>2, <2>3 DEF CountsRun
<1> SUFFICES ASSUME NEW u \in Target
             PROVE  CountsRun(IF fails'[u] < Threshold THEN fails'[u] ELSE Threshold, recent'[u])
  BY DEF RecentCounted, RunOf
<1>6. CASE u = t
  BY <1>3, <1>4, <1>5, <1>6
<1>7. CASE u # t
  BY <1>2, <1>3, <1>7 DEF RecentCounted, RunOf
<1> QED BY <1>6, <1>7

LEMMA CountedInit == Init => RecentCounted
BY HealthAssumption DEF Init, RecentCounted, RunOf, CountsRun

LEMMA CountedStep == Inv /\ RecentCounted /\ [Next]_vars => RecentCounted'
<1> SUFFICES ASSUME Inv, RecentCounted, [Next]_vars PROVE RecentCounted'
  OBVIOUS
<1>1. TypeOK
  BY DEF Inv
<1>2. ASSUME UNCHANGED <<fails, recent>> PROVE RecentCounted'
  BY <1>2 DEF RecentCounted, RunOf
<1>3. ASSUME NEW t \in Target, RecordSuccess(t) PROVE RecentCounted'
  <2>1. fails' = [fails EXCEPT ![t] = 0] /\ Remember(t, "ok")
    BY <1>3 DEF RecordSuccess, SetTarget, FailsAfterSuccess
  <2> QED BY <1>1, <2>1, CountedAfterSuccess
<1>4. ASSUME NEW t \in Target, RecordFailure(t) PROVE RecentCounted'
  <2>1. fails' = [fails EXCEPT ![t] = FailsAfterFailure(t)] /\ Remember(t, "bad")
    BY <1>4 DEF RecordFailure, SetTarget
  <2> QED BY <1>1, <2>1, CountedAfterFailure
<1>5. ASSUME ProbeApply PROVE RecentCounted'
  <2> DEFINE t == probe.at
  <2>1. t \in Target
    BY <1>5 DEF Inv, ProbeApply, ProbeHasTarget, TypeOK
  <2>2. \/ fails' = [fails EXCEPT ![t] = 0] /\ Remember(t, "ok")
        \/ fails' = [fails EXCEPT ![t] = FailsAfterFailure(t)] /\ Remember(t, "bad")
    BY <1>5 DEF ProbeApply, SetTarget, FailsAfterSuccess
  <2> HIDE DEF t
  <2> QED BY <1>1, <2>1, <2>2, CountedAfterSuccess, CountedAfterFailure
<1>6. ASSUME NEW t \in Target, RegisterTarget(t) \/ DeliverAsync(t) \/ Toggle(t)
      PROVE  UNCHANGED <<fails, recent>>
  BY <1>6 DEF RegisterTarget, DeliverAsync, Deliver, Toggle, targetVars
<1>7. ASSUME ProbeRound \/ ProbePick \/ ProbeAnswer \/ ProbeNotify \/ ProbeStop \/ Cancel
      PROVE  UNCHANGED <<fails, recent>>
  BY <1>7 DEF ProbeRound, ProbePick, ProbeAnswer, ProbeNotify, Deliver, ProbeStop, Cancel, targetVars
<1>8. ASSUME UNCHANGED vars PROVE UNCHANGED <<fails, recent>>
  BY <1>8 DEF vars, targetVars
<1> QED BY <1>2, <1>3, <1>4, <1>5, <1>6, <1>7, <1>8 DEF Next, Prober

\* With the fields in agreement, the count tells the history.
LEMMA CountTellsHistory ==
  TypeOK /\ BreakerConsistent /\ RecentCounted => OpenMeansThreeFailures
<1> SUFFICES ASSUME TypeOK, BreakerConsistent, RecentCounted, NEW t \in Target
             PROVE  ~healthy[t] <=> recent[t] = [i \in 1 .. Threshold |-> "bad"]
  BY DEF OpenMeansThreeFailures
<1> DEFINE r == recent[t]
           full == [i \in 1 .. Threshold |-> "bad"]
<1>1. /\ Threshold \in Nat /\ 0 < Threshold /\ fails[t] \in Nat
      /\ r \in Seq({"ok", "bad"}) /\ CountsRun(RunOf(t), r)
  BY HealthAssumption DEF TypeOK, RecentCounted
<1>2. CASE fails[t] >= Threshold
  <2>1. ~healthy[t]
    BY <1>2 DEF BreakerConsistent
  <2>2. Len(r) = Threshold /\ \A i \in 1 .. Threshold : r[i] = "bad"
    BY <1>1, <1>2 DEF CountsRun, RunOf
  <2>3. r = full
    BY <1>1, <2>2
  <2> QED BY <2>1, <2>3
<1>3. CASE ~(fails[t] >= Threshold)
  <2>1. healthy[t]
    BY <1>3 DEF BreakerConsistent
  <2>2. fails[t] < Threshold /\ RunOf(t) = fails[t]
    BY <1>1, <1>3 DEF RunOf
  <2>3. Len(r) = fails[t] \/ (fails[t] + 1 <= Len(r) /\ r[fails[t] + 1] = "ok")
    BY <1>1, <2>2 DEF CountsRun
  <2>4. full \in Seq({"bad"}) /\ Len(full) = Threshold /\ \A i \in 1 .. Threshold : full[i] = "bad"
    BY <1>1
  <2>5. r # full
    <3>1. CASE Len(r) = fails[t]
      BY <2>2, <2>4, <3>1, <1>1
    <3>2. CASE r[fails[t] + 1] = "ok"
      <4>1. fails[t] + 1 \in 1 .. Threshold
        BY <1>1, <2>2
      <4>2. full[fails[t] + 1] = "bad"
        BY <4>1
      <4> QED BY <3>2, <4>2
    <3> QED BY <2>3, <3>1, <3>2
  <2> QED BY <2>1, <2>5
<1> QED BY <1>2, <1>3

\* A target is unhealthy exactly when the last Threshold outcomes recorded for it
\* were failures, whoever recorded them, for any targets and threshold.
THEOREM OpenAfterRun == Spec => []OpenMeansThreeFailures
<1>1. Spec => []RecentCounted
  BY CountedInit, CountedStep, InvAlways, PTL DEF Spec
<1>2. Inv /\ BreakerConsistent /\ RecentCounted => OpenMeansThreeFailures
  BY CountTellsHistory DEF Inv
<1> QED BY <1>1, <1>2, InvAlways, FieldsAgree, PTL

-------------------------------------------------------------------------------
(* Every flip is announced once. *)

Notices == [healthy : BOOLEAN, sync : BOOLEAN]

\* The places of a sequence of notices that announce h, and how many they are.
Places(s, h) == {i \in 1 .. Len(s) : s[i].healthy = h}
Count(s, h) == Cardinality(Places(s, h))

LEMMA CountIsNat ==
  ASSUME NEW s \in Seq(Notices), NEW h \in BOOLEAN
  PROVE  IsFiniteSet(Places(s, h)) /\ Count(s, h) \in Nat
<1>1. IsFiniteSet(1 .. Len(s)) /\ Places(s, h) \subseteq 1 .. Len(s)
  BY FS_Interval DEF Places
<1> QED BY <1>1, FS_Subset, FS_CardinalityType DEF Count

\* One more announcement of h counts for h only.
LEMMA CountAppended ==
  ASSUME NEW s \in Seq(Notices), NEW n \in Notices, NEW h \in BOOLEAN
  PROVE  Count(Append(s, n), h) = IF n.healthy = h THEN Count(s, h) + 1 ELSE Count(s, h)
<1>1. Len(s) \in Nat /\ Len(s) + 1 \notin Places(s, h)
  BY DEF Places
<1>2. Places(Append(s, n), h) =
        IF n.healthy = h THEN Places(s, h) \cup {Len(s) + 1} ELSE Places(s, h)
  BY DEF Places
<1> QED BY <1>1, <1>2, CountIsNat, FS_AddElement DEF Count

\* One announcement of h less counts for h only.
LEMMA CountRemoved ==
  ASSUME NEW s \in Seq(Notices), NEW i \in 1 .. Len(s), NEW h \in BOOLEAN
  PROVE  Count(SubSeq(s, 1, i - 1) \o SubSeq(s, i + 1, Len(s)), h) =
           IF s[i].healthy = h THEN Count(s, h) - 1 ELSE Count(s, h)
<1> DEFINE q == SubSeq(s, 1, i - 1) \o SubSeq(s, i + 1, Len(s))
           P == Places(s, h) \ {i}
           f == [j \in P |-> IF j < i THEN j ELSE j - 1]
<1>1. Len(s) \in Nat /\ i \in Nat
  OBVIOUS
<1>2. /\ Len(SubSeq(s, 1, i - 1)) = i - 1 /\ Len(SubSeq(s, i + 1, Len(s))) = Len(s) - i
      /\ \A j \in 1 .. i - 1 : SubSeq(s, 1, i - 1)[j] = s[j]
      /\ \A j \in 1 .. Len(s) - i : SubSeq(s, i + 1, Len(s))[j] = s[j + i]
      /\ SubSeq(s, 1, i - 1) \in Seq(Notices) /\ SubSeq(s, i + 1, Len(s)) \in Seq(Notices)
  BY <1>1
<1>3. /\ Len(q) = Len(s) - 1
      /\ \A j \in 1 .. Len(s) - 1 : q[j] = IF j < i THEN s[j] ELSE s[j + 1]
  <2> DEFINE a == SubSeq(s, 1, i - 1)
             b == SubSeq(s, i + 1, Len(s))
  <2>1. /\ a \in Seq(Notices) /\ Len(a) = i - 1 /\ \A j \in 1 .. i - 1 : a[j] = s[j]
        /\ b \in Seq(Notices) /\ Len(b) = Len(s) - i /\ \A j \in 1 .. Len(s) - i : b[j] = s[j + i]
    BY <1>2
  <2> HIDE DEF a, b
  <2>2. /\ Len(a \o b) = Len(a) + Len(b)
        /\ \A j \in 1 .. Len(a) + Len(b) : (a \o b)[j] = IF j <= Len(a) THEN a[j] ELSE b[j - Len(a)]
    BY <2>1, ConcatProperties
  <2>3. Len(a \o b) = Len(s) - 1
    BY <1>1, <2>1, <2>2
  <2>4. ASSUME NEW j \in 1 .. Len(s) - 1
        PROVE  (a \o b)[j] = IF j < i THEN s[j] ELSE s[j + 1]
    <3>1. CASE j < i
      BY <1>1, <2>1, <2>2, <3>1
    <3>2. CASE ~(j < i)
      <4>1. /\ (a \o b)[j] = b[j - (i - 1)]
            /\ j - (i - 1) \in 1 .. Len(s) - i /\ (j - (i - 1)) + i = j + 1
        BY <1>1, <2>1, <2>2, <3>2
      <4>2. b[j - (i - 1)] = s[(j - (i - 1)) + i]
        BY <2>1, <4>1
      <4> QED BY <3>2, <4>1, <4>2
    <3> QED BY <3>1, <3>2
  <2> QED BY <2>3, <2>4 DEF a, b
<1> HIDE DEF q
<1>4. f \in [P -> Places(q, h)]
  <2> SUFFICES ASSUME NEW j \in P
               PROVE  (IF j < i THEN j ELSE j - 1) \in Places(q, h)
    OBVIOUS
  <2>1. j \in 1 .. Len(s) /\ j # i /\ s[j].healthy = h
    BY DEF Places
  <2>2. CASE j < i
    <3>1. j \in 1 .. Len(q) /\ q[j] = s[j]
      BY <1>1, <1>3, <2>1, <2>2
    <3> QED BY <2>1, <2>2, <3>1 DEF Places
  <2>3. CASE ~(j < i)
    <3>1. j - 1 \in 1 .. Len(q) /\ ~(j - 1 < i) /\ (j - 1) + 1 = j
      BY <1>1, <1>3, <2>1, <2>3
    <3>2. q[j - 1] = s[(j - 1) + 1]
      BY <1>3, <3>1
    <3> QED BY <2>1, <2>3, <3>1, <3>2 DEF Places
  <2> QED BY <2>2, <2>3
<1>5. \A a, b \in P : a # b => f[a] # f[b]
  BY <1>1 DEF Places
<1>6. \A t \in Places(q, h) : \E j \in P : f[j] = t
  <2> SUFFICES ASSUME NEW t \in Places(q, h) PROVE \E j \in P : f[j] = t
    OBVIOUS
  <2>1. CASE t < i
    BY <1>1, <1>3, <2>1 DEF Places
  <2>2. CASE ~(t < i)
    <3>1. t + 1 \in P
      BY <1>1, <1>3, <2>2, SMTT(30) DEF Places
    <3>2. f[t + 1] = t
      BY <1>1, <2>2, <3>1 DEF Places
    <3> QED BY <3>1, <3>2
  <2> QED BY <2>1, <2>2
<1>7. ExistsBijection(P, Places(q, h))
  BY <1>4, <1>5, <1>6, Fun_IsBij, Fun_ExistsBij
<1>8. IsFiniteSet(Places(s, h))
  BY CountIsNat
<1>9. /\ Cardinality(P) = IF i \in Places(s, h) THEN Count(s, h) - 1 ELSE Count(s, h)
      /\ IsFiniteSet(P)
  BY <1>8, FS_RemoveElement DEF Count
<1>10. Count(q, h) = Cardinality(P)
  BY <1>7, <1>9, FS_Bijection DEF Count
<1> QED BY <1>9, <1>10 DEF Places, q

\* What was delivered and what is on its way say whether target t is unhealthy.
Announced(t) ==
  balance[t] + Count(notices[t], FALSE) - Count(notices[t], TRUE) = IF healthy[t] THEN 0 ELSE 1

LEMMA AnnouncedIs == EveryFlipAnnouncedOnce <=> \A t \in Target : Announced(t)
BY DEF EveryFlipAnnouncedOnce, NoticesOf, Announced, Count, Places

LEMMA AnnouncedIsAfter ==
  EveryFlipAnnouncedOnce' <=>
    \A t \in Target :
      balance'[t] + Count(notices'[t], FALSE) - Count(notices'[t], TRUE) = IF healthy'[t] THEN 0 ELSE 1
BY DEF EveryFlipAnnouncedOnce, NoticesOf, Count, Places

\* The account of one target: the balance, the announcements on their way of each
\* kind, and what they must add up to.
LEMMA AccountMoves ==
  ASSUME NEW b \in Int, NEW d \in Nat, NEW u \in Nat, NEW w \in {0, 1}, b + d - u = w
  PROVE  /\ w = 0 => b + (d + 1) - u = 1
         /\ w = 1 => b + d - (u + 1) = 0
         /\ (b + 1) + (d - 1) - u = w
         /\ (b - 1) + d - (u - 1) = w
OBVIOUS

\* A locked section that sets Healthy and announces the flip keeps the account.
LEMMA AnnounceBalances ==
  ASSUME TypeOK, EveryFlipAnnouncedOnce, NEW t \in Target, NEW h \in BOOLEAN, NEW sync \in BOOLEAN,
         Announce(t, h, sync), healthy' = [healthy EXCEPT ![t] = h], UNCHANGED balance
  PROVE  EveryFlipAnnouncedOnce'
<1> DEFINE s == notices[t]
           n == [healthy |-> h, sync |-> sync]
           After(u) == balance'[u] + Count(notices'[u], FALSE) - Count(notices'[u], TRUE)
                         = IF healthy'[u] THEN 0 ELSE 1
<1>1. /\ s \in Seq(Notices) /\ n \in Notices
      /\ balance[t] \in Int /\ healthy[t] \in BOOLEAN
      /\ Count(s, TRUE) \in Nat /\ Count(s, FALSE) \in Nat
  BY CountIsNat DEF TypeOK, Notices
<1>2. After(t)
  <2>1. healthy'[t] = h /\ balance'[t] = balance[t]
    BY DEF TypeOK
  <2>2. balance[t] + Count(s, FALSE) - Count(s, TRUE) = IF healthy[t] THEN 0 ELSE 1
    BY AnnouncedIs, Zenon DEF Announced
  <2>3. CASE h = healthy[t]
    <3>1. notices'[t] = s
      BY <2>3 DEF Announce, Flips
    <3> QED BY <2>1, <2>2, <2>3, <3>1, Zenon
  <2>4. CASE h # healthy[t]
    <3>1. notices'[t] = Append(s, n) /\ n.healthy = h
      BY <2>4 DEF Announce, Flips, TypeOK
    <3>2. \A g \in BOOLEAN : Count(notices'[t], g) = IF h = g THEN Count(s, g) + 1 ELSE Count(s, g)
      BY <1>1, <3>1, CountAppended, ZenonT(30)
    <3>3. 0 \in {0, 1} /\ 1 \in {0, 1}
      OBVIOUS
    <3>4. CASE h = TRUE
      <4>1. Count(notices'[t], TRUE) = Count(s, TRUE) + 1 /\ Count(notices'[t], FALSE) = Count(s, FALSE)
        BY <3>2, <3>4, Zenon
      <4>2. balance[t] + Count(s, FALSE) - Count(s, TRUE) = 1
        BY <1>1, <2>2, <2>4, <3>4, Zenon
      <4>3. balance[t] + Count(s, FALSE) - (Count(s, TRUE) + 1) = 0
        BY <1>1, <3>3, <4>2, AccountMoves, Zenon
      <4> QED BY <2>1, <3>4, <4>1, <4>3, Zenon
    <3>5. CASE h = FALSE
      <4>1. Count(notices'[t], FALSE) = Count(s, FALSE) + 1 /\ Count(notices'[t], TRUE) = Count(s, TRUE)
        BY <3>2, <3>5, Zenon
      <4>2. balance[t] + Count(s, FALSE) - Count(s, TRUE) = 0
        BY <1>1, <2>2, <2>4, <3>5, Zenon
      <4>3. balance[t] + (Count(s, FALSE) + 1) - Count(s, TRUE) = 1
        BY <1>1, <3>3, <4>2, AccountMoves, Zenon
      <4> QED BY <2>1, <3>5, <4>1, <4>3, Zenon
    <3> QED BY <3>4, <3>5
  <2> QED BY <2>3, <2>4
<1>3. ASSUME NEW u \in Target, u # t PROVE After(u)
  <2>1. healthy'[u] = healthy[u] /\ notices'[u] = notices[u] /\ balance'[u] = balance[u]
    BY <1>3 DEF TypeOK, Announce
  <2> QED BY <2>1, AnnouncedIs, Zenon DEF Announced
<1> QED BY <1>2, <1>3, AnnouncedIsAfter, Zenon

\* A delivery moves one announcement from the notices to the balance.
LEMMA DeliverBalances ==
  ASSUME TypeOK, EveryFlipAnnouncedOnce, NEW t \in Target, NEW i \in 1 .. Len(notices[t]),
         Deliver(t, i)
  PROVE  EveryFlipAnnouncedOnce'
<1> DEFINE s == notices[t]
           After(u) == balance'[u] + Count(notices'[u], FALSE) - Count(notices'[u], TRUE)
                         = IF healthy'[u] THEN 0 ELSE 1
<1>1. /\ s \in Seq(Notices) /\ balance[t] \in Int /\ s[i].healthy \in BOOLEAN
      /\ Count(s, TRUE) \in Nat /\ Count(s, FALSE) \in Nat
  <2>1. s \in Seq(Notices) /\ balance[t] \in Int
    BY DEF TypeOK, Notices
  <2>2. s[i] \in Notices
    BY <2>1
  <2> QED BY <2>1, <2>2, CountIsNat DEF Notices
<1>2. After(t)
  <2>1. /\ notices'[t] = SubSeq(s, 1, i - 1) \o SubSeq(s, i + 1, Len(s))
        /\ balance'[t] = IF s[i].healthy THEN balance[t] - 1 ELSE balance[t] + 1
        /\ healthy'[t] = healthy[t]
    BY DEF Deliver, TypeOK, targetVars
  <2>2. \A g \in BOOLEAN :
          Count(notices'[t], g) = IF s[i].healthy = g THEN Count(s, g) - 1 ELSE Count(s, g)
    <3> SUFFICES ASSUME NEW g \in BOOLEAN
                 PROVE  Count(notices'[t], g) = IF s[i].healthy = g THEN Count(s, g) - 1
                                                ELSE Count(s, g)
      OBVIOUS
    <3>1. s \in Seq(Notices) /\ i \in 1 .. Len(s)
      BY <1>1
    <3>2. Count(SubSeq(s, 1, i - 1) \o SubSeq(s, i + 1, Len(s)), g)
            = IF s[i].healthy = g THEN Count(s, g) - 1 ELSE Count(s, g)
      <4> HIDE DEF s
      <4> QED BY <3>1, CountRemoved, Zenon
    <3> QED BY <2>1, <3>2, Zenon
  <2> DEFINE w == IF healthy[t] THEN 0 ELSE 1
  <2>3. balance[t] + Count(s, FALSE) - Count(s, TRUE) = w /\ w \in {0, 1}
    BY AnnouncedIs, Zenon DEF Announced
  <2>4. (IF healthy'[t] THEN 0 ELSE 1) = w
    BY <2>1, Zenon
  <2> HIDE DEF w
  <2>5. CASE s[i].healthy = TRUE
    <3>1. /\ Count(notices'[t], TRUE) = Count(s, TRUE) - 1
          /\ Count(notices'[t], FALSE) = Count(s, FALSE)
          /\ balance'[t] = balance[t] - 1
      BY <2>1, <2>2, <2>5, Zenon
    <3>2. (balance[t] - 1) + Count(s, FALSE) - (Count(s, TRUE) - 1) = w
      BY <1>1, <2>3, AccountMoves
    <3> QED BY <2>4, <3>1, <3>2, Zenon
  <2>6. CASE s[i].healthy = FALSE
    <3>1. /\ Count(notices'[t], FALSE) = Count(s, FALSE) - 1
          /\ Count(notices'[t], TRUE) = Count(s, TRUE)
          /\ balance'[t] = balance[t] + 1
      BY <2>1, <2>2, <2>6, Zenon
    <3>2. (balance[t] + 1) + (Count(s, FALSE) - 1) - Count(s, TRUE) = w
      BY <1>1, <2>3, AccountMoves
    <3> QED BY <2>4, <3>1, <3>2, Zenon
  <2> QED BY <1>1, <2>5, <2>6
<1>3. ASSUME NEW u \in Target, u # t PROVE After(u)
  <2>1. healthy'[u] = healthy[u] /\ notices'[u] = notices[u] /\ balance'[u] = balance[u]
    BY <1>3 DEF TypeOK, Deliver, targetVars
  <2> QED BY <2>1, AnnouncedIs, Zenon DEF Announced
<1> QED BY <1>2, <1>3, AnnouncedIsAfter, Zenon

LEMMA FlipsInit == Init => EveryFlipAnnouncedOnce
<1> SUFFICES ASSUME Init, NEW t \in Target PROVE Announced(t)
  BY AnnouncedIs
<1>1. notices[t] = << >> /\ balance[t] = 0 /\ healthy[t] = TRUE
  BY DEF Init
<1>2. \A h \in BOOLEAN : Places(notices[t], h) = {}
  BY <1>1 DEF Places
<1>3. Count(notices[t], TRUE) = 0 /\ Count(notices[t], FALSE) = 0
  BY <1>2, FS_EmptySet, Zenon DEF Count
<1>4. 0 + 0 - 0 = 0
  OBVIOUS
<1> QED BY <1>1, <1>3, <1>4, Zenon DEF Announced

LEMMA FlipsStep == Inv /\ EveryFlipAnnouncedOnce /\ [Next]_vars => EveryFlipAnnouncedOnce'
<1> SUFFICES ASSUME Inv, EveryFlipAnnouncedOnce, [Next]_vars PROVE EveryFlipAnnouncedOnce'
  OBVIOUS
<1>1. TypeOK
  BY DEF Inv
<1>2. ASSUME UNCHANGED <<healthy, notices, balance>> PROVE EveryFlipAnnouncedOnce'
  BY <1>2 DEF EveryFlipAnnouncedOnce, NoticesOf
\* A failure below the threshold sets Healthy to the value it has.
<1>3. ASSUME NEW t \in Target, UNCHANGED <<notices, balance>>,
             healthy' = [healthy EXCEPT ![t] = healthy[t]]
      PROVE  EveryFlipAnnouncedOnce'
  <2>1. healthy' = healthy
    BY <1>1, <1>3 DEF TypeOK
  <2> QED BY <1>2, <1>3, <2>1
<1>4. ASSUME NEW t \in Target, RecordSuccess(t) PROVE EveryFlipAnnouncedOnce'
  BY <1>1, <1>4, AnnounceBalances DEF RecordSuccess, SetTarget
<1>5. ASSUME NEW t \in Target, RecordFailure(t) PROVE EveryFlipAnnouncedOnce'
  <2>1. CASE Trips(FailsAfterFailure(t))
    BY <1>1, <1>5, <2>1, AnnounceBalances DEF RecordFailure, SetTarget
  <2>2. CASE ~Trips(FailsAfterFailure(t))
    BY <1>3, <1>5, <2>2 DEF RecordFailure, SetTarget
  <2> QED BY <2>1, <2>2
<1>6. ASSUME ProbeApply PROVE EveryFlipAnnouncedOnce'
  <2> DEFINE t == probe.at
  <2>1. t \in Target
    BY <1>6 DEF Inv, ProbeApply, ProbeHasTarget, TypeOK
  <2>2. healthy[t] \in BOOLEAN /\ UNCHANGED balance
    BY <1>1, <1>6, <2>1 DEF TypeOK, ProbeApply
  <2>3. \E h \in {TRUE, FALSE, healthy[t]} :
          Announce(t, h, TRUE) /\ healthy' = [healthy EXCEPT ![t] = h]
    BY <1>6 DEF ProbeApply, SetTarget
  <2> HIDE DEF t
  <2> QED BY <1>1, <2>1, <2>2, <2>3, AnnounceBalances
<1>7. ASSUME NEW t \in Target, DeliverAsync(t) PROVE EveryFlipAnnouncedOnce'
  BY <1>1, <1>7, DeliverBalances DEF DeliverAsync
<1>8. ASSUME ProbeNotify PROVE EveryFlipAnnouncedOnce'
  <2>1. probe.at \in Target
    BY <1>8 DEF Inv, ProbeNotify, ProbeHasTarget, TypeOK
  <2> QED BY <1>1, <1>8, <2>1, DeliverBalances DEF ProbeNotify
<1>9. ASSUME NEW t \in Target, RegisterTarget(t) \/ Toggle(t)
      PROVE  UNCHANGED <<healthy, notices, balance>>
  BY <1>9 DEF RegisterTarget, Toggle, targetVars
<1>10. ASSUME ProbeRound \/ ProbePick \/ ProbeAnswer \/ ProbeStop \/ Cancel
       PROVE  UNCHANGED <<healthy, notices, balance>>
  BY <1>10 DEF ProbeRound, ProbePick, ProbeAnswer, ProbeStop, Cancel, targetVars
<1>11. ASSUME UNCHANGED vars PROVE UNCHANGED <<healthy, notices, balance>>
  BY <1>11 DEF vars, targetVars
<1> QED BY <1>2, <1>4, <1>5, <1>6, <1>7, <1>8, <1>9, <1>10, <1>11 DEF Next, Prober

\* Over what was delivered and what is still on its way, the "unhealthy"
\* announcements of a target exceed the "healthy" ones by one while it is
\* unhealthy, else by none, in whatever order the goroutines deliver them.
THEOREM FlipsAreAnnounced == Spec => []EveryFlipAnnouncedOnce
BY FlipsInit, FlipsStep, InvAlways, PTL DEF Spec
===============================================================================

------------------------------- MODULE HubProofs -------------------------------
(***************************************************************************)
(* Theorems about Hub, for any number of emitters and clients, any channel  *)
(* capacities and either overflow policy: its state is well typed, the      *)
(* telemetry counters add up, the run loop only sends to open channels, and *)
(* no registered client misses an event silently.                           *)
(***************************************************************************)
EXTENDS Hub, SequenceTheorems, FiniteSetTheorems, TLAPS

Events == 1 .. MaxEvents

-------------------------------------------------------------------------------
(* The feed: from the emitters to the hub's broadcast channel. *)

EmitterStates == [pc : {"idle", "push", "count", "offer"}, ev : 0 .. MaxEvents]

FeedTyped ==
  /\ emitter \in [Emitter -> EmitterStates]
  /\ eventChan \in Seq(Events) /\ Len(eventChan) <= EventCap
  /\ total \in Nat /\ dropped \in Nat /\ taken \in Nat
  /\ events \in 0 .. MaxEvents
  /\ worker \in [pc : {"take", "broadcast", "gone"}, ev : 0 .. MaxEvents]

\* How many emitters are at a point of emitTraceEvent.
Number(em, pc) == Cardinality({e \in Emitter : em[e].pc = pc})

\* Every event begun is counted, or on its way to be.
EventsAddUp == events = total + Number(emitter, "push") + Number(emitter, "count")

\* Busy emitters have events of their own.
OwnEvents ==
  /\ \A e \in Emitter : emitter[e].pc # "idle" => emitter[e].ev \in 1 .. events
  /\ \A e, f \in Emitter :
       emitter[e].pc # "idle" /\ emitter[f].pc # "idle" /\ e # f => emitter[e].ev # emitter[f].ev

FeedInv == FeedTyped /\ EventsAddUp /\ StatsAddUp /\ OwnEvents

-------------------------------------------------------------------------------
(* The hub's table of clients. *)

Connections ==
  [pc : {"none", "check", "register", "snapshot", "history", "read", "gone", "panicked"},
   writer : {"none", "take", "write", "leave", "unregister", "close", "gone"},
   up : BOOLEAN, browser : BOOLEAN, open : BOOLEAN,
   send : Seq(Events), todo : Seq(Events), due : SUBSET Events]

HubTyped ==
  /\ clients \subseteq Client
  /\ closed \in BOOLEAN
  /\ run \in [pc : {"select", "add", "closing", "gone"}, adding : Client \cup {NoClient}]
  /\ main \in {"running", "cancelled", "closing", "closed"}
  /\ conn \in [Client -> Connections]
  /\ \A c \in Client : Len(conn[c].send) <= SendCap

\* A client is added once, before its channel is closed: the run loop holds it until
\* it is in the table, and nothing knows of it before.
Table ==
  /\ run.pc = "add" <=> run.adding # NoClient
  /\ \A c \in Client :
       /\ c = run.adding => c \notin clients /\ conn[c].open
       /\ c \in clients => conn[c].open
       /\ conn[c].pc \in {"none", "check", "register"} =>
            c \notin clients /\ c # run.adding /\ conn[c].open

-------------------------------------------------------------------------------
(* What the clients were told. *)

StoreTyped ==
  /\ ring \in Seq(Events) /\ Len(ring) <= RingSize
  /\ broadcast \in Seq(Events) /\ Len(broadcast) <= BroadcastCap

\* Only what is in the ring, or was, travels.
OnlyPushed ==
  /\ eventChan \in Seq(Pushed)
  /\ worker.pc = "broadcast" => worker.ev \in Pushed
  /\ broadcast \in Seq(Pushed)
  /\ aired \subseteq Pushed

\* What was aired and a client is not told of is still to be sent from its history.
Told ==
  \A c \in Client : c \in clients \/ c = run.adding =>
    /\ conn[c].pc = "history" => aired \subseteq conn[c].due \cup Elements(conn[c].todo)
    /\ conn[c].pc = "read" => aired \subseteq conn[c].due

HubInv == HubTyped /\ Table /\ Told

Inv == FeedInv /\ StoreTyped /\ OnlyPushed /\ HubInv

-------------------------------------------------------------------------------
(* The feed. *)

LEMMA StepsOfEmit ==
  /\ EmitSteps["idle"] = "push" /\ EmitSteps["push"] = "count"
  /\ EmitSteps["count"] = "offer" /\ EmitSteps["offer"] = "idle"
  /\ DOMAIN EmitSteps = {"idle", "push", "count", "offer"}
BY DEF EmitSteps

LEMMA NumberIsNat ==
  ASSUME NEW em, NEW pc
  PROVE  IsFiniteSet({e \in Emitter : em[e].pc = pc}) /\ Number(em, pc) \in Nat
<1> DEFINE S == {e \in Emitter : em[e].pc = pc}
<1>1. S \subseteq Emitter /\ IsFiniteSet(Emitter)
  BY HubAssumption
<1> HIDE DEF S
<1>2. IsFiniteSet(S) /\ Cardinality(S) \in Nat
  BY <1>1, FS_Subset, FS_CardinalityType
<1> QED BY <1>2 DEF S, Number

\* An emitter that moves on is one less where it was and one more where it is.
LEMMA OneMoves ==
  ASSUME FeedTyped, NEW e \in Emitter, NEW p, NEW q, emitter[e].pc = p, p # q,
         NEW x \in EmitterStates, x.pc = q, emitter' = [emitter EXCEPT ![e] = x]
  PROVE  /\ Number(emitter', p) = Number(emitter, p) - 1
         /\ Number(emitter', q) = Number(emitter, q) + 1
         /\ emitter' \in [Emitter -> EmitterStates]
         /\ emitter'[e] = x /\ \A f \in Emitter \ {e} : emitter'[f] = emitter[f]
<1> DEFINE P == {f \in Emitter : emitter[f].pc = p}
           Q == {f \in Emitter : emitter[f].pc = q}
<1>1. /\ emitter' \in [Emitter -> EmitterStates]
      /\ emitter'[e] = x /\ \A f \in Emitter \ {e} : emitter'[f] = emitter[f]
  BY DEF FeedTyped
<1>2. /\ {f \in Emitter : emitter'[f].pc = p} = P \ {e} /\ e \in P
      /\ {f \in Emitter : emitter'[f].pc = q} = Q \cup {e} /\ e \notin Q
  BY <1>1
<1>4. IsFiniteSet(P) /\ IsFiniteSet(Q)
  BY NumberIsNat
<1>5. /\ Number(emitter, p) = Cardinality(P) /\ Number(emitter', p) = Cardinality(P \ {e})
      /\ Number(emitter, q) = Cardinality(Q) /\ Number(emitter', q) = Cardinality(Q \cup {e})
  BY <1>2 DEF Number
<1> HIDE DEF P, Q
<1>6. Cardinality(P \ {e}) = Cardinality(P) - 1 /\ Cardinality(Q \cup {e}) = Cardinality(Q) + 1
  BY <1>2, <1>4, FS_AddElement, FS_RemoveElement
<1> QED BY <1>1, <1>5, <1>6

\* And where it neither was nor is, nothing changes.
LEMMA NoneMoves ==
  ASSUME FeedTyped, NEW e \in Emitter, NEW p, NEW q, emitter[e].pc = p, NEW o, o # p, o # q,
         NEW x \in EmitterStates, x.pc = q, emitter' = [emitter EXCEPT ![e] = x]
  PROVE  Number(emitter', o) = Number(emitter, o)
<1>1. {f \in Emitter : emitter'[f].pc = o} = {f \in Emitter : emitter[f].pc = o}
  BY DEF FeedTyped
<1> QED BY <1>1 DEF Number

\* What an emitter does to the sequence of its steps and to its event.
LEMMA GoesOn ==
  ASSUME FeedTyped, NEW e \in Emitter, EmitterGoesOn(e)
  PROVE  LET q == EmitSteps[emitter[e].pc] IN
         emitter' = [emitter EXCEPT ![e] = [pc |-> q, ev |-> IF q = "idle" THEN 0 ELSE emitter[e].ev]]
BY DEF EmitterGoesOn, FeedTyped

LEMMA EmittersKeepEvents ==
  ASSUME FeedTyped, OwnEvents, NEW e \in Emitter, emitter[e].pc # "idle", UNCHANGED events,
         NEW x, x.pc = "idle" \/ x.ev = emitter[e].ev,
         emitter'[e] = x, \A f \in Emitter \ {e} : emitter'[f] = emitter[f]
  PROVE  OwnEvents'
BY DEF OwnEvents

\* The hub, its clients, main and the browsers leave the feed alone.
LEMMA OthersKeepTheFeed ==
  ASSUME \/ Run \/ Cancel \/ Shutdown \/ ShutdownClose \/ UNCHANGED vars
         \/ \E c \in Client : Upgrade(c) \/ Handler(c) \/ Writer(c) \/ BrowserLeaves(c)
  PROVE  UNCHANGED feedVars
<1>1. ASSUME NEW c \in Client, Upgrade(c) \/ Handler(c) \/ Writer(c) \/ BrowserLeaves(c)
      PROVE  UNCHANGED feedVars
  BY <1>1 DEF Upgrade, Handler, Writer, BrowserLeaves, CheckClosed, Snapshot, SendHistory,
    EndHistory, ReadFails, WriterTake, WriterWrite, WriterLeave, WriterGivesUp, WriterClose, Steps
<1>2. ASSUME Run PROVE UNCHANGED feedVars
  BY <1>2 DEF Run, RunAdd, RunBroadcast, RunStop, RunClose, RunRegister, RunUnregister, CloseClients
<1>3. ASSUME Cancel \/ Shutdown \/ ShutdownClose \/ UNCHANGED vars PROVE UNCHANGED feedVars
  BY <1>3 DEF Cancel, Shutdown, ShutdownClose, CloseClients, vars
<1> QED BY <1>1, <1>2, <1>3

LEMMA FeedInit == Init => FeedInv
<1> SUFFICES ASSUME Init PROVE FeedInv
  OBVIOUS
<1>1. FeedTyped
  BY HubAssumption DEF Init, FeedTyped, Events, EmitterStates
<1>2. \A pc \in {"push", "count", "offer"} : Number(emitter, pc) = 0
  <2>1. ASSUME NEW pc \in {"push", "count", "offer"} PROVE {e \in Emitter : emitter[e].pc = pc} = {}
    BY DEF Init
  <2> QED BY <2>1, FS_EmptySet DEF Number
<1>3. EventsAddUp /\ StatsAddUp
  BY <1>2 DEF Init, EventsAddUp, StatsAddUp, Number
<1>4. OwnEvents
  BY DEF Init, OwnEvents
<1> QED BY <1>1, <1>3, <1>4 DEF FeedInv

LEMMA FeedStep == FeedInv /\ [Next]_vars => FeedInv'
<1> SUFFICES ASSUME FeedInv, [Next]_vars PROVE FeedInv'
  OBVIOUS
<1>0. /\ FeedTyped /\ EventsAddUp /\ StatsAddUp /\ OwnEvents
      /\ total \in Nat /\ dropped \in Nat /\ taken \in Nat /\ events \in 0 .. MaxEvents
      /\ MaxEvents \in Nat /\ EventCap \in Nat \ {0}
      /\ Number(emitter, "push") \in Nat /\ Number(emitter, "count") \in Nat
      /\ Number(emitter, "offer") \in Nat
  BY HubAssumption, NumberIsNat DEF FeedInv, FeedTyped
<1>1. /\ eventChan \in Seq(Events) /\ Len(eventChan) \in Nat /\ Len(eventChan) <= EventCap
      /\ total = dropped + taken + Len(eventChan) + Number(emitter, "offer")
      /\ events = total + Number(emitter, "push") + Number(emitter, "count")
  BY <1>0 DEF FeedTyped, EventsAddUp, StatsAddUp, Number
\* It is enough to account for the counters.
<1>2. ASSUME FeedTyped', OwnEvents',
             total' = dropped' + taken' + Len(eventChan') + Number(emitter', "offer"),
             events' = total' + Number(emitter', "push") + Number(emitter', "count")
      PROVE  FeedInv'
  BY <1>2 DEF FeedInv, EventsAddUp, StatsAddUp, Number
<1>3. ASSUME NEW e \in Emitter, BeginEvent(e) PROVE FeedInv'
  <2> DEFINE x == [pc |-> "push", ev |-> events + 1]
  <2>1. /\ emitter' = [emitter EXCEPT ![e] = x] /\ emitter[e].pc = "idle" /\ x.pc = "push"
        /\ events' = events + 1 /\ events < MaxEvents
        /\ UNCHANGED <<eventChan, total, dropped, worker, taken>>
    BY <1>3, StepsOfEmit DEF BeginEvent, EmitterAt
  <2>2. x \in EmitterStates /\ x.ev = events + 1
    BY <1>0, <2>1 DEF EmitterStates
  <2> HIDE DEF x
  <2>3. /\ Number(emitter', "idle") = Number(emitter, "idle") - 1
        /\ Number(emitter', "push") = Number(emitter, "push") + 1
        /\ emitter' \in [Emitter -> EmitterStates]
        /\ emitter'[e] = x /\ \A f \in Emitter \ {e} : emitter'[f] = emitter[f]
    <3>1. FeedTyped /\ "idle" # "push"
      BY <1>0
    <3> QED BY <2>1, <2>2, <3>1, OneMoves
  <2>4. Number(emitter', "count") = Number(emitter, "count") /\ Number(emitter', "offer") = Number(emitter, "offer")
    <3>1. FeedTyped /\ "count" \notin {"idle", "push"} /\ "offer" \notin {"idle", "push"}
      BY <1>0
    <3> QED BY <2>1, <2>2, <3>1, NoneMoves
  <2>5. FeedTyped'
    BY <1>0, <2>1, <2>3 DEF FeedTyped
  <2>6. OwnEvents'
    BY <1>0, <2>1, <2>2, <2>3 DEF OwnEvents
  <2>7. total' = dropped' + taken' + Len(eventChan') + Number(emitter', "offer")
    BY <1>1, <2>1, <2>4
  <2>8. events + 1 = total + (Number(emitter, "push") + 1) + Number(emitter, "count")
    BY <1>0, <1>1, SMTT(30)
  <2>9. events' = total' + Number(emitter', "push") + Number(emitter', "count")
    BY <2>1, <2>3, <2>4, <2>8
  <2> QED BY <1>2, <2>5, <2>6, <2>7, <2>9
<1>4. ASSUME NEW e \in Emitter, Push(e) PROVE FeedInv'
  <2> DEFINE x == [pc |-> "count", ev |-> emitter[e].ev]
  <2>1. /\ emitter' = [emitter EXCEPT ![e] = x] /\ emitter[e].pc = "push" /\ x.pc = "count"
        /\ x.ev = emitter[e].ev
        /\ UNCHANGED <<eventChan, total, dropped, worker, taken, events>>
    BY <1>0, <1>4, StepsOfEmit, GoesOn DEF Push, EmitterAt
  <2>2. x \in EmitterStates
    BY <1>0 DEF FeedTyped, EmitterStates
  <2> HIDE DEF x
  <2>3. /\ Number(emitter', "push") = Number(emitter, "push") - 1
        /\ Number(emitter', "count") = Number(emitter, "count") + 1
        /\ emitter' \in [Emitter -> EmitterStates]
        /\ emitter'[e] = x /\ \A f \in Emitter \ {e} : emitter'[f] = emitter[f]
    <3>1. FeedTyped /\ "push" # "count"
      BY <1>0
    <3> QED BY <2>1, <2>2, <3>1, OneMoves
  <2>4. Number(emitter', "offer") = Number(emitter, "offer")
    <3>1. FeedTyped /\ "offer" # "push" /\ "offer" # "count"
      BY <1>0
    <3> QED BY <2>1, <2>2, <3>1, NoneMoves
  <2>5. FeedTyped' /\ OwnEvents'
    BY <1>0, <2>1, <2>3, EmittersKeepEvents DEF FeedTyped
  <2>6. total' = dropped' + taken' + Len(eventChan') + Number(emitter', "offer")
    BY <1>1, <2>1, <2>4
  <2>7. events = total + (Number(emitter, "push") - 1) + (Number(emitter, "count") + 1)
    BY <1>0, <1>1, SMTT(30)
  <2>8. events' = total' + Number(emitter', "push") + Number(emitter', "count")
    BY <2>1, <2>3, <2>7
  <2> QED BY <1>2, <2>5, <2>6, <2>8
<1>5. ASSUME NEW e \in Emitter, CountEvent(e) PROVE FeedInv'
  <2> DEFINE x == [pc |-> "offer", ev |-> emitter[e].ev]
  <2>1. /\ emitter' = [emitter EXCEPT ![e] = x] /\ emitter[e].pc = "count" /\ x.pc = "offer"
        /\ x.ev = emitter[e].ev /\ total' = total + 1
        /\ UNCHANGED <<eventChan, dropped, worker, taken, events>>
    BY <1>0, <1>5, StepsOfEmit, GoesOn DEF CountEvent, EmitterAt
  <2>2. x \in EmitterStates
    BY <1>0 DEF FeedTyped, EmitterStates
  <2> HIDE DEF x
  <2>3. /\ Number(emitter', "count") = Number(emitter, "count") - 1
        /\ Number(emitter', "offer") = Number(emitter, "offer") + 1
        /\ emitter' \in [Emitter -> EmitterStates]
        /\ emitter'[e] = x /\ \A f \in Emitter \ {e} : emitter'[f] = emitter[f]
    <3>1. FeedTyped /\ "count" # "offer"
      BY <1>0
    <3> QED BY <2>1, <2>2, <3>1, OneMoves
  <2>4. Number(emitter', "push") = Number(emitter, "push")
    <3>1. FeedTyped /\ "push" # "count" /\ "push" # "offer"
      BY <1>0
    <3> QED BY <2>1, <2>2, <3>1, NoneMoves
  <2>5. FeedTyped' /\ OwnEvents'
    BY <1>0, <2>1, <2>3, EmittersKeepEvents DEF FeedTyped
  <2>6. /\ total' = dropped' + taken' + Len(eventChan') + Number(emitter', "offer")
        /\ events' = total' + Number(emitter', "push") + Number(emitter', "count")
    <3>1. total + 1 = dropped + taken + Len(eventChan) + (Number(emitter, "offer") + 1)
      BY <1>0, <1>1
    <3>2. events = (total + 1) + Number(emitter, "push") + (Number(emitter, "count") - 1)
      BY <1>0, <1>1
    <3>3. total' = dropped' + taken' + Len(eventChan') + Number(emitter', "offer")
      BY <2>1, <2>3, <3>1
    <3>4. events' = total' + Number(emitter', "push") + Number(emitter', "count")
      BY <2>1, <2>3, <2>4, <3>2
    <3> QED BY <3>3, <3>4
  <2> QED BY <1>2, <2>5, <2>6
\* The two ends of an event's way in its request: taken by the channel, or dropped.
<1>6. ASSUME NEW e \in Emitter, Offer(e) \/ Drop(e) PROVE FeedInv'
  <2> DEFINE x == [pc |-> "idle", ev |-> 0]
  <2>1. /\ emitter' = [emitter EXCEPT ![e] = x] /\ emitter[e].pc = "offer" /\ x.pc = "idle"
        /\ UNCHANGED <<total, worker, taken, events>>
        /\ \/ /\ Len(eventChan) < EventCap /\ dropped' = dropped
              /\ eventChan' = Append(eventChan, emitter[e].ev)
           \/ dropped' = dropped + 1 /\ eventChan' = eventChan
    BY <1>0, <1>6, StepsOfEmit, GoesOn DEF Offer, Drop, DropCounted, EmitterAt
  <2>2. x \in EmitterStates /\ emitter[e].ev \in Events
    BY <1>0, <2>1 DEF OwnEvents, Events, EmitterStates
  <2> HIDE DEF x
  <2>3. /\ Number(emitter', "offer") = Number(emitter, "offer") - 1
        /\ Number(emitter', "idle") = Number(emitter, "idle") + 1
        /\ emitter' \in [Emitter -> EmitterStates]
        /\ emitter'[e] = x /\ \A f \in Emitter \ {e} : emitter'[f] = emitter[f]
    <3>1. FeedTyped /\ "offer" # "idle"
      BY <1>0
    <3> QED BY <2>1, <2>2, <3>1, OneMoves
  <2>4. Number(emitter', "push") = Number(emitter, "push") /\ Number(emitter', "count") = Number(emitter, "count")
    <3>1. FeedTyped /\ "push" \notin {"offer", "idle"} /\ "count" \notin {"offer", "idle"}
      BY <1>0
    <3> QED BY <2>1, <2>2, <3>1, NoneMoves
  <2>5. /\ eventChan' \in Seq(Events) /\ Len(eventChan') <= EventCap
        /\ dropped' + Len(eventChan') = dropped + Len(eventChan) + 1
        /\ Len(eventChan') \in Nat /\ dropped' \in Nat
    <3>1. CASE Len(eventChan) < EventCap /\ dropped' = dropped /\ eventChan' = Append(eventChan, emitter[e].ev)
      <4>1. eventChan' \in Seq(Events) /\ Len(eventChan') = Len(eventChan) + 1
        BY <1>1, <2>2, <3>1, AppendProperties
      <4> QED BY <1>0, <1>1, <3>1, <4>1, SMTT(30)
    <3>2. CASE dropped' = dropped + 1 /\ eventChan' = eventChan
      BY <1>0, <1>1, <3>2
    <3> QED BY <2>1, <3>1, <3>2
  <2>6. FeedTyped' /\ OwnEvents'
    BY <1>0, <2>1, <2>3, <2>5, EmittersKeepEvents DEF FeedTyped
  <2>7. /\ total' = dropped' + taken' + Len(eventChan') + Number(emitter', "offer")
        /\ events' = total' + Number(emitter', "push") + Number(emitter', "count")
    <3> DEFINE n == Number(emitter, "offer")
               k == Len(eventChan)
               K == Len(eventChan')
    <3>1. /\ {total, dropped, dropped', taken, n, k, K} \subseteq Nat
          /\ total = dropped + taken + k + n /\ dropped' + K = dropped + k + 1
      BY <1>0, <1>1, <2>5 DEF FeedTyped
    <3> HIDE DEF n, k, K
    <3>2. total = dropped' + taken + K + (n - 1)
      BY <3>1
    <3>3. total' = dropped' + taken' + Len(eventChan') + Number(emitter', "offer")
      BY <2>1, <2>3, <3>2 DEF n, K
    <3>4. events' = total' + Number(emitter', "push") + Number(emitter', "count")
      BY <1>1, <2>1, <2>4
    <3> QED BY <3>3, <3>4
  <2> QED BY <1>2, <2>6, <2>7
<1>7. ASSUME UNCHANGED <<emitter, total, dropped, events>>, taken' \in Nat, eventChan' \in Seq(Events),
             Len(eventChan') <= EventCap, taken' + Len(eventChan') = taken + Len(eventChan),
             worker' \in [pc : {"take", "broadcast", "gone"}, ev : 0 .. MaxEvents]
      PROVE  FeedInv'
  <2>1. FeedTyped' /\ OwnEvents'
    BY <1>0, <1>7 DEF FeedTyped, OwnEvents
  <2>2. Number(emitter', "push") = Number(emitter, "push") /\ Number(emitter', "count") = Number(emitter, "count") /\ Number(emitter', "offer") = Number(emitter, "offer")
    BY <1>7
  <2>3. Len(eventChan') \in Nat
    BY <1>7, LenProperties
  <2>4. total = dropped + (taken' + Len(eventChan')) + Number(emitter, "offer")
    BY <1>0, <1>1, <1>7, <2>3
  <2> QED BY <1>0, <1>1, <1>2, <1>7, <2>1, <2>2, <2>3, <2>4
<1>8. ASSUME WorkerTake PROVE FeedInv'
  <2>1. /\ Head(eventChan) \in Events /\ Tail(eventChan) \in Seq(Events)
        /\ Len(Tail(eventChan)) = Len(eventChan) - 1
    BY <1>1, <1>8, HeadTailProperties DEF WorkerTake
  <2>2. /\ eventChan' = Tail(eventChan) /\ taken' = taken + 1
        /\ worker' = [pc |-> "broadcast", ev |-> Head(eventChan)]
        /\ UNCHANGED <<emitter, total, dropped, events>>
    BY <1>8 DEF WorkerTake
  <2>3. worker' \in [pc : {"take", "broadcast", "gone"}, ev : 0 .. MaxEvents]
    BY <1>0, <2>1, <2>2 DEF Events
  <2> QED BY <1>0, <1>1, <1>7, <2>1, <2>2, <2>3
<1>9. ASSUME WorkerBroadcast \/ WorkerStop PROVE FeedInv'
  <2>1. /\ worker' \in [pc : {"take", "broadcast", "gone"}, ev : 0 .. MaxEvents]
        /\ UNCHANGED <<emitter, eventChan, total, dropped, events, taken>>
    BY <1>0, <1>9 DEF WorkerBroadcast, WorkerStop, FeedTyped
  <2> QED BY <1>0, <1>1, <1>7, <2>1
<1>10. ASSUME UNCHANGED feedVars PROVE FeedInv'
  <2>1. UNCHANGED <<emitter, eventChan, total, dropped, worker, events, taken>>
    BY <1>10 DEF feedVars
  <2>2. worker \in [pc : {"take", "broadcast", "gone"}, ev : 0 .. MaxEvents]
    BY <1>0 DEF FeedTyped
  <2> QED BY <1>0, <1>1, <1>7, <2>1, <2>2
<1> QED
  BY <1>3, <1>4, <1>5, <1>6, <1>8, <1>9, <1>10, OthersKeepTheFeed DEF Next, Emit, Worker

-------------------------------------------------------------------------------
(* What travels. *)

\* An event that its emitter has pushed is pushed: no other emitter holds it.
LEMMA BusyPushed ==
  ASSUME FeedInv, NEW e \in Emitter, emitter[e].pc \in {"count", "offer"}
  PROVE  emitter[e].ev \in Pushed
BY DEF FeedInv, FeedTyped, OwnEvents, Pushed

\* No step makes a pushed event one to be pushed.
LEMMA PushedGrows == FeedInv /\ [Next]_vars => Pushed \subseteq Pushed'
<1> SUFFICES ASSUME FeedInv, [Next]_vars PROVE Pushed \subseteq Pushed'
  OBVIOUS
<1>0. /\ FeedTyped /\ OwnEvents /\ events \in Nat /\ emitter \in [Emitter -> EmitterStates]
  BY HubAssumption DEF FeedInv, FeedTyped
<1>1. ASSUME NEW e \in Emitter, BeginEvent(e) PROVE Pushed \subseteq Pushed'
  <2>1. /\ emitter'[e].ev = events + 1 /\ events' = events + 1
        /\ \A f \in Emitter \ {e} : emitter'[f] = emitter[f]
    BY <1>0, <1>1 DEF BeginEvent
  <2> QED BY <1>0, <2>1 DEF Pushed
<1>2. ASSUME NEW e \in Emitter, Emit(e) PROVE Pushed \subseteq Pushed'
  <2>1. EmitterGoesOn(e) /\ UNCHANGED events /\ emitter[e].pc \in {"push", "count", "offer"}
    BY <1>2 DEF Emit, Push, CountEvent, Offer, Drop, EmitterAt
  <2>2. /\ emitter'[e].pc = EmitSteps[emitter[e].pc]
        /\ \A f \in Emitter \ {e} : emitter'[f] = emitter[f]
    BY <1>0, <2>1, GoesOn
  <2>3. emitter'[e].pc # "push"
    BY <2>1, <2>2, StepsOfEmit
  <2> QED BY <1>0, <2>1, <2>2, <2>3 DEF Pushed
<1>3. ASSUME UNCHANGED <<emitter, events>> PROVE Pushed \subseteq Pushed'
  BY <1>3 DEF Pushed
<1>4. Worker => UNCHANGED <<emitter, events>>
  BY DEF Worker, WorkerTake, WorkerBroadcast, WorkerStop
<1>5. UNCHANGED feedVars => UNCHANGED <<emitter, events>>
  BY DEF feedVars
<1> QED
  BY <1>1, <1>2, <1>3, <1>4, <1>5, OthersKeepTheFeed DEF Next

\* The ring after an event was recorded.
LEMMA RingTyped ==
  ASSUME StoreTyped, NEW ev \in Events, Trace!Record(ev)
  PROVE  ring' \in Seq(Events) /\ Len(ring') <= RingSize
<1> DEFINE r == <<ev>> \o ring
           n == IF Len(r) < RingSize THEN Len(r) ELSE RingSize
<1>1. r \in Seq(Events) /\ Len(r) \in Nat
  BY DEF StoreTyped
<1>2. n \in 0 .. Len(r) /\ n <= RingSize /\ n \in Nat
  BY <1>1, HubAssumption
<1>3. ring' = SubSeq(r, 1, n)
  BY DEF Trace!Record, Trace!Newest
<1> HIDE DEF r, n
<1>4. \A i \in 1 .. n : r[i] \in Events
  BY <1>1, <1>2
<1>5. SubSeq(r, 1, n) \in Seq(Events) /\ Len(SubSeq(r, 1, n)) = IF 1 <= n THEN n - 1 + 1 ELSE 0
  BY <1>2, <1>4, SubSeqProperties
<1> QED BY <1>2, <1>3, <1>5

LEMMA StoreStep == FeedInv /\ StoreTyped /\ OnlyPushed /\ [Next]_vars => StoreTyped' /\ OnlyPushed'
<1> SUFFICES ASSUME FeedInv, StoreTyped, OnlyPushed, [Next]_vars PROVE StoreTyped' /\ OnlyPushed'
  OBVIOUS
<1>0. /\ Pushed \subseteq Pushed' /\ BroadcastCap \in Nat
      /\ eventChan \in Seq(Pushed') /\ broadcast \in Seq(Pushed') /\ aired \subseteq Pushed'
      /\ worker.pc = "broadcast" => worker.ev \in Pushed'
  BY PushedGrows, SeqMonotonic, HubAssumption DEF OnlyPushed
<1>1. ASSUME UNCHANGED <<ring, broadcast>> PROVE StoreTyped'
  BY <1>1 DEF StoreTyped
<1>2. ASSUME NEW e \in Emitter, Push(e) PROVE StoreTyped' /\ OnlyPushed'
  <2>1. /\ emitter[e].ev \in Events /\ Trace!Record(emitter[e].ev)
        /\ UNCHANGED <<eventChan, worker, broadcast, aired>>
    BY <1>2, HubAssumption DEF Push, EmitterAt, FeedInv, FeedTyped, OwnEvents, Events
  <2>2. StoreTyped'
    BY <2>1, RingTyped DEF StoreTyped
  <2> QED BY <1>0, <2>1, <2>2 DEF OnlyPushed
<1>3. ASSUME NEW e \in Emitter, Offer(e) PROVE StoreTyped' /\ OnlyPushed'
  <2>1. /\ emitter[e].ev \in Pushed /\ eventChan' = Append(eventChan, emitter[e].ev)
        /\ UNCHANGED <<worker, ring, broadcast, aired>>
    BY <1>3, BusyPushed DEF Offer, EmitterAt
  <2>2. eventChan' \in Seq(Pushed')
    BY <1>0, <2>1, AppendProperties
  <2> QED BY <1>0, <1>1, <2>1, <2>2 DEF OnlyPushed
<1>4. ASSUME WorkerTake PROVE StoreTyped' /\ OnlyPushed'
  <2>1. /\ eventChan # << >> /\ eventChan' = Tail(eventChan)
        /\ worker' = [pc |-> "broadcast", ev |-> Head(eventChan)]
        /\ UNCHANGED <<ring, broadcast, aired>>
    BY <1>4 DEF WorkerTake
  <2>2. Tail(eventChan) \in Seq(Pushed') /\ Head(eventChan) \in Pushed'
    BY <1>0, <2>1, HeadTailProperties
  <2> QED BY <1>0, <1>1, <2>1, <2>2 DEF OnlyPushed
<1>5. ASSUME WorkerBroadcast PROVE StoreTyped' /\ OnlyPushed'
  <2>1. /\ worker.pc = "broadcast" /\ worker'.pc = "take"
        /\ broadcast' = IF closed \/ BroadcastFull THEN broadcast ELSE Append(broadcast, worker.ev)
        /\ UNCHANGED <<eventChan, ring, aired>>
    BY <1>5 DEF WorkerBroadcast
  <2>2. worker.ev \in Events
    BY <1>0, <2>1 DEF OnlyPushed, Pushed, FeedInv, FeedTyped, Events
  <2>3. broadcast' \in Seq(Pushed')
    BY <1>0, <2>1, AppendProperties
  <2>4. broadcast' \in Seq(Events) /\ Len(broadcast') <= BroadcastCap
    <3>1. CASE broadcast' = broadcast
      BY <3>1 DEF StoreTyped
    <3>2. CASE ~BroadcastFull /\ broadcast' = Append(broadcast, worker.ev)
      <4>1. broadcast' \in Seq(Events) /\ Len(broadcast') = Len(broadcast) + 1
        BY <2>2, <3>2, AppendProperties DEF StoreTyped
      <4>2. Len(broadcast) \in Nat /\ Len(broadcast) <= BroadcastCap /\ Len(broadcast) # BroadcastCap
        BY <3>2 DEF StoreTyped, BroadcastFull
      <4> QED BY <1>0, <4>1, <4>2
    <3> QED BY <2>1, <3>1, <3>2
  <2> QED BY <1>0, <2>1, <2>3, <2>4 DEF StoreTyped, OnlyPushed
<1>6. ASSUME RunBroadcast PROVE StoreTyped' /\ OnlyPushed'
  <2>1. /\ broadcast # << >> /\ broadcast' = Tail(broadcast)
        /\ aired' = aired \/ aired' = aired \cup {Head(broadcast)}
        /\ UNCHANGED <<eventChan, worker, ring>>
    BY <1>6 DEF RunBroadcast, feedVars
  <2>2. Tail(broadcast) \in Seq(Pushed') /\ Head(broadcast) \in Pushed'
    BY <1>0, <2>1, HeadTailProperties
  <2>3. Tail(broadcast) \in Seq(Events) /\ Len(Tail(broadcast)) <= BroadcastCap
    <3>1. /\ broadcast \in Seq(Events) /\ Len(broadcast) \in Nat /\ Len(broadcast) <= BroadcastCap
      BY DEF StoreTyped
    <3>2. Tail(broadcast) \in Seq(Events) /\ Len(Tail(broadcast)) = Len(broadcast) - 1
      BY <2>1, <3>1, HeadTailProperties
    <3> QED BY <1>0, <3>1, <3>2
  <2> QED BY <1>0, <2>1, <2>2, <2>3 DEF StoreTyped, OnlyPushed
<1>7. ASSUME UNCHANGED <<eventChan, ring, broadcast, aired>>,
             UNCHANGED worker \/ worker'.pc = "gone"
      PROVE  StoreTyped' /\ OnlyPushed'
  BY <1>0, <1>1, <1>7 DEF OnlyPushed
<1>8. ASSUME NEW e \in Emitter, BeginEvent(e) \/ CountEvent(e) \/ Drop(e)
      PROVE  UNCHANGED <<eventChan, worker, ring, broadcast, aired>>
  BY <1>8 DEF BeginEvent, CountEvent, Drop
<1>9. WorkerStop => UNCHANGED <<eventChan, ring, broadcast, aired>> /\ worker'.pc = "gone"
  BY DEF WorkerStop, FeedInv, FeedTyped
<1>10. ASSUME NEW c \in Client, \/ Upgrade(c) \/ Handler(c) \/ Writer(c) \/ BrowserLeaves(c)
                               \/ RunRegister(c) \/ RunUnregister(c)
       PROVE  UNCHANGED <<eventChan, worker, ring, broadcast, aired>>
  BY <1>10 DEF Upgrade, Handler, Writer, BrowserLeaves, CheckClosed, Snapshot, SendHistory, EndHistory,
    ReadFails, WriterTake, WriterWrite, WriterLeave, WriterGivesUp, WriterClose, Steps, feedVars,
    RunRegister, RunUnregister
<1>11. RunAdd \/ RunStop \/ RunClose \/ Cancel \/ Shutdown \/ ShutdownClose \/ UNCHANGED vars
         => UNCHANGED <<eventChan, worker, ring, broadcast, aired>>
  BY DEF RunAdd, RunStop, RunClose, Cancel, Shutdown, ShutdownClose, CloseClients, vars, feedVars
<1> QED
  BY <1>2, <1>3, <1>4, <1>5, <1>6, <1>7, <1>8, <1>9, <1>10, <1>11 DEF Next, Emit, Worker, Run

-------------------------------------------------------------------------------
(* The clients. *)

Joined(c) == c \in clients \/ c = run.adding

\* What Told asks of a client that has joined.
ToldAll(r, a) ==
  /\ r.pc = "history" => a \subseteq r.due \cup Elements(r.todo)
  /\ r.pc = "read" => a \subseteq r.due

Early == {"none", "check", "register"}

\* A step of one connection that leaves its channel open or closed and the hub alone.
LEMMA OneConn ==
  ASSUME HubInv, NEW c \in Client, NEW r \in Connections, Steps(c, r), Len(r.send) <= SendCap,
         r.open = conn[c].open, r.pc \in Early => conn[c].pc \in Early,
         Joined(c) => ToldAll(r, aired)
  PROVE  HubInv'
<1>1. /\ conn' = [conn EXCEPT ![c] = r]
      /\ UNCHANGED <<clients, closed, run, main, aired>>
  BY DEF Steps, hubVars
<1>2. /\ conn' \in [Client -> Connections]
      /\ conn'[c] = r /\ \A d \in Client \ {c} : conn'[d] = conn[d]
  BY <1>1 DEF HubInv, HubTyped
<1>3. HubTyped'
  BY <1>1, <1>2 DEF HubInv, HubTyped
<1>4. Table'
  BY <1>1, <1>2 DEF HubInv, Table, Early
<1>5. Told'
  BY <1>1, <1>2 DEF HubInv, Told, Joined, ToldAll
<1> QED BY <1>3, <1>4, <1>5 DEF HubInv

LEMMA ReverseElements ==
  ASSUME NEW s \in Seq(Events)
  PROVE  /\ Reverse(s) \in Seq(Events)
         /\ Elements(Reverse(s)) = Elements(s)
<1> DEFINE n == Len(s)
<1>1. n \in Nat
  OBVIOUS
<1>2. /\ Reverse(s) = [i \in 1 .. n |-> s[n + 1 - i]]
      /\ \A i \in 1 .. n : n + 1 - i \in 1 .. n /\ n + 1 - (n + 1 - i) = i
  BY <1>1 DEF Reverse
<1>3. Reverse(s) \in [1 .. n -> Events]
  BY <1>2
<1>4. Reverse(s) \in Seq(Events) /\ Len(Reverse(s)) = n
  BY <1>1, <1>2, <1>3
<1>5. \A i \in 1 .. n : Reverse(s)[i] = s[n + 1 - i]
  BY <1>2
<1> HIDE DEF n
<1>6. Elements(Reverse(s)) = Elements(s)
  <2>1. Elements(Reverse(s)) = {Reverse(s)[i] : i \in 1 .. n} /\ Elements(s) = {s[i] : i \in 1 .. n}
    BY <1>4 DEF Elements, n
  <2>2. ASSUME NEW i \in 1 .. n PROVE Reverse(s)[i] \in Elements(s)
    BY <1>2, <1>5, <2>1
  <2>3. ASSUME NEW i \in 1 .. n PROVE s[i] \in Elements(Reverse(s))
    <3>1. n + 1 - i \in 1 .. n /\ Reverse(s)[n + 1 - i] = s[i]
      BY <1>2, <1>5
    <3> QED BY <2>1, <3>1
  <2> QED BY <2>1, <2>2, <2>3
<1> QED BY <1>4, <1>6

\* Taking the first element leaves the rest.
LEMMA HeadAndTail ==
  ASSUME NEW s \in Seq(Events), s # << >>
  PROVE  /\ Head(s) \in Events /\ Tail(s) \in Seq(Events) /\ Len(Tail(s)) = Len(s) - 1
         /\ Elements(s) = {Head(s)} \cup Elements(Tail(s))
<1>1. /\ Head(s) \in Events /\ Tail(s) \in Seq(Events) /\ Len(Tail(s)) = Len(s) - 1
      /\ \A i \in 1 .. Len(Tail(s)) : Tail(s)[i] = s[i + 1]
      /\ Head(s) = s[1] /\ Len(s) \in Nat /\ Len(s) >= 1
  BY HeadTailProperties, LenProperties, EmptySeq
<1>2. ASSUME NEW i \in 1 .. Len(s) PROVE s[i] \in {Head(s)} \cup Elements(Tail(s))
  <2>1. CASE i = 1
    BY <1>1, <2>1
  <2>2. CASE i # 1
    <3>1. i - 1 \in 1 .. Len(Tail(s)) /\ (i - 1) + 1 = i
      BY <1>1, <2>2
    <3>2. Tail(s)[i - 1] = s[i]
      BY <1>1, <3>1
    <3> QED BY <3>1, <3>2 DEF Elements
  <2> QED BY <2>1, <2>2
<1>3. Head(s) \in Elements(s)
  BY <1>1 DEF Elements
<1>4. ASSUME NEW i \in 1 .. Len(Tail(s)) PROVE Tail(s)[i] \in Elements(s)
  <2>1. i + 1 \in 1 .. Len(s) /\ Tail(s)[i] = s[i + 1]
    BY <1>1
  <2> QED BY <2>1 DEF Elements
<1> QED BY <1>1, <1>2, <1>3, <1>4 DEF Elements

\* A message offered to a send channel.
LEMMA SendTyped ==
  ASSUME NEW s \in Seq(Events), NEW m \in Events, Len(s) <= SendCap
  PROVE  LET q == IF Len(s) < SendCap THEN Append(s, m) ELSE s IN
         q \in Seq(Events) /\ Len(q) <= SendCap
<1>1. Append(s, m) \in Seq(Events) /\ Len(Append(s, m)) = Len(s) + 1 /\ Len(s) \in Nat
  BY AppendProperties, LenProperties
<1> QED BY <1>1, HubAssumption

LEMMA HubInit == Init => HubInv
<1> SUFFICES ASSUME Init PROVE HubInv
  OBVIOUS
<1>1. Unborn \in Connections /\ Unborn.send = << >> /\ Unborn.open /\ Unborn.pc = "none"
  BY DEF Unborn, Connections
<1>2. \A c \in Client : conn[c] = Unborn
  BY DEF Init
<1>3. HubTyped
  <2>1. conn \in [Client -> Connections]
    BY <1>1 DEF Init
  <2>2. \A c \in Client : Len(conn[c].send) <= SendCap
    BY <1>1, <1>2, HubAssumption
  <2> QED BY <2>1, <2>2 DEF Init, HubTyped
<1>4. Table
  BY <1>1, <1>2, HubAssumption DEF Init, Table
<1>5. Told
  BY <1>1, <1>2 DEF Init, Told
<1> QED BY <1>3, <1>4, <1>5 DEF HubInv

\* The steps of a connection's handler, its writer and its browser.
LEMMA ConnStep ==
  ASSUME HubInv, FeedInv, StoreTyped, OnlyPushed, NEW c \in Client,
         Upgrade(c) \/ Handler(c) \/ Writer(c) \/ BrowserLeaves(c)
  PROVE  HubInv'
<1> DEFINE r == conn[c]
<1>0. /\ r \in Connections /\ Len(r.send) <= SendCap
      /\ Joined(c) => ToldAll(r, aired)
      /\ r.send \in Seq(Events) /\ r.todo \in Seq(Events) /\ r.due \in SUBSET Events
      /\ r.pc \in Early => ~Joined(c)
  BY DEF HubInv, HubTyped, Told, ToldAll, Joined, Table, Early, Connections
\* A step of the writer or the browser, which leaves the handler alone.
<1>1. ASSUME NEW w \in {"none", "take", "write", "leave", "unregister", "close", "gone"},
             NEW u \in BOOLEAN, NEW b \in BOOLEAN, NEW q \in Seq(Events), Len(q) <= SendCap,
             Steps(c, [r EXCEPT !.writer = w, !.up = u, !.browser = b, !.send = q])
      PROVE  HubInv'
  <2> DEFINE x == [r EXCEPT !.writer = w, !.up = u, !.browser = b, !.send = q]
  <2>1. /\ x \in Connections /\ x.send = q /\ x.open = r.open /\ x.pc = r.pc
        /\ x.due = r.due /\ x.todo = r.todo
    BY <1>0 DEF Connections
  <2> HIDE DEF x
  <2>2. Joined(c) => ToldAll(x, aired)
    BY <1>0, <2>1 DEF ToldAll
  <2> QED BY <1>1, <2>1, <2>2, OneConn DEF x
\* A step of the handler that sends nothing.
<1>2. ASSUME NEW pc \in {"check", "register", "read", "gone", "panicked"}, NEW u \in BOOLEAN,
             NEW t \in Seq(Events),
             pc \in Early => r.pc \in Early,
             pc = "read" => r.pc = "history" /\ r.todo = << >>,
             Steps(c, [r EXCEPT !.pc = pc, !.up = u, !.todo = t])
      PROVE  HubInv'
  <2> DEFINE x == [r EXCEPT !.pc = pc, !.up = u, !.todo = t]
  <2>1. /\ x \in Connections /\ x.send = r.send /\ x.open = r.open /\ x.pc = pc
        /\ x.due = r.due
    BY <1>0 DEF Connections
  <2> HIDE DEF x
  <2>2. Joined(c) => ToldAll(x, aired)
    <3>1. CASE pc = "read"
      <4>1. Elements(r.todo) = {}
        BY <1>2, <3>1 DEF Elements
      <4> QED BY <1>0, <1>2, <2>1, <3>1, <4>1 DEF ToldAll
    <3>2. CASE pc # "read"
      BY <1>2, <2>1, <3>2 DEF ToldAll
    <3> QED BY <3>1, <3>2
  <2> QED BY <1>0, <1>2, <2>1, <2>2, OneConn DEF x
<1>3. CASE Upgrade(c)
  <2>1. r.pc = "none" /\ Steps(c, [r EXCEPT !.pc = "check", !.up = TRUE, !.todo = r.todo])
    BY <1>0, <1>3 DEF Upgrade, Connections
  <2> QED BY <1>0, <1>2, <2>1 DEF Early
<1>4. CASE CheckClosed(c)
  <2>1. /\ r.pc = "check"
        /\ \/ Steps(c, [r EXCEPT !.pc = "gone", !.up = FALSE, !.todo = r.todo])
           \/ Steps(c, [r EXCEPT !.pc = "register", !.up = r.up, !.todo = r.todo])
    BY <1>0, <1>4 DEF CheckClosed, Connections
  <2>2. r.up \in BOOLEAN
    BY <1>0 DEF Connections
  <2> QED BY <1>0, <1>2, <2>1, <2>2 DEF Early
<1>5. CASE Snapshot(c)
  <2> DEFINE x == [r EXCEPT !.pc = "history", !.todo = Reverse(ring),
                            !.due = r.due \cup (Pushed \ Elements(ring))]
  <2>1. /\ Reverse(ring) \in Seq(Events) /\ Elements(Reverse(ring)) = Elements(ring)
        /\ Pushed \subseteq Events
    BY ReverseElements, HubAssumption DEF StoreTyped, Pushed, Events, FeedInv, FeedTyped
  <2>2. Steps(c, x)
    BY <1>5 DEF Snapshot
  <2>4. /\ x \in Connections /\ x.send = r.send /\ x.open = r.open /\ x.pc = "history"
        /\ x.due = r.due \cup (Pushed \ Elements(ring)) /\ x.todo = Reverse(ring)
    BY <1>0, <2>1 DEF Connections
  <2> HIDE DEF x
  <2>5. ToldAll(x, aired)
    BY <2>1, <2>4 DEF ToldAll, OnlyPushed
  <2> QED BY <1>0, <2>2, <2>4, <2>5, OneConn DEF Early
<1>6. CASE SendHistory(c)
  <2> DEFINE m == Head(r.todo)
             q == IF Len(r.send) < SendCap THEN Append(r.send, m) ELSE r.send
             x == [r EXCEPT !.todo = Tail(r.todo), !.send = q, !.due = r.due \cup {m}]
  <2>1. /\ r.pc = "history" /\ r.todo # << >>
        /\ \/ Steps(c, [r EXCEPT !.pc = "panicked", !.todo = << >>])
           \/ Steps(c, x)
    BY <1>6 DEF SendHistory
  <2>2. CASE Steps(c, [r EXCEPT !.pc = "panicked", !.todo = << >>])
    <3>1. Steps(c, [r EXCEPT !.pc = "panicked", !.up = r.up, !.todo = << >>]) /\ r.up \in BOOLEAN
      BY <1>0, <2>2 DEF Connections
    <3>2. << >> \in Seq(Events)
      OBVIOUS
    <3> QED BY <1>2, <3>1, <3>2 DEF Early
  <2>3. CASE Steps(c, x)
    <3>1. /\ m \in Events /\ Tail(r.todo) \in Seq(Events)
          /\ Elements(r.todo) = {m} \cup Elements(Tail(r.todo))
      BY <1>0, <2>1, HeadAndTail
    <3>2. q \in Seq(Events) /\ Len(q) <= SendCap
      BY <1>0, <3>1, SendTyped
    <3> HIDE DEF m, q
    <3>3. /\ x \in Connections /\ x.send = q /\ x.open = r.open /\ x.pc = r.pc
          /\ x.due = r.due \cup {m} /\ x.todo = Tail(r.todo)
      BY <1>0, <3>1, <3>2 DEF Connections
    <3> HIDE DEF x
    <3>4. Joined(c) => ToldAll(x, aired)
      BY <1>0, <2>1, <3>1, <3>3 DEF ToldAll
    <3> QED BY <2>3, <3>2, <3>3, <3>4, OneConn
  <2> QED BY <2>1, <2>2, <2>3
<1>7. CASE EndHistory(c)
  <2>1. /\ r.pc = "history" /\ r.todo = << >> /\ r.up \in BOOLEAN
        /\ Steps(c, [r EXCEPT !.pc = "read", !.up = r.up, !.todo = r.todo])
    BY <1>0, <1>7 DEF EndHistory, Connections
  <2> QED BY <1>0, <1>2, <2>1 DEF Early
<1>8. CASE ReadFails(c)
  <2>1. /\ r.up \in BOOLEAN
        /\ Steps(c, [r EXCEPT !.pc = "gone", !.up = r.up, !.todo = r.todo])
    BY <1>0, <1>8 DEF ReadFails, Connections
  <2> QED BY <1>0, <1>2, <2>1 DEF Early
<1>9. CASE Writer(c) \/ BrowserLeaves(c)
  <2>1. /\ r.up \in BOOLEAN /\ r.browser \in BOOLEAN
        /\ r.writer \in {"none", "take", "write", "leave", "unregister", "close", "gone"}
        /\ << >> \in Seq(Events) /\ Len(<< >>) <= SendCap
    BY <1>0, HubAssumption DEF Connections
  <2>2. CASE WriterTake(c) /\ r.send # << >>
    <3>1. Tail(r.send) \in Seq(Events) /\ Len(Tail(r.send)) <= SendCap
      BY <1>0, <2>2, HeadAndTail, LenProperties, HubAssumption
    <3>2. Steps(c, [r EXCEPT !.writer = "write", !.up = r.up, !.browser = r.browser, !.send = Tail(r.send)])
      BY <1>0, <2>2 DEF WriterTake, Connections
    <3> QED BY <1>1, <2>1, <3>1, <3>2
  <2>3. CASE \/ WriterTake(c) /\ r.send = << >>
             \/ WriterWrite(c) \/ WriterLeave(c) \/ WriterGivesUp(c)
    <3>1. \E w \in {"take", "leave", "close", "unregister"} : Steps(c, [r EXCEPT !.writer = w])
      BY <2>3 DEF WriterTake, WriterWrite, WriterLeave, WriterGivesUp
    <3>2. PICK w \in {"take", "leave", "close", "unregister"} :
            Steps(c, [r EXCEPT !.writer = w, !.up = r.up, !.browser = r.browser, !.send = r.send])
      BY <1>0, <3>1 DEF Connections
    <3> QED BY <1>0, <1>1, <2>1, <3>2
  <2>4. CASE WriterClose(c)
    <3>1. Steps(c, [r EXCEPT !.writer = "gone", !.up = FALSE, !.browser = r.browser, !.send = << >>])
      BY <1>0, <2>4 DEF WriterClose, Connections
    <3> QED BY <1>1, <2>1, <3>1
  <2>5. CASE BrowserLeaves(c)
    <3>1. Steps(c, [r EXCEPT !.writer = r.writer, !.up = r.up, !.browser = FALSE, !.send = r.send])
      BY <1>0, <2>5 DEF BrowserLeaves, Connections
    <3> QED BY <1>0, <1>1, <2>1, <3>1
  <2> QED BY <1>9, <2>2, <2>3, <2>4, <2>5 DEF Writer
<1> QED
  BY <1>3, <1>4, <1>5, <1>6, <1>7, <1>8, <1>9 DEF Handler

\* Closing channels, whichever the hub closes: no client that is in the table, or on
\* its way to it, is among them.
LEMMA ClosesChannels ==
  ASSUME HubInv, clients' \subseteq clients, UNCHANGED aired, run'.adding = run.adding,
         run'.pc = "add" <=> run.pc = "add",
         run' \in [pc : {"select", "add", "closing", "gone"}, adding : Client \cup {NoClient}],
         closed' \in BOOLEAN, main' \in {"running", "cancelled", "closing", "closed"},
         conn' \in [Client -> Connections],
         \A c \in Client :
           /\ conn'[c].pc = conn[c].pc /\ conn'[c].send = conn[c].send
           /\ conn'[c].todo = conn[c].todo /\ conn'[c].due = conn[c].due
           /\ conn[c].open /\ (c \in clients' \/ c \notin clients) => conn'[c].open
  PROVE  HubInv'
<1>1. HubTyped'
  BY DEF HubInv, HubTyped
<1>2. Table'
  BY DEF HubInv, Table
<1>3. Told'
  BY DEF HubInv, Told
<1> QED BY <1>1, <1>2, <1>3 DEF HubInv

\* The steps of the run loop and of main.
LEMMA HubStep ==
  ASSUME HubInv, FeedInv, StoreTyped, OnlyPushed, [Next]_vars
  PROVE  HubInv'
<1>0. /\ HubTyped /\ Table /\ Told
      /\ conn \in [Client -> Connections] /\ clients \subseteq Client /\ closed \in BOOLEAN
      /\ run \in [pc : {"select", "add", "closing", "gone"}, adding : Client \cup {NoClient}]
      /\ main \in {"running", "cancelled", "closing", "closed"}
  BY DEF HubInv, HubTyped
<1>1. ASSUME NEW c \in Client, RunRegister(c) PROVE HubInv'
  <2> DEFINE x == [conn[c] EXCEPT !.pc = "snapshot", !.writer = "take"]
  <2>1. /\ run.pc = "select" /\ conn[c].pc = "register"
        /\ run' = IF closed THEN run ELSE [pc |-> "add", adding |-> c]
        /\ conn' = [conn EXCEPT ![c] = x]
        /\ UNCHANGED <<clients, closed, main, aired>>
    BY <1>0, <1>1 DEF RunRegister
  <2>2. /\ x \in Connections /\ x.pc = "snapshot" /\ x.send = conn[c].send
        /\ x.open = conn[c].open
    BY <1>0, ZenonT(30) DEF Connections
  <2> HIDE DEF x
  <2>3. /\ conn' \in [Client -> Connections]
        /\ conn'[c] = x /\ \A d \in Client \ {c} : conn'[d] = conn[d]
    BY <1>0, <2>1, <2>2
  <2>4. /\ run' \in [pc : {"select", "add", "closing", "gone"}, adding : Client \cup {NoClient}]
        /\ c \notin clients /\ conn[c].open /\ run.adding = NoClient /\ c # NoClient
        /\ run'.pc = "add" <=> run'.adding # NoClient
        /\ run'.adding \in {c, NoClient}
    <3>1. c \notin clients /\ conn[c].open /\ run.adding = NoClient /\ c # NoClient
      BY <1>0, <2>1, HubAssumption DEF Table
    <3> QED BY <1>0, <2>1, <3>1
  <2>5. HubTyped'
    BY <1>0, <2>1, <2>2, <2>3, <2>4 DEF HubTyped
  <2>6. Table'
    <3> SUFFICES ASSUME NEW d \in Client
                 PROVE  /\ d = run'.adding => d \notin clients /\ conn'[d].open
                        /\ d \in clients => conn'[d].open
                        /\ conn'[d].pc \in {"none", "check", "register"} =>
                             d \notin clients /\ d # run'.adding /\ conn'[d].open
      BY <2>1, <2>4 DEF Table
    <3>1. CASE d = c
      BY <2>2, <2>3, <2>4, <3>1
    <3>2. CASE d # c
      BY <1>0, <2>3, <2>4, <3>2, HubAssumption DEF Table
    <3> QED BY <3>1, <3>2
  <2>7. Told'
    BY <1>0, <2>1, <2>2, <2>3, <2>4, HubAssumption DEF Told
  <2> QED BY <2>5, <2>6, <2>7 DEF HubInv
<1>2. ASSUME RunAdd PROVE HubInv'
  <2>1. /\ run.pc = "add" /\ clients' = clients \cup {run.adding}
        /\ run' = [pc |-> "select", adding |-> NoClient]
        /\ UNCHANGED <<closed, main, conn, aired>>
    BY <1>2 DEF RunAdd
  <2>2. run.adding \in Client
    BY <1>0, <2>1 DEF Table
  <2>3. HubTyped'
    BY <1>0, <2>1, <2>2 DEF HubTyped
  <2>4. Table'
    BY <1>0, <2>1, <2>2, HubAssumption DEF Table
  <2>5. Told'
    BY <1>0, <2>1, <2>2, HubAssumption DEF Told
  <2> QED BY <2>3, <2>4, <2>5 DEF HubInv
<1>3. ASSUME NEW c \in Client, RunUnregister(c) PROVE HubInv'
  <2> DEFINE x == [conn[c] EXCEPT !.writer = "close", !.open = conn[c].open /\ c \notin clients]
  <2>1. /\ clients' = clients \ {c}
        /\ conn' = [conn EXCEPT ![c] = x]
        /\ UNCHANGED <<closed, run, main, aired>>
    BY <1>0, <1>3 DEF RunUnregister
  <2>2. /\ x \in Connections /\ x.pc = conn[c].pc /\ x.send = conn[c].send
        /\ x.todo = conn[c].todo /\ x.due = conn[c].due
        /\ x.open <=> conn[c].open /\ c \notin clients
    BY <1>0 DEF Connections
  <2> HIDE DEF x
  <2>3. /\ conn' \in [Client -> Connections]
        /\ conn'[c] = x /\ \A d \in Client \ {c} : conn'[d] = conn[d]
    BY <1>0, <2>1, <2>2
  <2> QED BY <1>0, <2>1, <2>2, <2>3, ClosesChannels
<1>4. ASSUME RunBroadcast PROVE HubInv'
  <2> DEFINE m == Head(broadcast)
             x(c) == [conn[c] EXCEPT
                        !.send = IF Len(conn[c].send) < SendCap THEN Append(conn[c].send, m)
                                                               ELSE conn[c].send,
                        !.due = conn[c].due \cup {m}]
  <2>1. m \in Events
    BY <1>4, HeadAndTail DEF RunBroadcast, StoreTyped
  <2>2. /\ run.pc = "select" /\ UNCHANGED <<clients, closed, run, main>>
        /\ \/ UNCHANGED <<conn, aired>>
           \/ /\ conn' = [c \in Client |-> IF c \notin clients THEN conn[c] ELSE x(c)]
              /\ aired' = aired \cup {m}
    BY <1>4 DEF RunBroadcast, hubVars
  <2>3. ASSUME NEW c \in Client
        PROVE  /\ x(c) \in Connections /\ Len(x(c).send) <= SendCap
               /\ x(c).pc = conn[c].pc /\ x(c).open = conn[c].open /\ x(c).todo = conn[c].todo
               /\ x(c).due = conn[c].due \cup {m}
    <3> DEFINE q == IF Len(conn[c].send) < SendCap THEN Append(conn[c].send, m) ELSE conn[c].send
    <3>1. conn[c].send \in Seq(Events) /\ Len(conn[c].send) <= SendCap /\ conn[c] \in Connections
      BY <1>0 DEF HubTyped, Connections
    <3>2. q \in Seq(Events) /\ Len(q) <= SendCap
      BY <2>1, <3>1, SendTyped
    <3> HIDE DEF q
    <3>3. x(c) = [conn[c] EXCEPT !.send = q, !.due = conn[c].due \cup {m}]
      BY DEF q
    <3> DEFINE y == conn[c]
               d == conn[c].due \cup {m}
    <3>4. y \in Connections /\ d \in SUBSET Events /\ x(c) = [y EXCEPT !.send = q, !.due = d]
      BY <2>1, <3>1, <3>3 DEF Connections
    <3> HIDE DEF m, x, y, d
    <3>5. /\ x(c) \in Connections /\ x(c).send = q /\ x(c).due = d
          /\ x(c).pc = y.pc /\ x(c).todo = y.todo
      BY <3>2, <3>4 DEF Connections
    <3>6. x(c).open = y.open
      BY <3>4, Zenon DEF Connections
    <3> QED BY <3>2, <3>5, <3>6 DEF y, d
  <2> HIDE DEF x, m
  <2>4. CASE UNCHANGED <<conn, aired>>
    BY <1>0, <2>2, <2>4 DEF HubInv, HubTyped, Table, Told
  <2>5. CASE /\ conn' = [c \in Client |-> IF c \notin clients THEN conn[c] ELSE x(c)]
             /\ aired' = aired \cup {m}
    <3>1. \A c \in Client : conn'[c] = IF c \notin clients THEN conn[c] ELSE x(c)
      BY <2>5
    <3>2. conn' \in [Client -> Connections]
      BY <1>0, <2>3, <2>5
    <3>3. HubTyped'
      BY <1>0, <2>2, <2>3, <3>1, <3>2 DEF HubTyped
    <3>4. Table'
      BY <1>0, <2>2, <2>3, <3>1 DEF Table
    <3>5. run.adding = NoClient
      BY <1>0, <2>2 DEF Table
    <3>6. ASSUME NEW c \in Client, c \in clients
          PROVE  /\ conn'[c].pc = "history" => aired' \subseteq conn'[c].due \cup Elements(conn'[c].todo)
                 /\ conn'[c].pc = "read" => aired' \subseteq conn'[c].due
      BY <1>0, <2>3, <2>5, <3>1, <3>6 DEF Told
    <3>7. Told'
      BY <2>2, <3>5, <3>6, HubAssumption DEF Told
    <3> QED BY <3>3, <3>4, <3>7 DEF HubInv
  <2> QED BY <2>2, <2>4, <2>5
\* The channels stay as they are, or those of the table are closed as it is emptied.
<1>5. ASSUME (clients' = clients /\ UNCHANGED conn) \/ CloseClients,
             UNCHANGED aired, run'.adding = run.adding, run'.pc = "add" <=> run.pc = "add",
             run' \in [pc : {"select", "add", "closing", "gone"}, adding : Client \cup {NoClient}],
             closed' \in BOOLEAN, main' \in {"running", "cancelled", "closing", "closed"}
      PROVE  HubInv'
  <2>1. CASE clients' = clients /\ UNCHANGED conn
    BY <1>0, <1>5, <2>1, ClosesChannels
  <2>2. CASE CloseClients
    <3> DEFINE x(c) == [conn[c] EXCEPT !.open = conn[c].open /\ c \notin clients]
    <3>1. clients' = {} /\ conn' = [c \in Client |-> x(c)]
      BY <2>2 DEF CloseClients, NoClients
    <3>2. ASSUME NEW c \in Client
          PROVE  /\ x(c) \in Connections /\ x(c).pc = conn[c].pc /\ x(c).send = conn[c].send
                 /\ x(c).todo = conn[c].todo /\ x(c).due = conn[c].due
                 /\ x(c).open <=> conn[c].open /\ c \notin clients
      BY <1>0, ZenonT(30) DEF Connections
    <3> HIDE DEF x
    <3>3. conn' \in [Client -> Connections] /\ \A c \in Client : conn'[c] = x(c)
      BY <3>1, <3>2
    <3> QED BY <1>5, <3>1, <3>2, <3>3, ClosesChannels
  <2> QED BY <1>5, <2>1, <2>2
<1>6. ASSUME RunStop PROVE HubInv'
  <2>1. /\ run.pc = "select" /\ UNCHANGED <<clients, conn, aired, main>> /\ closed' = TRUE
        /\ \E pc \in {"gone", "closing"} : run' = [run EXCEPT !.pc = pc]
    BY <1>6 DEF RunStop
  <2>2. /\ run'.adding = run.adding /\ run'.pc # "add"
        /\ run' \in [pc : {"select", "add", "closing", "gone"}, adding : Client \cup {NoClient}]
    BY <1>0, <2>1
  <2> QED BY <1>0, <1>5, <2>1, <2>2
<1>7. ASSUME RunClose PROVE HubInv'
  <2>1. /\ run.pc = "closing" /\ CloseClients /\ UNCHANGED main /\ run' = [run EXCEPT !.pc = "gone"]
        /\ UNCHANGED <<aired, closed>>
    BY <1>7 DEF RunClose, CloseClients
  <2>2. /\ run'.adding = run.adding /\ run'.pc # "add"
        /\ run' \in [pc : {"select", "add", "closing", "gone"}, adding : Client \cup {NoClient}]
    BY <1>0, <2>1
  <2> QED BY <1>0, <1>5, <2>1, <2>2
<1>8. ASSUME Cancel \/ Shutdown \/ ShutdownClose PROVE HubInv'
  <2>1. /\ UNCHANGED <<aired, run>> /\ ((clients' = clients /\ UNCHANGED conn) \/ CloseClients)
        /\ closed' \in BOOLEAN /\ main' \in {"running", "cancelled", "closing", "closed"}
    BY <1>0, <1>8 DEF Cancel, Shutdown, ShutdownClose, CloseClients
  <2> QED BY <1>0, <1>5, <1>8, <2>1 DEF Cancel, Shutdown, ShutdownClose, CloseClients
<1>9. ASSUME UNCHANGED <<clients, closed, run, main, conn, aired>> PROVE HubInv'
  BY <1>0, <1>9 DEF HubInv, HubTyped, Table, Told
<1>10. ASSUME NEW e \in Emitter, BeginEvent(e) \/ Emit(e)
       PROVE  UNCHANGED <<clients, closed, run, main, conn, aired>>
  BY <1>10 DEF BeginEvent, Emit, Push, CountEvent, Offer, Drop, hubVars
<1>11. Worker \/ UNCHANGED vars => UNCHANGED <<clients, closed, run, main, conn, aired>>
  BY DEF Worker, WorkerTake, WorkerBroadcast, WorkerStop, vars, hubVars
<1> QED
  BY <1>1, <1>2, <1>3, <1>4, <1>6, <1>7, <1>8, <1>9, <1>10, <1>11, ConnStep DEF Next, Run

-------------------------------------------------------------------------------
(* Every step. *)

LEMMA InvInit == Init => Inv
<1> SUFFICES ASSUME Init PROVE Inv
  OBVIOUS
<1>1. StoreTyped
  BY HubAssumption DEF Init, StoreTyped
<1>2. OnlyPushed
  BY DEF Init, OnlyPushed
<1> QED BY <1>1, <1>2, FeedInit, HubInit DEF Inv

LEMMA InvStep == Inv /\ [Next]_vars => Inv'
BY FeedStep, StoreStep, HubStep DEF Inv

LEMMA InvAlways == Spec => []Inv
BY InvInit, InvStep, PTL DEF Spec

LEMMA ElementsIn ==
  ASSUME NEW S, NEW s \in Seq(S)
  PROVE  Elements(s) \subseteq S
BY DEF Elements

\* The counters, the channels, the table and the connections hold what they should,
\* and no counter exceeds the number of events.
THEOREM TypeCorrect == Spec => []TypeOK
<1>1. ASSUME Inv PROVE TypeOK
  <2>1. /\ FeedTyped /\ EventsAddUp /\ StatsAddUp /\ StoreTyped /\ HubTyped
        /\ OnlyPushed /\ OwnEvents
    BY <1>1 DEF Inv, FeedInv, HubInv
  <2>2. /\ Elements(ring) \subseteq Events /\ Elements(eventChan) \subseteq Events
        /\ Elements(broadcast) \subseteq Events
    BY <2>1, ElementsIn DEF FeedTyped, StoreTyped
  <2>3. {total, dropped, events, taken} \subseteq 0 .. MaxEvents
    <3>1. /\ Number(emitter, "push") \in Nat /\ Number(emitter, "count") \in Nat
          /\ Number(emitter, "offer") \in Nat /\ Len(eventChan) \in Nat
          /\ total \in Nat /\ dropped \in Nat /\ taken \in Nat /\ events \in 0 .. MaxEvents
          /\ MaxEvents \in Nat
      <4>1. /\ Number(emitter, "push") \in Nat /\ Number(emitter, "count") \in Nat
            /\ Number(emitter, "offer") \in Nat
        BY NumberIsNat
      <4>2. Len(eventChan) \in Nat /\ MaxEvents \in Nat
        BY <2>1, HubAssumption, LenProperties DEF FeedTyped
      <4> QED BY <2>1, <4>1, <4>2 DEF FeedTyped
    <3>2. /\ events = total + Number(emitter, "push") + Number(emitter, "count")
          /\ total = dropped + taken + Len(eventChan) + Number(emitter, "offer")
      BY <2>1 DEF EventsAddUp, StatsAddUp, Number
    <3>3. total <= events /\ dropped <= total /\ taken <= total
      BY <3>1, <3>2
    <3> QED BY <3>1, <3>3
  <2>4. emitter \in [Emitter -> [pc : DOMAIN EmitSteps, ev : 0 .. MaxEvents]]
    BY <2>1, StepsOfEmit DEF FeedTyped, EmitterStates
  <2>5. ASSUME NEW c \in Client
        PROVE  /\ conn[c].pc \in {"none", "check", "register", "snapshot", "history", "read", "gone",
                                  "panicked"}
               /\ conn[c].writer \in {"none", "take", "write", "leave", "unregister", "close", "gone"}
               /\ {conn[c].up, conn[c].browser, conn[c].open} \subseteq BOOLEAN
               /\ Len(conn[c].send) <= SendCap
               /\ conn[c].due \subseteq 1 .. MaxEvents
    BY <2>1 DEF HubTyped, Connections, Events
  <2> QED BY <2>1, <2>2, <2>3, <2>4, <2>5 DEF TypeOK, FeedTyped, StoreTyped, HubTyped, Events
<1> QED BY <1>1, InvAlways, PTL

\* Every event counted is dropped, queued, taken, or still in the hands of the request
\* that counted it, however many requests emit at once and under either policy.
THEOREM CountersAddUp == Spec => []StatsAddUp
<1>1. Inv => StatsAddUp
  BY DEF Inv, FeedInv
<1> QED BY <1>1, InvAlways, PTL

\* A client in the hub's table has an open channel, although Close may run beside the
\* run loop: it neither sends on a closed channel nor closes one twice.
THEOREM TableIsOpen == Spec => []RegisteredIsOpen
<1>1. Inv => RegisteredIsOpen
  BY DEF Inv, HubInv, HubTyped, Table, RegisteredIsOpen
<1> QED BY <1>1, InvAlways, PTL

\* Once its history is sent, a registered client was offered, or cannot expect, every
\* event that was broadcast, at whatever point of an event's way it connected.
THEOREM NothingIsMissedSilently == Spec => []NoSilentGap
<1>1. Inv => NoSilentGap
  BY DEF Inv, HubInv, HubTyped, Told, NoSilentGap
<1> QED BY <1>1, InvAlways, PTL
===============================================================================

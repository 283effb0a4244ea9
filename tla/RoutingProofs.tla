---------------------------- MODULE RoutingProofs ----------------------------
(***************************************************************************)
(* Proofs about what routing rests on: the watcher that mounts and unmounts *)
(* routes (DockerWatcher) and the trie that holds them (Router).            *)
(*                                                                          *)
(* DockerWatcher: for any containers, prefixes, ports and mode, whatever    *)
(* the daemon does and in every order of its goroutines, the state has its  *)
(* type, the watcher's table and the router's agree, and an entry of        *)
(* logStreams names a live goroutine.  The tables are kept under different  *)
(* locks, so that their agreement depends on the route the watcher has in   *)
(* hand between the two: one being added is registered already, one being   *)
(* removed is not any more.  That the two cannot drift apart when prefixes  *)
(* are not shared needs more: each route the watcher knows, or is about to  *)
(* mount, was asked for by its own container's description, so that no      *)
(* other container's update names its prefix.                               *)
(*                                                                          *)
(* Router: for any segments, prefixes, paths, targets and readers, the trie *)
(* and its lookups without a lock are a table (RouteTable).  TrieInv says   *)
(* what that takes: a child is made for one segment more than its parent,   *)
(* so that whatever is below a node is found by the fragments of prefixes;  *)
(* the writer's path is a copy of the root's, of nodes no lookup can reach; *)
(* and a lookup under way sees below its node what the table had there when *)
(* it loaded the root.  What walks do is proved by induction over sequences *)
(* (SequencesAreBuilt, from a least element of a set of lengths).           *)
(***************************************************************************)
EXTENDS DockerWatcher, Router, FiniteSetTheorems, SequenceTheorems, TLAPS

-------------------------------------------------------------------------------
(* DockerWatcher. *)

Routes == [prefix : Prefix, target : Targets]

WatcherStates ==
  [pc : {"list", "work", "add", "stream", "remove", "connect", "scan", "gone"},
   ret : {"connect", "scan"}, todo : SUBSET Routes, dead : SUBSET Container,
   route : {NoRoute} \cup Routes, streaming : BOOLEAN]

DaemonTyped ==
  /\ cancelled \in BOOLEAN /\ open \in BOOLEAN
  /\ running \subseteq Container
  /\ info \in [Container -> UNION {InfosOf[c] : c \in Container}]
  /\ \A c \in Container : info[c] \in InfosOf[c]
  /\ events \in Seq([action : {"start", "end"}, id : Container])
  /\ Len(events) <= MaxEvents

TablesTyped ==
  /\ w \in WatcherStates
  /\ routes \in [Container -> {NoRoute} \cup Routes]
  /\ table \in [Prefix -> Targets \cup {NoTarget} \cup {StaticTable[p] : p \in DOMAIN StaticTable}]

LogsTyped ==
  /\ streams = [c \in Container |-> streams[c]]
  /\ \A c \in Container : streams[c] \in [Gens(c) -> {"free", "live", "cancelled"}]
  /\ logs = [c \in Container |-> logs[c]]
  /\ \A c \in Container : logs[c] \in 0 .. MaxStreams[c]

-------------------------------------------------------------------------------
\* Route r is one that some description of container c asks for.
AskedFor(c, r) == r \in Routes /\ \E i \in InfosOf[c] : r = RouteOf(c, i)

\* Every route in use is of its own container.
OwnRoutes ==
  /\ \A c \in Container : routes[c] # NoRoute => AskedFor(c, routes[c])
  /\ \A r \in w.todo : AskedFor(r.target[1], r)

\* What the watcher has in hand between the two tables.
InHand ==
  /\ w.pc = "add" => w.route \in Routes /\ routes[w.route.target[1]] = w.route
  /\ w.pc = "stream" => w.route \in Routes
  /\ w.pc = "remove" => AskedFor(w.route.target[1], w.route)
                          /\ routes[w.route.target[1]] = NoRoute

\* A registered container is mounted, or just about to be.
MountedOrAdded ==
  PrefixesDisjoint =>
    \A c \in Container :
      routes[c] # NoRoute => \/ table[routes[c].prefix] = routes[c].target
                             \/ w.pc = "add" /\ w.route = routes[c]

RouterInv == TablesTyped /\ OwnRoutes /\ InHand /\ NoOrphanRoute /\ MountedOrAdded

LogInv == LogsTyped /\ LogEntryIsLive

Inv == DaemonTyped /\ RouterInv /\ LogInv

-------------------------------------------------------------------------------
(* Routes. *)

LEMMA RoutesAreRoutes ==
  /\ NoRoute \notin Routes
  /\ \A r \in Routes : r.prefix \in Prefix /\ r.target \in Targets /\ r.target[1] \in Container
                         /\ r.target \in Container \X Port
  /\ \A p \in Prefix, t \in Targets : [prefix |-> p, target |-> t] \in Routes
BY WatcherAssumption DEF Routes, NoRoute, Targets

\* A description's route is one of its own container, if it has a prefix.
LEMMA RouteOfIs ==
  ASSUME NEW c \in Container, NEW i \in InfosOf[c], RouteOf(c, i).prefix # NoPrefix
  PROVE  /\ AskedFor(c, RouteOf(c, i)) /\ RouteOf(c, i).target[1] = c
         /\ RouteOf(c, i) \in Routes
<1>1. i \in [route : Prefix \cup {NoPrefix}, enable : BOOLEAN, name : Prefix \cup {NoPrefix}, port : Port]
  BY WatcherAssumption
<1>2. RoutePrefix(i) \in Prefix /\ i.port \in Port
  BY <1>1 DEF RouteOf, RoutePrefix
<1> QED BY <1>2 DEF AskedFor, RouteOf, Routes, Targets

\* Containers that never ask for the same prefix have different ones.
LEMMA OtherPrefix ==
  ASSUME PrefixesDisjoint, NEW c \in Container, NEW d \in Container, c # d,
         NEW r, NEW s, AskedFor(c, r), AskedFor(d, s)
  PROVE  r.prefix # s.prefix
<1>1. PICK i \in InfosOf[c], j \in InfosOf[d] : r = RouteOf(c, i) /\ s = RouteOf(d, j)
  BY DEF AskedFor
<1>2. r.prefix = RoutePrefix(i) /\ s.prefix = RoutePrefix(j) /\ r.prefix \in Prefix
  BY <1>1 DEF RouteOf, AskedFor, Routes
<1> QED BY <1>2, WatcherAssumption DEF PrefixesDisjoint

LEMMA AtIs ==
  ASSUME NEW pc \in {"list", "work", "connect", "scan", "gone"}, NEW ret \in {"connect", "scan"}
  PROVE  At(pc, ret) \in WatcherStates /\ At(pc, ret).pc = pc /\ At(pc, ret).todo = {}
BY DEF At, WatcherStates

\* Where the watcher goes on: it mounts what it should, and has no route in hand.
LEMMA WorkingIs ==
  ASSUME NEW todo \in SUBSET Routes, NEW dead \in SUBSET Container, NEW ret \in {"connect", "scan"},
         NEW x, x = Working(todo, dead, ret)
  PROVE  x \in WatcherStates /\ x.pc \in {"work", "connect", "scan"} /\ x.todo = todo
<1>1. CASE todo \cup dead = {}
  BY <1>1, AtIs DEF Working
<1>2. CASE todo \cup dead # {}
  BY <1>2, AtIs, ZenonT(30) DEF Working, At, WatcherStates
<1> QED BY <1>1, <1>2

-------------------------------------------------------------------------------
(* The daemon and the log goroutines. *)

tableVars == <<w, routes, table>>

\* Who leaves what alone.
LEMMA Frames ==
  ASSUME [Next]_vars
  PROVE  /\ Watcher \/ UNCHANGED tableVars
         /\ \/ UNCHANGED logVars \/ StartLogStream \/ UnregisterContainer \/ Stop
            \/ \E c \in Container : \E g \in Gens(c) : LogStreamReturns(c, g)
<1>1. ASSUME Watcher PROVE UNCHANGED logVars \/ StartLogStream \/ UnregisterContainer
  BY <1>1 DEF Watcher, List, ListFails, RegisterContainer, AddRoute, RemoveRoute, Connect, LoopEnds,
    ScanEvent
<1>2. ASSUME NEW c \in Container,
             ContainerStarts(c) \/ ContainerDies(c) \/ ContainerSignalled(c) \/ ContainerRenamed(c)
      PROVE  UNCHANGED logVars /\ UNCHANGED tableVars
  BY <1>2 DEF ContainerStarts, ContainerDies, ContainerSignalled, ContainerRenamed, tableVars
<1>3. ASSUME StreamBreaks \/ Cancel \/ UNCHANGED vars
      PROVE  UNCHANGED logVars /\ UNCHANGED tableVars
  BY <1>3 DEF StreamBreaks, Cancel, vars, tableVars, logVars
<1>4. ASSUME Stop \/ \E c \in Container : \E g \in Gens(c) : LogStreamReturns(c, g)
      PROVE  UNCHANGED tableVars
  BY <1>4 DEF Stop, LogStreamReturns, tableVars
<1> QED BY <1>1, <1>2, <1>3, <1>4 DEF Next

LEMMA DaemonInit == Init => DaemonTyped
<1> SUFFICES ASSUME Init PROVE DaemonTyped
  OBVIOUS
<1>1. << >> \in Seq([action : {"start", "end"}, id : Container]) /\ Len(<< >>) = 0 /\ 0 <= MaxEvents
  BY WatcherAssumption
<1>2. /\ running \subseteq Container /\ info \in [Container -> UNION {InfosOf[c] : c \in Container}]
      /\ \A c \in Container : info[c] \in InfosOf[c]
  BY DEF Init
<1> QED BY <1>1, <1>2 DEF Init, DaemonTyped

LEMMA EmitTyped ==
  ASSUME DaemonTyped, NEW action \in {"start", "end"}, NEW c \in Container, Emit(action, c)
  PROVE  events' \in Seq([action : {"start", "end"}, id : Container]) /\ Len(events') <= MaxEvents
<1>1. CASE events' = events
  BY <1>1 DEF DaemonTyped
<1>2. CASE Len(events) < MaxEvents /\ events' = Append(events, [action |-> action, id |-> c])
  <2>1. [action |-> action, id |-> c] \in [action : {"start", "end"}, id : Container]
    OBVIOUS
  <2>2. /\ events' \in Seq([action : {"start", "end"}, id : Container])
        /\ Len(events') = Len(events) + 1 /\ Len(events) \in Nat
    BY <1>2, <2>1, AppendProperties, LenProperties DEF DaemonTyped
  <2> QED BY <1>2, <2>2, WatcherAssumption
<1> QED BY <1>1, <1>2 DEF Emit

LEMMA InfoTyped ==
  ASSUME DaemonTyped, NEW c \in Container, NEW i \in InfosOf[c], info' = [info EXCEPT ![c] = i]
  PROVE  /\ info' \in [Container -> UNION {InfosOf[d] : d \in Container}]
         /\ \A d \in Container : info'[d] \in InfosOf[d]
BY DEF DaemonTyped

LEMMA DaemonStep == DaemonTyped /\ TablesTyped /\ [Next]_vars => DaemonTyped'
<1> SUFFICES ASSUME DaemonTyped, TablesTyped, [Next]_vars PROVE DaemonTyped'
  OBVIOUS
<1>1. ASSUME NEW c \in Container, ContainerStarts(c) PROVE DaemonTyped'
  <2>1. PICK i \in InfosOf[c] : info' = [info EXCEPT ![c] = i]
    BY <1>1 DEF ContainerStarts
  <2>2. /\ info' \in [Container -> UNION {InfosOf[d] : d \in Container}]
        /\ \A d \in Container : info'[d] \in InfosOf[d]
    BY <2>1, InfoTyped
  <2> QED BY <1>1, <2>2, EmitTyped DEF ContainerStarts, DaemonTyped
<1>2. ASSUME NEW c \in Container, ContainerDies(c) \/ ContainerSignalled(c) PROVE DaemonTyped'
  BY <1>2, EmitTyped DEF ContainerDies, ContainerSignalled, DaemonTyped
<1>3. ASSUME NEW c \in Container, ContainerRenamed(c) PROVE DaemonTyped'
  <2>1. PICK i \in InfosOf[c] : info' = [info EXCEPT ![c] = i]
    BY <1>3 DEF ContainerRenamed
  <2>2. /\ info' \in [Container -> UNION {InfosOf[d] : d \in Container}]
        /\ \A d \in Container : info'[d] \in InfosOf[d]
    BY <2>1, InfoTyped
  <2> QED BY <1>3, <2>2 DEF ContainerRenamed, DaemonTyped
<1>4. ASSUME Connect PROVE DaemonTyped'
  BY <1>4, WatcherAssumption DEF Connect, DaemonTyped
<1>5. ASSUME ScanEvent PROVE DaemonTyped'
  <2>1. CASE events # << >> /\ events' = Tail(events)
    <3>1. events' \in Seq([action : {"start", "end"}, id : Container])
          /\ Len(events') = Len(events) - 1 /\ Len(events) \in Nat
      BY <2>1, HeadTailProperties, LenProperties DEF DaemonTyped
    <3> QED BY <1>5, <3>1, WatcherAssumption, SMTT(30) DEF ScanEvent, DaemonTyped
  <2>2. CASE UNCHANGED events
    BY <1>5, <2>2 DEF ScanEvent, DaemonTyped
  <2> QED BY <1>5, <2>1, <2>2 DEF ScanEvent
<1>6. ASSUME StreamBreaks \/ Cancel \/ UNCHANGED daemonVars PROVE DaemonTyped'
  BY <1>6 DEF StreamBreaks, Cancel, DaemonTyped, daemonVars
<1>7. ASSUME Watcher PROVE Connect \/ ScanEvent \/ UNCHANGED daemonVars
  BY <1>7 DEF Watcher, List, ListFails, RegisterContainer, AddRoute, RemoveRoute, StartLogStream,
    UnregisterContainer, LoopEnds
<1>8. ASSUME Stop \/ UNCHANGED vars \/ \E c \in Container : \E g \in Gens(c) : LogStreamReturns(c, g)
      PROVE  UNCHANGED daemonVars
  BY <1>8 DEF Stop, LogStreamReturns, vars, daemonVars
<1> QED BY <1>1, <1>2, <1>3, <1>4, <1>5, <1>6, <1>7, <1>8 DEF Next

LEMMA LogInit == Init => LogInv
BY WatcherAssumption DEF Init, LogInv, LogsTyped, LogEntryIsLive, Gens

LEMMA LogStep == LogInv /\ TablesTyped /\ InHand /\ [Next]_vars => LogInv'
<1> SUFFICES ASSUME LogInv, TablesTyped, InHand, [Next]_vars PROVE LogInv'
  OBVIOUS
<1>0. /\ DOMAIN streams = Container /\ DOMAIN logs = Container
      /\ streams = [c \in Container |-> streams[c]] /\ logs = [c \in Container |-> logs[c]]
      /\ \A c \in Container : /\ streams[c] \in [Gens(c) -> {"free", "live", "cancelled"}]
                              /\ logs[c] \in 0 .. MaxStreams[c] /\ Gens(c) = 1 .. MaxStreams[c]
                              /\ MaxStreams[c] \in Nat
                              /\ logs[c] # 0 => streams[c][logs[c]] = "live"
  BY WatcherAssumption DEF LogInv, LogsTyped, LogEntryIsLive, Gens
\* One container's goroutines change, and at most one of them.
<1>1. ASSUME NEW c \in Container, NEW s \in [Gens(c) -> {"free", "live", "cancelled"}],
             NEW n \in 0 .. MaxStreams[c], n # 0 => s[n] = "live",
             streams' = [streams EXCEPT ![c] = s], logs' = [logs EXCEPT ![c] = n]
      PROVE  LogInv'
  <2>1. /\ streams' = [d \in Container |-> IF d = c THEN s ELSE streams[d]]
        /\ logs' = [d \in Container |-> IF d = c THEN n ELSE logs[d]]
    BY <1>0, <1>1
  <2> QED BY <1>0, <1>1, <2>1 DEF LogInv, LogsTyped, LogEntryIsLive
<1>2. ASSUME StartLogStream, ~ UNCHANGED logVars PROVE LogInv'
  <2> DEFINE c == w.route.target[1]
  <2>1. c \in Container
    BY <1>2, RoutesAreRoutes DEF InHand, StartLogStream
  <2>2. PICK g \in Gens(c) : /\ streams' = [streams EXCEPT ![c][g] = "live"]
                             /\ logs' = [logs EXCEPT ![c] = g]
    BY <1>2 DEF StartLogStream
  <2> HIDE DEF c
  <2>3. g \in 0 .. MaxStreams[c]
    BY <1>0, <2>1, <2>2
  <2>4. /\ streams' = [streams EXCEPT ![c] = [streams[c] EXCEPT ![g] = "live"]]
        /\ [streams[c] EXCEPT ![g] = "live"] \in [Gens(c) -> {"free", "live", "cancelled"}]
        /\ [streams[c] EXCEPT ![g] = "live"][g] = "live"
    BY <1>0, <2>1, <2>2
  <2> QED BY <1>1, <2>1, <2>2, <2>3, <2>4
<1>3. ASSUME UnregisterContainer, ~ UNCHANGED logVars PROVE LogInv'
  <2>1. PICK c \in w.dead : /\ logs[c] # 0
                            /\ streams' = [streams EXCEPT ![c][logs[c]] = "cancelled"]
                            /\ logs' = [logs EXCEPT ![c] = 0]
    BY <1>3 DEF UnregisterContainer
  <2>2. c \in Container
    BY DEF TablesTyped, WatcherStates
  <2>3. /\ streams' = [streams EXCEPT ![c] = [streams[c] EXCEPT ![logs[c]] = "cancelled"]]
        /\ [streams[c] EXCEPT ![logs[c]] = "cancelled"] \in [Gens(c) -> {"free", "live", "cancelled"}]
        /\ 0 \in 0 .. MaxStreams[c]
    BY <1>0, <2>1, <2>2
  <2> QED BY <1>1, <2>1, <2>2, <2>3
<1>4. ASSUME NEW c \in Container, NEW g \in Gens(c), LogStreamReturns(c, g) PROVE LogInv'
  <2>1. /\ streams' = [streams EXCEPT ![c] = [streams[c] EXCEPT ![g] = "free"]]
        /\ logs' = [logs EXCEPT ![c] = 0]
        /\ [streams[c] EXCEPT ![g] = "free"] \in [Gens(c) -> {"free", "live", "cancelled"}]
        /\ 0 \in 0 .. MaxStreams[c]
    BY <1>0, <1>4 DEF LogStreamReturns, EntryAfterReturn
  <2> QED BY <1>1, <2>1
<1>5. ASSUME Stop PROVE LogInv'
  BY <1>0, <1>5 DEF Stop, LogInv, LogsTyped, LogEntryIsLive
<1>6. ASSUME UNCHANGED logVars PROVE LogInv'
  BY <1>6 DEF logVars, LogInv, LogsTyped, LogEntryIsLive
<1> QED BY <1>2, <1>3, <1>4, <1>5, <1>6, Frames

-------------------------------------------------------------------------------
(* The two tables. *)

LEMMA RouterInit == Init => RouterInv
<1> SUFFICES ASSUME Init PROVE RouterInv
  OBVIOUS
<1>1. TablesTyped /\ w.pc = "list" /\ w.todo = {}
  BY AtIs, WatcherAssumption DEF Init, TablesTyped
<1>2. OwnRoutes /\ InHand /\ MountedOrAdded
  BY <1>1 DEF Init, OwnRoutes, InHand, MountedOrAdded
<1>3. \A p \in Prefix : table[p] \notin Targets
  BY WatcherAssumption DEF Init
<1>4. NoOrphanRoute
  BY <1>3 DEF NoOrphanRoute
<1> QED BY <1>1, <1>2, <1>4 DEF RouterInv

\* The watcher goes on with no route in hand: only what it is to mount matters.
LEMMA GoesOn ==
  ASSUME RouterInv, w.pc \notin {"add", "remove"}, UNCHANGED <<routes, table>>,
         w' \in WatcherStates, w'.pc \notin {"add", "stream", "remove"},
         \A r \in w'.todo : AskedFor(r.target[1], r)
  PROVE  RouterInv'
<1>1. TablesTyped' /\ InHand'
  BY DEF RouterInv, TablesTyped, InHand
<1>2. OwnRoutes'
  BY DEF RouterInv, OwnRoutes, AskedFor, RouteOf, RoutePrefix, Routes, Targets
<1>3. NoOrphanRoute'
  BY DEF RouterInv, NoOrphanRoute
<1>4. MountedOrAdded'
  BY DEF RouterInv, MountedOrAdded, PrefixesDisjoint, RoutePrefix
<1> QED BY <1>1, <1>2, <1>3, <1>4 DEF RouterInv

LEMMA RouterStep == RouterInv /\ DaemonTyped /\ [Next]_vars => RouterInv'
<1> SUFFICES ASSUME RouterInv, DaemonTyped, [Next]_vars PROVE RouterInv'
  OBVIOUS
<1>0. /\ TablesTyped /\ OwnRoutes /\ InHand /\ NoOrphanRoute /\ MountedOrAdded
      /\ w \in WatcherStates /\ w.ret \in {"connect", "scan"} /\ w.todo \in SUBSET Routes
      /\ w.dead \in SUBSET Container
      /\ routes \in [Container -> {NoRoute} \cup Routes] /\ DOMAIN table = Prefix
  BY DEF RouterInv, TablesTyped, WatcherStates
<1>1. ASSUME List PROVE RouterInv'
  <2> DEFINE todo == {RouteOf(c, info[c]) : c \in ToMount}
  <2>1. /\ w.pc = "list" /\ w' = Working(todo, DeadIDs, w.ret) /\ UNCHANGED <<routes, table>>
    BY <1>1 DEF List
  <2>2. todo \in SUBSET Routes /\ DeadIDs \in SUBSET Container /\ \A r \in todo : AskedFor(r.target[1], r)
    BY RouteOfIs DEF ToMount, DeadIDs, DaemonTyped
  <2> HIDE DEF todo
  <2>3. w' \in WatcherStates /\ w'.pc \in {"work", "connect", "scan"} /\ w'.todo = todo
    BY <1>0, <2>1, <2>2, WorkingIs
  <2> QED BY <2>1, <2>2, <2>3, GoesOn
<1>2. ASSUME ListFails \/ Connect \/ LoopEnds PROVE RouterInv'
  <2>1. /\ w.pc \in {"list", "connect"} /\ UNCHANGED <<routes, table>>
        /\ \/ w' = At(w.ret, w.ret) \/ w' = At("scan", "scan") \/ w' = At("gone", "connect")
    BY <1>2 DEF ListFails, Connect, LoopEnds
  <2>2. w' \in WatcherStates /\ w'.todo = {} /\ w'.pc \in {"connect", "scan", "gone"}
    BY <1>0, <2>1, AtIs
  <2> QED BY <2>1, <2>2, GoesOn
<1>3. ASSUME ScanEvent PROVE RouterInv'
  <2>1. w.pc = "scan" /\ UNCHANGED <<routes, table>>
    BY <1>3 DEF ScanEvent
  <2>2. w' \in WatcherStates /\ w'.todo = {} /\ w'.pc \in {"work", "connect", "scan", "list"}
    <3>1. CASE w' = At("list", "scan") \/ w' = At("list", "connect")
      BY <3>1, AtIs
    <3>2. CASE events # << >> /\ w' = Working({}, {Head(events).id}, "scan")
      <4>1. {Head(events).id} \in SUBSET Container /\ {} \in SUBSET Routes
        <5>1. events \in Seq([action : {"start", "end"}, id : Container])
          BY DEF DaemonTyped
        <5>2. Head(events) \in [action : {"start", "end"}, id : Container]
          BY <3>2, <5>1, HeadTailProperties
        <5> QED BY <5>2
      <4> QED BY <3>2, <4>1, WorkingIs
    <3> QED BY <1>3, <3>1, <3>2 DEF ScanEvent
  <2> QED BY <2>1, <2>2, GoesOn
<1>4. ASSUME StartLogStream PROVE RouterInv'
  <2>1. w.pc = "stream" /\ UNCHANGED <<routes, table>> /\ w' = Working(w.todo, w.dead, w.ret)
    BY <1>4 DEF StartLogStream
  <2>2. w' \in WatcherStates /\ w'.pc \in {"work", "connect", "scan"} /\ w'.todo = w.todo
    BY <1>0, <2>1, WorkingIs
  <2> QED BY <1>0, <2>1, <2>2, GoesOn DEF OwnRoutes
<1>5. ASSUME UNCHANGED tableVars PROVE RouterInv'
  <2>1. w' = w /\ routes' = routes /\ table' = table
    BY <1>5 DEF tableVars
  <2>2. TablesTyped' /\ InHand' /\ NoOrphanRoute'
    BY <1>0, <2>1 DEF TablesTyped, InHand, NoOrphanRoute
  <2>3. OwnRoutes'
    BY <1>0, <2>1 DEF OwnRoutes
  <2>4. MountedOrAdded'
    BY <1>0, <2>1 DEF MountedOrAdded
  <2> QED BY <2>2, <2>3, <2>4 DEF RouterInv
<1>6. ASSUME RegisterContainer PROVE RouterInv'
  <2>1. PICK new \in w.todo :
             LET c == new.target[1] IN
             /\ w' = [w EXCEPT !.pc = "add", !.todo = w.todo \ {new}, !.route = new,
                               !.streaming = logs[c] # 0]
             /\ routes' = [routes EXCEPT ![c] = new]
             /\ table' = OldPruned(routes[c], new)
    BY <1>6 DEF RegisterContainer
  <2> DEFINE c == new.target[1]
             old == routes[c]
  <2>2. /\ w.pc = "work" /\ new \in Routes /\ c \in Container /\ AskedFor(c, new)
        /\ old \in {NoRoute} \cup Routes
    BY <1>0, <1>6, RoutesAreRoutes DEF RegisterContainer, OwnRoutes
  <2>3. /\ w' \in WatcherStates /\ w'.pc = "add" /\ w'.todo = w.todo \ {new} /\ w'.route = new
        /\ routes' = [routes EXCEPT ![c] = new]
    BY <1>0, <2>1, <2>2 DEF WatcherStates
  <2>4. /\ routes' \in [Container -> {NoRoute} \cup Routes] /\ routes'[c] = new
        /\ \A d \in Container \ {c} : routes'[d] = routes[d]
    BY <1>0, <2>2, <2>3
  <2>5. \/ table' = table /\ (old = NoRoute \/ old.prefix = new.prefix)
        \/ /\ table' = [table EXCEPT ![old.prefix] = NoTarget]
           /\ old \in Routes /\ old.prefix # new.prefix /\ old.prefix \in Prefix
           /\ AskedFor(c, old)
    BY <1>0, <2>1, <2>2, RoutesAreRoutes DEF OldPruned, OwnRoutes
  <2> HIDE DEF c, old
  <2>6. TablesTyped'
    BY <1>0, <2>3, <2>4, <2>5 DEF TablesTyped
  <2>7. InHand'
    BY <2>2, <2>3, <2>4 DEF InHand, c
  <2>8. OwnRoutes'
    BY <1>0, <2>2, <2>3, <2>4 DEF OwnRoutes
  <2>9. NoOrphanRoute'
    <3> SUFFICES ASSUME NEW p \in Prefix, table'[p] \in Targets, p # new.prefix
                 PROVE  \E d \in Container : routes'[d] = [prefix |-> p, target |-> table'[p]]
      BY <2>3 DEF NoOrphanRoute
    <3>1. table'[p] = table[p] /\ ~ (old \in Routes /\ old.prefix = p)
      BY <1>0, <2>5, WatcherAssumption, RoutesAreRoutes
    <3>2. PICK d \in Container : routes[d] = [prefix |-> p, target |-> table[p]]
      BY <1>0, <2>2, <3>1 DEF NoOrphanRoute
    <3>3. d # c
      <4>1. [prefix |-> p, target |-> table[p]] \in Routes
        BY <3>1, RoutesAreRoutes
      <4> QED BY <3>1, <3>2, <4>1 DEF old
    <3> QED BY <2>4, <3>1, <3>2, <3>3
  <2>10. MountedOrAdded'
    BY <1>0, <2>2, <2>3, <2>4, <2>5, OtherPrefix, RoutesAreRoutes DEF MountedOrAdded, OwnRoutes
  <2> QED BY <2>6, <2>7, <2>8, <2>9, <2>10 DEF RouterInv
<1>7. ASSUME AddRoute PROVE RouterInv'
  <2> DEFINE r == w.route
  <2>1. /\ w.pc = "add" /\ table' = [table EXCEPT ![r.prefix] = r.target] /\ UNCHANGED routes
        /\ w' = Working(w.todo, w.dead, w.ret) \/ w' = [w EXCEPT !.pc = "stream"]
    BY <1>7 DEF AddRoute, Mounted
  <2>2. /\ r \in Routes /\ r.target[1] \in Container /\ routes[r.target[1]] = r
        /\ r.prefix \in Prefix /\ r.target \in Targets /\ r # NoRoute
        /\ AskedFor(r.target[1], r) /\ r = [prefix |-> r.prefix, target |-> r.target]
    BY <1>0, <2>1, RoutesAreRoutes DEF InHand, OwnRoutes, Routes
  <2>3. /\ w' \in WatcherStates /\ w'.pc \in {"work", "connect", "scan", "stream"}
        /\ w'.todo = w.todo
        /\ w'.pc = "stream" => w'.route = r
    <3>1. CASE w' = Working(w.todo, w.dead, w.ret)
      BY <1>0, <3>1, WorkingIs
    <3>2. CASE w' = [w EXCEPT !.pc = "stream"]
      BY <1>0, <3>2 DEF WatcherStates
    <3> QED BY <2>1, <3>1, <3>2
  <2> DEFINE c == r.target[1]
  <2>4. w.route = r
    OBVIOUS
  <2> HIDE DEF r
  <2>5. TablesTyped'
    BY <1>0, <2>1, <2>2, <2>3 DEF TablesTyped
  <2>6. InHand'
    BY <2>2, <2>3 DEF InHand
  <2>7. OwnRoutes'
    BY <1>0, <2>1, <2>3 DEF OwnRoutes
  <2>8. NoOrphanRoute'
    BY <1>0, <2>1, <2>2, <2>3, <2>4 DEF NoOrphanRoute
  <2>9. MountedOrAdded'
    BY <1>0, <2>1, <2>2, <2>3, <2>4, OtherPrefix, RoutesAreRoutes DEF MountedOrAdded, OwnRoutes
  <2> QED BY <2>5, <2>6, <2>7, <2>8, <2>9 DEF RouterInv
<1>8. ASSUME UnregisterContainer PROVE RouterInv'
  <2>1. PICK c \in w.dead :
             /\ w.pc = "work" /\ w.todo = {} /\ UNCHANGED table
             /\ routes' = [routes EXCEPT ![c] = NoRoute]
             /\ w' = IF routes[c] = NoRoute
                       THEN Working({}, w.dead \ {c}, w.ret)
                       ELSE [w EXCEPT !.pc = "remove", !.dead = w.dead \ {c}, !.route = routes[c]]
    BY <1>8 DEF UnregisterContainer
  <2>2. /\ c \in Container /\ routes' \in [Container -> {NoRoute} \cup Routes]
        /\ routes'[c] = NoRoute /\ \A d \in Container \ {c} : routes'[d] = routes[d]
    BY <1>0, <2>1
  <2>3. CASE routes[c] = NoRoute
    <3>1. UNCHANGED routes
      BY <1>0, <2>1, <2>2, <2>3
    <3>2. w' \in WatcherStates /\ w'.pc \in {"work", "connect", "scan"} /\ w'.todo = {}
      <4>1. w' = Working({}, w.dead \ {c}, w.ret) /\ w.dead \ {c} \in SUBSET Container
            /\ {} \in SUBSET Routes
        BY <1>0, <2>1, <2>3
      <4> QED BY <1>0, <4>1, WorkingIs
    <3> QED BY <2>1, <3>1, <3>2, GoesOn
  <2>4. CASE routes[c] # NoRoute
    <3> DEFINE r == routes[c]
    <3>1. /\ r \in Routes /\ AskedFor(c, r) /\ r.target[1] = c /\ r.prefix \in Prefix
      BY <1>0, <2>2, <2>4, RoutesAreRoutes DEF OwnRoutes, AskedFor, RouteOf
    <3>2. w' \in WatcherStates /\ w'.pc = "remove" /\ w'.todo = {} /\ w'.route = r
      BY <1>0, <2>1, <2>2, <2>4, <3>1 DEF WatcherStates
    <3>3. routes[c] = r
      OBVIOUS
    <3> HIDE DEF r
    <3>4. TablesTyped'
      BY <1>0, <2>1, <2>2, <3>2 DEF TablesTyped
    <3>5. InHand' /\ OwnRoutes'
      BY <1>0, <2>2, <3>1, <3>2 DEF InHand, OwnRoutes
    <3>6. NoOrphanRoute'
      BY <1>0, <2>1, <2>2, <3>2, <3>3 DEF NoOrphanRoute
    <3>7. MountedOrAdded'
      BY <1>0, <2>1, <2>2, <3>2 DEF MountedOrAdded
    <3> QED BY <3>4, <3>5, <3>6, <3>7 DEF RouterInv
  <2> QED BY <2>3, <2>4
<1>9. ASSUME RemoveRoute PROVE RouterInv'
  <2> DEFINE r == w.route
  <2>1. /\ w.pc = "remove" /\ table' = [table EXCEPT ![r.prefix] = NoTarget] /\ UNCHANGED routes
        /\ w' = Working({}, w.dead, w.ret)
    BY <1>9 DEF RemoveRoute
  <2>2. /\ AskedFor(r.target[1], r) /\ r.target[1] \in Container /\ r.prefix \in Prefix
        /\ routes[r.target[1]] = NoRoute
    BY <1>0, <2>1, RoutesAreRoutes DEF InHand, AskedFor
  <2>3. w' \in WatcherStates /\ w'.pc \in {"work", "connect", "scan"} /\ w'.todo = {}
    BY <1>0, <2>1, WorkingIs
  <2>4. w.route = r
    OBVIOUS
  <2> HIDE DEF r
  <2>5. TablesTyped' /\ InHand' /\ OwnRoutes'
    BY <1>0, <2>1, <2>2, <2>3 DEF TablesTyped, InHand, OwnRoutes
  <2>6. NoOrphanRoute'
    BY <1>0, <2>1, <2>2, <2>4, WatcherAssumption DEF NoOrphanRoute
  <2>7. MountedOrAdded'
    BY <1>0, <2>1, <2>2, <2>4, OtherPrefix, RoutesAreRoutes DEF MountedOrAdded, OwnRoutes
  <2> QED BY <2>5, <2>6, <2>7 DEF RouterInv
<1> QED
  BY <1>1, <1>2, <1>3, <1>4, <1>5, <1>6, <1>7, <1>8, <1>9, Frames DEF Watcher

-------------------------------------------------------------------------------
LEMMA InvInit == Init => Inv
BY DaemonInit, RouterInit, LogInit DEF Inv

LEMMA InvStep == Inv /\ [Next]_vars => Inv'
BY DaemonStep, RouterStep, LogStep DEF Inv, RouterInv

LEMMA InvAlways == Spec => []Inv
BY InvInit, InvStep, PTL DEF Spec

\* The daemon's events, the watcher and its locals, both tables and the log goroutines
\* hold what they should, and a registered route is of its own container.
THEOREM TypeCorrect == Spec => []TypeOK
<1>1. ASSUME Inv PROVE TypeOK
  <2>1. /\ DaemonTyped /\ TablesTyped /\ LogsTyped /\ OwnRoutes
    BY <1>1 DEF Inv, RouterInv, LogInv
  <2>2. \A i \in 1 .. Len(events) : events[i] \in [action : {"start", "end"}, id : Container]
    BY <2>1, ElementOfSeq DEF DaemonTyped
  <2>3. \A c \in Container : routes[c] # NoRoute => routes[c].target[1] = c
    <3> SUFFICES ASSUME NEW c \in Container, routes[c] # NoRoute PROVE routes[c].target[1] = c
      OBVIOUS
    <3>1. PICK i \in InfosOf[c] : routes[c] = RouteOf(c, i)
      BY <2>1 DEF OwnRoutes, AskedFor
    <3>2. RouteOf(c, i).target = <<c, i.port>>
      BY DEF RouteOf
    <3> QED BY <3>1, <3>2
  <2>4. w \in [pc : {"list", "work", "add", "stream", "remove", "connect", "scan", "gone"},
               ret : {"connect", "scan"},
               todo : SUBSET ({NoRoute} \cup [prefix : Prefix, target : Targets]),
               dead : SUBSET Container,
               route : {NoRoute} \cup [prefix : Prefix, target : Targets], streaming : BOOLEAN]
    BY <2>1 DEF TablesTyped, WatcherStates, Routes
  <2>5. /\ routes \in [Container -> {NoRoute} \cup [prefix : Prefix, target : Targets]]
        /\ table \in [Prefix -> Targets \cup {NoTarget} \cup {StaticTable[p] : p \in DOMAIN StaticTable}]
    BY <2>1 DEF TablesTyped, Routes
  <2>6. /\ cancelled \in BOOLEAN /\ open \in BOOLEAN /\ running \subseteq Container
        /\ Len(events) <= MaxEvents /\ \A c \in Container : info[c] \in InfosOf[c]
    BY <2>1 DEF DaemonTyped
  <2>7. \A c \in Container : /\ streams[c] \in [Gens(c) -> {"free", "live", "cancelled"}]
                             /\ logs[c] \in 0 .. MaxStreams[c]
    BY <2>1 DEF LogsTyped
  <2> QED BY <2>2, <2>3, <2>4, <2>5, <2>6, <2>7 DEF TypeOK
<1> QED BY <1>1, InvAlways, PTL

\* The watcher's table and the router's agree whenever the watcher is not inside an
\* update: nothing is mounted that no container registered, and, where no two
\* containers ask for one prefix, nothing is registered that is not mounted.
THEOREM TablesAgree == Spec => []RouterAgrees
<1>1. ASSUME Inv PROVE RouterAgrees
  <2>1. NoOrphanRoute /\ MountedOrAdded
    BY <1>1 DEF Inv, RouterInv
  <2>2. RegisteredIsMounted
    BY <2>1 DEF MountedOrAdded, RegisteredIsMounted
  <2> QED BY <2>1, <2>2 DEF RouterAgrees
<1> QED BY <1>1, InvAlways, PTL

\* cancel() never hits the context of a log goroutine that has gone, or was cancelled
\* already, whatever dies, restarts and stops meanwhile.
THEOREM EntriesAreLive == Spec => []LogEntryIsLive
<1>1. Inv => LogEntryIsLive
  BY DEF Inv, LogInv
<1> QED BY <1>1, InvAlways, PTL

-------------------------------------------------------------------------------
(* Router: sequences and walks. *)

LEMMA LeastElement ==
  ASSUME NEW X \in SUBSET Nat, X # {}
  PROVE  \E n \in X : \A m \in X : n <= m
<1> DEFINE T == {0 .. n : n \in X}
           R == StrictSubsetOrdering(Nat)
           S == FiniteSubsetsOf(Nat)
<1>1. IsWellFoundedOn(R, S)
  BY FS_StrictSubsetOrderingWellFounded
<1>2. ASSUME NEW n \in X PROVE 0 .. n \in S
  <2>1. 0 \in Int /\ n \in Int
    OBVIOUS
  <2>2. IsFiniteSet(0 .. n)
    BY <2>1, FS_Interval
  <2> QED
    BY <2>2 DEF FiniteSubsetsOf
<1>3. T \subseteq S /\ T # {}
  BY <1>2
<1> HIDE DEF T, R, S
<1>4. PICK t \in T : \A u \in T : <<u, t>> \notin R
  BY <1>1, <1>3, WFMin
<1>5. PICK n \in X : t = 0 .. n
  BY DEF T
<1>6. ASSUME NEW m \in X, m < n PROVE FALSE
  <2>1. 0 .. m \in T /\ <<0 .. m, t>> \notin R
    BY <1>4 DEF T
  <2>2. 0 .. m \subseteq 0 .. n /\ 0 .. m # 0 .. n /\ 0 .. n \subseteq Nat /\ 0 .. m \subseteq Nat
    BY <1>6
  <2> QED
    BY <1>5, <2>1, <2>2 DEF R, StrictSubsetOrdering
<1> QED
  BY <1>6

\* Induction over sequences, for a set of them.
LEMMA SequencesAreBuilt ==
  ASSUME NEW S, NEW X \in SUBSET Seq(S), << >> \in X,
         \A p \in X : \A s \in S : Append(p, s) \in X
  PROVE  X = Seq(S)
<1> DEFINE Bad == {n \in Nat : \E p \in Seq(S) : p \notin X /\ Len(p) = n}
<1>1. CASE Bad = {}
  <2>1. ASSUME NEW p \in Seq(S) PROVE p \in X
    BY <1>1, LenProperties
  <2> QED
    BY <2>1
<1>2. CASE Bad # {}
  <2>1. PICK n \in Bad : \A m \in Bad : n <= m
    <3> HIDE DEF Bad
    <3>1. Bad \subseteq Nat
      BY DEF Bad
    <3> QED
      BY <1>2, <3>1, LeastElement
  <2>2. PICK p \in Seq(S) : p \notin X /\ Len(p) = n
    OBVIOUS
  <2>3. PICK q \in Seq(S), s \in S : p = Append(q, s)
    <3>1. p # << >>
      BY <2>2
    <3> QED
      BY <3>1, SequenceEmptyOrAppend
  <2>4. Len(q) \in Nat /\ n = Len(q) + 1
    BY <2>2, <2>3, LenProperties, AppendProperties
  <2>5. q \in X
    <3>1. Len(q) \notin Bad
      <4> HIDE DEF Bad
      <4> QED BY <2>1, <2>4
    <3> QED
      BY <2>4, <3>1
  <2> QED
    BY <2>2, <2>3, <2>5
<1> QED
  BY <1>1, <1>2

-------------------------------------------------------------------------------
(* Walks. *)

Kid(h, n, s) == IF n = NoNode THEN NoNode ELSE h[n].kids[s]

\* What Walk's function is.
Track(g, h, n, p) ==
  g = [i \in 0 .. Len(p) |->
        IF i = 0 THEN n ELSE IF g[i - 1] = NoNode THEN NoNode ELSE h[g[i - 1]].kids[p[i]]]

LEMMA TrackIs ==
  ASSUME NEW g, NEW h, NEW n, NEW p, Len(p) \in Nat
  PROVE  Track(g, h, n, p) <=>
           /\ g = [i \in 0 .. Len(p) |-> g[i]] /\ g[0] = n
           /\ \A i \in 1 .. Len(p) : g[i] = Kid(h, g[i - 1], p[i])
<1>1. ASSUME Track(g, h, n, p)
      PROVE  /\ g = [i \in 0 .. Len(p) |-> g[i]] /\ g[0] = n
             /\ \A i \in 1 .. Len(p) : g[i] = Kid(h, g[i - 1], p[i])
  BY <1>1 DEF Track, Kid
<1>2. ASSUME g = [i \in 0 .. Len(p) |-> g[i]], g[0] = n,
             \A i \in 1 .. Len(p) : g[i] = Kid(h, g[i - 1], p[i])
      PROVE  Track(g, h, n, p)
  <2> DEFINE F(i) == IF i = 0 THEN n
                     ELSE IF g[i - 1] = NoNode THEN NoNode ELSE h[g[i - 1]].kids[p[i]]
  <2>1. ASSUME NEW i \in 0 .. Len(p) PROVE g[i] = F(i)
    BY <1>2 DEF Kid
  <2>2. [i \in 0 .. Len(p) |-> g[i]] = [i \in 0 .. Len(p) |-> F(i)]
    BY <2>1
  <2> QED
    BY <1>2, <2>2 DEF Track
<1> QED
  BY <1>1, <1>2

LEMMA TrackExists ==
  ASSUME NEW h, NEW n, NEW p, Len(p) \in Nat
  PROVE  \E g : Track(g, h, n, p)
<1> DEFINE Long(k, g) == /\ g = [i \in 0 .. k |-> g[i]] /\ g[0] = n
                         /\ \A i \in 1 .. k : g[i] = Kid(h, g[i - 1], p[i])
           Bad == {k \in Nat : ~ \E g : Long(k, g)}
<1>1. 0 \notin Bad
  <2> DEFINE g == [i \in 0 .. 0 |-> n]
  <2>1. Long(0, g)
    OBVIOUS
  <2> QED
    BY <2>1
<1>2. Bad = {}
  <2> SUFFICES ASSUME Bad # {} PROVE FALSE
    OBVIOUS
  <2>1. PICK k \in Bad : \A m \in Bad : k <= m
    <3>1. Bad \subseteq Nat
      OBVIOUS
    <3> HIDE DEF Bad
    <3> QED
      BY <3>1, LeastElement
  <2>2. k \in Nat /\ k - 1 \in Nat /\ k - 1 \notin Bad
    BY <1>1, <2>1
  <2>3. PICK g : Long(k - 1, g)
    BY <2>2
  <2> DEFINE f == [i \in 0 .. k |-> IF i = k THEN Kid(h, g[k - 1], p[k]) ELSE g[i]]
  <2>4. Long(k, f)
    <3>1. f[0] = n /\ \A i \in 0 .. k - 1 : f[i] = g[i]
      BY <2>2, <2>3
    <3>2. f[k] = Kid(h, f[k - 1], p[k])
      BY <2>2, <3>1
    <3>3. f = [i \in 0 .. k |-> f[i]]
      OBVIOUS
    <3> HIDE DEF f
    <3>4. \A i \in 1 .. k : f[i] = Kid(h, f[i - 1], p[i])
      <4>1. ASSUME NEW i \in 1 .. k, i # k PROVE f[i] = Kid(h, f[i - 1], p[i])
        <5>1. i \in 1 .. k - 1 /\ i \in 0 .. k - 1 /\ i - 1 \in 0 .. k - 1
          BY <2>2, <4>1
        <5> QED
          BY <2>3, <3>1, <5>1
      <4> QED
        BY <3>2, <4>1
    <3> QED
      BY <3>1, <3>3, <3>4
  <2> QED
    BY <2>1, <2>4
<1>3. PICK g : Long(Len(p), g)
  BY <1>2
<1>4. /\ g = [i \in 0 .. Len(p) |-> g[i]] /\ g[0] = n
      /\ \A i \in 1 .. Len(p) : g[i] = Kid(h, g[i - 1], p[i])
  BY <1>3, Zenon
<1>5. Track(g, h, n, p)
  BY <1>4, TrackIs, Zenon
<1> QED
  BY <1>5

LEMMA WalkTrack ==
  ASSUME NEW h, NEW n, NEW p, Len(p) \in Nat
  PROVE  \E g : Track(g, h, n, p) /\ Walk(h, n, p) = g[Len(p)]
<1> DEFINE c == CHOOSE g : Track(g, h, n, p)
<1>1. Track(c, h, n, p)
  BY TrackExists
<1>2. Walk(h, n, p) = c[Len(p)]
  BY DEF Walk, Track
<1> QED BY <1>1, <1>2

\* Two walks along one path are at the same nodes.
LEMMA TracksAgree ==
  ASSUME NEW h, NEW n, NEW p, NEW q, NEW f, NEW g,
         Len(p) \in Nat, Len(q) \in Nat, Len(p) <= Len(q), \A i \in 1 .. Len(p) : p[i] = q[i],
         Track(f, h, n, p), Track(g, h, n, q)
  PROVE  f[Len(p)] = g[Len(p)]
<1> DEFINE Bad == {i \in Nat : i <= Len(p) /\ f[i] # g[i]}
<1> SUFFICES ASSUME Bad # {} PROVE FALSE
  OBVIOUS
<1>1. PICK k \in Bad : \A m \in Bad : k <= m
  <2>1. Bad \subseteq Nat
    OBVIOUS
  <2> HIDE DEF Bad
  <2> QED
    BY <2>1, LeastElement
<1>2. f[0] = n /\ g[0] = n
  BY TrackIs
<1>3. k \in 1 .. Len(p) /\ k \in 1 .. Len(q) /\ k - 1 \in Nat /\ k - 1 <= Len(p)
  BY <1>1, <1>2
<1>4. f[k - 1] = g[k - 1]
  BY <1>1, <1>3
<1>5. f[k] = Kid(h, f[k - 1], p[k]) /\ g[k] = Kid(h, g[k - 1], q[k])
  BY <1>3, TrackIs
<1> QED
  BY <1>1, <1>3, <1>4, <1>5

LEMMA WalkEmpty ==
  ASSUME NEW h, NEW n
  PROVE  Walk(h, n, << >>) = n
<1>1. Len(<< >>) = 0
  OBVIOUS
<1>2. PICK g : Track(g, h, n, << >>) /\ Walk(h, n, << >>) = g[0]
  BY <1>1, WalkTrack
<1> QED
  BY <1>1, <1>2, TrackIs

LEMMA WalkAppend ==
  ASSUME NEW h, NEW n, NEW p \in Seq(Seg), NEW s \in Seg
  PROVE  Walk(h, n, Append(p, s)) = Kid(h, Walk(h, n, p), s)
<1> DEFINE q == Append(p, s)
<1>1. /\ Len(p) \in Nat /\ Len(q) = Len(p) + 1 /\ q[Len(q)] = s
      /\ \A i \in 1 .. Len(p) : p[i] = q[i]
  BY LenProperties, AppendProperties
<1> HIDE DEF q
<1>2. PICK f : Track(f, h, n, p) /\ Walk(h, n, p) = f[Len(p)]
  BY <1>1, WalkTrack
<1>3. PICK g : Track(g, h, n, q) /\ Walk(h, n, q) = g[Len(q)]
  <2>1. Len(q) \in Nat
    BY <1>1
  <2> QED
    BY <2>1, WalkTrack
<1>4. f[Len(p)] = g[Len(p)]
  BY <1>1, <1>2, <1>3, TracksAgree
<1>5. g[Len(q)] = Kid(h, g[Len(q) - 1], q[Len(q)])
  <2>1. Len(q) \in Nat /\ Len(q) \in 1 .. Len(q)
    BY <1>1
  <2> QED
    BY <1>3, <2>1, TrackIs
<1>6. g[Len(q) - 1] = g[Len(p)]
  BY <1>1
<1> QED
  BY <1>1, <1>2, <1>3, <1>4, <1>5, <1>6 DEF q

LEMMA WalkFromNowhere ==
  ASSUME NEW h, NEW p \in Seq(Seg)
  PROVE  Walk(h, NoNode, p) = NoNode
<1> DEFINE X == {q \in Seq(Seg) : Walk(h, NoNode, q) = NoNode}
<1>1. << >> \in X
  BY WalkEmpty, EmptySeq
<1>2. ASSUME NEW q \in X, NEW s \in Seg PROVE Append(q, s) \in X
  BY WalkAppend, AppendProperties DEF Kid
<1> HIDE DEF X
<1>3. X = Seq(Seg)
  <2>1. X \subseteq Seq(Seg)
    BY DEF X
  <2> QED
    BY <1>1, <1>2, <2>1, SequencesAreBuilt
<1> QED
  BY <1>3 DEF X

LEMMA WalkConcat ==
  ASSUME NEW h, NEW n, NEW p \in Seq(Seg), NEW q \in Seq(Seg)
  PROVE  Walk(h, n, p \o q) = Walk(h, Walk(h, n, p), q)
<1> DEFINE X == {f \in Seq(Seg) : Walk(h, n, p \o f) = Walk(h, Walk(h, n, p), f)}
<1>1. << >> \in X
  BY WalkEmpty, EmptySeq, ConcatEmptySeq
<1>2. ASSUME NEW f \in X, NEW s \in Seg PROVE Append(f, s) \in X
  <2>1. p \o Append(f, s) = Append(p \o f, s) /\ p \o f \in Seq(Seg) /\ Append(f, s) \in Seq(Seg)
    <3>1. f \in Seq(Seg) /\ <<s>> \in Seq(Seg) /\ p \o f \in Seq(Seg)
      BY ConcatProperties
    <3>2. Append(f, s) = f \o <<s>> /\ Append(p \o f, s) = (p \o f) \o <<s>>
      BY <3>1, AppendIsConcat
    <3> QED
      BY <3>1, <3>2, ConcatAssociative, AppendProperties
  <2>2. Walk(h, n, Append(p \o f, s)) = Kid(h, Walk(h, n, p \o f), s)
    BY <2>1, WalkAppend
  <2>3. Walk(h, Walk(h, n, p), Append(f, s)) = Kid(h, Walk(h, Walk(h, n, p), f), s)
    BY WalkAppend
  <2> QED
    BY <2>1, <2>2, <2>3
<1> HIDE DEF X
<1>3. X = Seq(Seg)
  <2>1. X \subseteq Seq(Seg)
    BY DEF X
  <2> QED
    BY <1>1, <1>2, <2>1, SequencesAreBuilt
<1> QED
  BY <1>3 DEF X

-------------------------------------------------------------------------------
(* The shape of the trie. *)

Cells == [kids : [Seg -> Node \cup {NoNode}], target : Target \cup {NilTarget}]

\* A child is made for one segment more, and a target hangs at a prefix.
HeapOK(h) ==
  /\ h \in [Node -> Cells]
  /\ \A n \in Node, s \in Seg : h[n].kids[s] # NoNode => h[n].kids[s][1] = Append(n[1], s)
  /\ \A n \in Node : h[n].target # NilTarget => n[1] \in Prefixes

LEMMA StemsAreSeqs == Stems \subseteq Seq(Seg) /\ Fragments \subseteq Seq(Seg)
<1>1. ASSUME NEW p \in Prefixes, NEW i \in 1 .. Len(p), NEW j \in 1 .. Len(p)
      PROVE  SubSeq(p, i, j) \in Seq(Seg)
  <2>1. p \in Seq(Seg) /\ Len(p) \in Nat
    BY RouterAssumption, LenProperties
  <2>2. \A k \in i .. j : p[k] \in Seg
    BY <2>1, ElementOfSeq
  <2> QED
    BY <2>1, <2>2, SubSeqProperties
<1>2. ASSUME NEW p \in Prefixes, NEW j \in 1 .. Len(p) PROVE SubSeq(p, 1, j) \in Seq(Seg)
  <2>1. Len(p) \in Nat
    BY RouterAssumption, LenProperties
  <2>2. 1 \in 1 .. Len(p)
    BY <2>1
  <2> QED
    BY <1>1, <2>2
<1>3. ASSUME NEW f \in Stems PROVE f \in Seq(Seg)
  <2>1. CASE f = << >>
    BY <2>1, EmptySeq
  <2>2. CASE f # << >>
    <3>1. PICK p \in Prefixes : f \in {SubSeq(p, 1, j) : j \in 1 .. Len(p)}
      BY <2>2 DEF Stems
    <3> QED
      BY <1>2, <3>1
  <2> QED
    BY <2>1, <2>2
<1>4. ASSUME NEW f \in Fragments PROVE f \in Seq(Seg)
  <2>1. CASE f = << >>
    BY <2>1, EmptySeq
  <2>2. CASE f # << >>
    <3>1. PICK p \in Prefixes : f \in {SubSeq(p, i, j) : i \in 1 .. Len(p), j \in 1 .. Len(p)}
      BY <2>2 DEF Fragments
    <3>2. PICK i \in 1 .. Len(p), j \in 1 .. Len(p) : f = SubSeq(p, i, j)
      BY <3>1
    <3> QED
      BY <1>1, <3>2, Zenon
  <2> QED
    BY <2>1, <2>2
<1> QED
  BY <1>3, <1>4

LEMMA NodesAre ==
  /\ NoNode \notin Node
  /\ \A n \in Node : n[1] \in Stems /\ n[1] \in Seq(Seg) /\ n[2] \in 1 .. Version /\ n = <<n[1], n[2]>>
  /\ \A st \in Stems, v \in 1 .. Version : <<st, v>> \in Node
<1>1. Version \in Nat
  BY RouterAssumption
<1>2. \A n \in Node : n[1] \in Stems /\ n[1] \in Seq(Seg) /\ n[2] \in 1 .. Version /\ n = <<n[1], n[2]>>
  BY StemsAreSeqs DEF Node
<1>3. Node \subseteq Seq(Seg) \X Nat
  BY <1>1, StemsAreSeqs DEF Node
<1> QED
  BY <1>2, <1>3, RouterAssumption DEF Node

LEMMA RestIsFragment ==
  ASSUME NEW st \in Seq(Seg), NEW f \in Seq(Seg), st \o f \in Stems
  PROVE  f \in Fragments
<1>1. Len(st) \in Nat /\ Len(f) \in Nat /\ Len(st \o f) = Len(st) + Len(f)
      /\ \A i \in 1 .. Len(st) + Len(f) :
           (st \o f)[i] = IF i <= Len(st) THEN st[i] ELSE f[i - Len(st)]
  BY LenProperties, ConcatProperties
<1>2. CASE Len(f) = 0
  <2>1. f = << >>
    BY <1>2
  <2> QED
    BY <2>1 DEF Fragments
<1>3. CASE Len(f) # 0
  <2>1. st \o f # << >>
    BY <1>1, <1>3
  <2>2. PICK p \in Prefixes : \E k \in 1 .. Len(p) : st \o f = SubSeq(p, 1, k)
    BY <2>1 DEF Stems
  <2>3. PICK k \in 1 .. Len(p) : st \o f = SubSeq(p, 1, k)
    BY <2>2
  <2>4. p \in Seq(Seg) /\ Len(p) \in Nat /\ \A i \in 1 .. Len(p) : p[i] \in Seg
    BY RouterAssumption, LenProperties, ElementOfSeq
  <2>5. Len(SubSeq(p, 1, k)) = k /\ \A i \in 1 .. k : SubSeq(p, 1, k)[i] = p[i]
    <3>1. \A i \in 1 .. k : p[i] \in Seg
      BY <2>4
    <3>2. 1 \in Int /\ k \in Int
      OBVIOUS
    <3>3. /\ Len(SubSeq(p, 1, k)) = IF 1 <= k THEN k - 1 + 1 ELSE 0
          /\ \A i \in 1 .. k - 1 + 1 : SubSeq(p, 1, k)[i] = p[1 + i - 1]
      BY <3>1, <3>2, SubSeqProperties
    <3> QED
      BY <2>3, <2>4, <3>3
  <2>6. k = Len(st) + Len(f)
    BY <1>1, <2>3, <2>5
  <2> DEFINE m == Len(st) + 1
             g == SubSeq(p, m, k)
  <2>7. m \in 1 .. Len(p) /\ m <= k /\ k - m + 1 = Len(f)
    BY <1>1, <1>3, <2>3, <2>4, <2>6
  <2>8. g \in Seq(Seg) /\ Len(g) = Len(f) /\ \A i \in 1 .. Len(f) : g[i] = p[m + i - 1]
    <3>1. \A i \in m .. k : p[i] \in Seg
      BY <2>3, <2>4, <2>7
    <3>2. m \in Int /\ k \in Int
      BY <2>7
    <3> HIDE DEF m
    <3>3. /\ g \in Seq(Seg)
          /\ Len(g) = IF m <= k THEN k - m + 1 ELSE 0
          /\ \A i \in 1 .. k - m + 1 : g[i] = p[m + i - 1]
      BY <3>1, <3>2, SubSeqProperties
    <3> QED
      BY <2>7, <3>3
  <2>9. \A i \in 1 .. Len(f) : f[i] = p[m + i - 1]
    <3>1. ASSUME NEW i \in 1 .. Len(f) PROVE f[i] = p[m + i - 1]
      <4>1. /\ Len(st) + i \in 1 .. Len(st) + Len(f) /\ ~(Len(st) + i <= Len(st))
            /\ Len(st) + i - Len(st) = i /\ m + i - 1 = Len(st) + i /\ Len(st) + i \in 1 .. k
        BY <1>1, <2>6
      <4>2. (st \o f)[Len(st) + i] = f[i]
        BY <1>1, <4>1
      <4>3. SubSeq(p, 1, k)[Len(st) + i] = p[Len(st) + i]
        BY <2>5, <4>1
      <4> QED
        BY <2>3, <4>1, <4>2, <4>3
    <3> QED
      BY <3>1
  <2>10. f = g
    <3> HIDE DEF g, m
    <3>1. Len(f) = Len(g) /\ \A i \in 1 .. Len(f) : f[i] = g[i]
      BY <2>8, <2>9
    <3> QED
      BY <2>8, <3>1, SeqEqual
  <2> QED
    BY <2>3, <2>7, <2>10 DEF Fragments
<1> QED
  BY <1>2, <1>3

LEMMA PrefixesAreStems ==
  ASSUME NEW p \in Prefixes
  PROVE  p \in Seq(Seg) /\ p \in Stems /\ p \in Fragments
<1>1. p \in Seq(Seg) /\ Len(p) \in Nat
  BY RouterAssumption, LenProperties
<1>2. p \in Stems
  <2>1. CASE p = << >>
    BY <2>1 DEF Stems
  <2>2. CASE p # << >>
    <3>1. Len(p) \in 1 .. Len(p)
      BY <1>1, <2>2
    <3>2. p = SubSeq(p, 1, Len(p))
      BY <1>1, SubSeqFull
    <3>3. SubSeq(p, 1, Len(p)) \in {SubSeq(p, 1, i) : i \in 1 .. Len(p)}
      BY <3>1
    <3>4. p \in {SubSeq(p, 1, i) : i \in 1 .. Len(p)}
      BY <3>2, <3>3, Zenon
    <3> QED
      BY <3>4, Zenon DEF Stems
  <2> QED
    BY <2>1, <2>2
<1>3. << >> \o p \in Stems /\ << >> \in Seq(Seg)
  BY <1>1, <1>2, ConcatEmptySeq, EmptySeq
<1> QED
  BY <1>1, <1>2, <1>3, RestIsFragment

\* A walk leads to the node made for the path so far.
LEMMA WalkLeads ==
  ASSUME NEW h, HeapOK(h), NEW n \in Node, NEW p \in Seq(Seg)
  PROVE  /\ Walk(h, n, p) \in Node \cup {NoNode}
         /\ Walk(h, n, p) # NoNode => Walk(h, n, p)[1] = n[1] \o p
<1> DEFINE X == {q \in Seq(Seg) : /\ Walk(h, n, q) \in Node \cup {NoNode}
                                  /\ Walk(h, n, q) # NoNode => Walk(h, n, q)[1] = n[1] \o q}
<1>1. << >> \in X
  BY WalkEmpty, EmptySeq, ConcatEmptySeq, NodesAre
<1>2. ASSUME NEW q \in X, NEW s \in Seg PROVE Append(q, s) \in X
  <2> DEFINE m == Walk(h, n, q)
             k == Walk(h, n, Append(q, s))
  <2>1. k = Kid(h, m, s) /\ Append(q, s) \in Seq(Seg)
    BY WalkAppend, AppendProperties
  <2>2. m \in Node \cup {NoNode} /\ (m # NoNode => m[1] = n[1] \o q)
    OBVIOUS
  <2> HIDE DEF m, k
  <2>3. CASE m = NoNode
    <3>1. k = NoNode
      BY <2>1, <2>3 DEF Kid
    <3> QED
      BY <2>1, <3>1 DEF k
  <2>4. CASE m # NoNode
    <3>1. m \in Node /\ k = h[m].kids[s]
      BY <2>1, <2>2, <2>4 DEF Kid
    <3>2. k \in Node \cup {NoNode}
      BY <3>1 DEF HeapOK, Cells
    <3>3. k # NoNode => k[1] = Append(n[1] \o q, s)
      BY <2>2, <2>4, <3>1 DEF HeapOK
    <3>4. Append(n[1] \o q, s) = n[1] \o Append(q, s)
      <4>1. q \in Seq(Seg) /\ <<s>> \in Seq(Seg) /\ n[1] \in Seq(Seg) /\ n[1] \o q \in Seq(Seg)
        BY NodesAre, ConcatProperties
      <4>2. Append(q, s) = q \o <<s>> /\ Append(n[1] \o q, s) = (n[1] \o q) \o <<s>>
        BY <4>1, AppendIsConcat
      <4>3. (n[1] \o q) \o <<s>> = n[1] \o (q \o <<s>>)
        <5> DEFINE a == n[1]
                   e == <<s>>
        <5>1. a \in Seq(Seg) /\ e \in Seq(Seg) /\ q \in Seq(Seg)
          BY <4>1
        <5> HIDE DEF a, e
        <5>2. (a \o q) \o e = a \o (q \o e)
          BY <5>1, ConcatAssociative
        <5> QED
          BY <5>2 DEF a, e
      <4> QED
        BY <4>2, <4>3, Zenon
    <3> QED
      BY <2>1, <3>2, <3>3, <3>4 DEF k
  <2> QED
    BY <2>3, <2>4
<1> HIDE DEF X
<1>3. X = Seq(Seg)
  <2>1. X \subseteq Seq(Seg)
    BY DEF X
  <2> QED
    BY <1>1, <1>2, <2>1, SequencesAreBuilt
<1> QED
  BY <1>3 DEF X

\* What is below a node is all that walks from it reach.
LEMMA BelowIs ==
  ASSUME NEW h, HeapOK(h), NEW n \in Node, NEW p \in Seq(Seg)
  PROVE  Walk(h, n, p) \in Below(h, n) \cup {NoNode}
<1>1. CASE Walk(h, n, p) = NoNode
  BY <1>1
<1>2. CASE Walk(h, n, p) # NoNode
  <2>1. Walk(h, n, p) \in Node /\ Walk(h, n, p)[1] = n[1] \o p
    BY <1>2, WalkLeads
  <2>2. n[1] \o p \in Stems /\ n[1] \in Seq(Seg)
    BY <2>1, NodesAre
  <2>3. p \in Fragments
    BY <2>2, RestIsFragment
  <2> QED
    BY <1>2, <2>3 DEF Below
<1> QED
  BY <1>1, <1>2

LEMMA BelowHas ==
  ASSUME NEW h, HeapOK(h), NEW n \in Node
  PROVE  /\ Below(h, n) \subseteq Node /\ n \in Below(h, n)
         /\ \A m \in Below(h, n), s \in Seg : h[m].kids[s] # NoNode => h[m].kids[s] \in Below(h, n)
         /\ \A m \in Below(h, n) : \E p \in Seq(Seg) : m = Walk(h, n, p)
<1>1. \A m \in Below(h, n) : m # NoNode /\ \E p \in Seq(Seg) : m = Walk(h, n, p)
  BY StemsAreSeqs DEF Below
<1>2. Below(h, n) \subseteq Node
  BY <1>1, WalkLeads
<1>3. n \in Below(h, n)
  <2>1. << >> \in Seq(Seg)
    BY EmptySeq
  <2>2. Walk(h, n, << >>) \in Below(h, n) \cup {NoNode}
    BY <2>1, BelowIs
  <2>3. Walk(h, n, << >>) = n /\ n # NoNode
    BY WalkEmpty, NodesAre
  <2> QED
    BY <2>2, <2>3
<1>4. ASSUME NEW m \in Below(h, n), NEW s \in Seg, h[m].kids[s] # NoNode
      PROVE  h[m].kids[s] \in Below(h, n)
  <2>1. PICK p \in Seq(Seg) : m = Walk(h, n, p)
    BY <1>1
  <2>2. Walk(h, n, Append(p, s)) = h[m].kids[s] /\ Append(p, s) \in Seq(Seg)
    BY <1>1, <2>1, WalkAppend, AppendProperties DEF Kid
  <2> QED
    BY <1>4, <2>2, BelowIs
<1> QED
  BY <1>1, <1>2, <1>3, <1>4

\* A set that children do not leave has all that is below its members.
LEMMA BelowStays ==
  ASSUME NEW h, NEW n, NEW C, n \in C, NoNode \notin C,
         \A m \in C, s \in Seg : h[m].kids[s] \in C \cup {NoNode}
  PROVE  Below(h, n) \subseteq C /\ \A p \in Seq(Seg) : Walk(h, n, p) \in C \cup {NoNode}
<1> DEFINE X == {q \in Seq(Seg) : Walk(h, n, q) \in C \cup {NoNode}}
<1>1. << >> \in X
  BY WalkEmpty, EmptySeq
<1>2. ASSUME NEW q \in X, NEW s \in Seg PROVE Append(q, s) \in X
  <2>1. Walk(h, n, Append(q, s)) = Kid(h, Walk(h, n, q), s) /\ Append(q, s) \in Seq(Seg)
    BY WalkAppend, AppendProperties
  <2> QED
    BY <2>1 DEF Kid
<1> HIDE DEF X
<1>3. X = Seq(Seg)
  <2>1. X \subseteq Seq(Seg)
    BY DEF X
  <2> QED
    BY <1>1, <1>2, <2>1, SequencesAreBuilt
<1>4. \A p \in Seq(Seg) : Walk(h, n, p) \in C \cup {NoNode}
  BY <1>3 DEF X
<1> QED
  BY <1>4, StemsAreSeqs DEF Below

\* Heaps that have the same nodes below a node are the same to who walks from it.
LEMMA WalkUnchanged ==
  ASSUME NEW h, HeapOK(h), NEW g, NEW n \in Node, \A m \in Below(h, n) : g[m] = h[m]
  PROVE  Below(g, n) = Below(h, n) /\ \A p \in Seq(Seg) : Walk(g, n, p) = Walk(h, n, p)
<1> DEFINE X == {q \in Seq(Seg) : Walk(g, n, q) = Walk(h, n, q)}
<1>1. << >> \in X
  BY WalkEmpty, EmptySeq
<1>2. ASSUME NEW q \in X, NEW s \in Seg PROVE Append(q, s) \in X
  <2>1. /\ Walk(h, n, Append(q, s)) = Kid(h, Walk(h, n, q), s)
        /\ Walk(g, n, Append(q, s)) = Kid(g, Walk(h, n, q), s) /\ Append(q, s) \in Seq(Seg)
    BY WalkAppend, AppendProperties
  <2>2. Walk(h, n, q) \in Below(h, n) \cup {NoNode}
    BY BelowIs
  <2> QED
    BY <2>1, <2>2 DEF Kid
<1> HIDE DEF X
<1>3. X = Seq(Seg)
  <2>1. X \subseteq Seq(Seg)
    BY DEF X
  <2> QED
    BY <1>1, <1>2, <2>1, SequencesAreBuilt
<1>4. \A p \in Seq(Seg) : Walk(g, n, p) = Walk(h, n, p)
  BY <1>3 DEF X
<1> QED
  BY <1>4, StemsAreSeqs DEF Below

-------------------------------------------------------------------------------
(* The inductive invariant. *)

Lookups ==
  [pc : {"idle", "walk", "done"}, path : Paths \cup {<< >>}, at : Node \cup {NoNode}, depth : Nat,
   best : [target : Target \cup {NilTarget}, depth : Nat],
   seen : [Prefixes -> Target \cup {NilTarget}]]

Writers ==
  [pc : {"idle", "add", "remove"}, prefix : Prefixes \cup {<< >>},
   target : Target \cup {NilTarget}, path : Seq(Node)]

\* What a walk finds at m: nothing hangs where there is no node.
Cell(h, m) == IF m = NoNode THEN Blank ELSE h[m]

\* The first n segments of path are a prefix with a route in tab.
Hit(tab, path, n) == SubSeq(path, 1, n) \in Prefixes /\ tab[SubSeq(path, 1, n)] # NilTarget

\* best is the longest hit of the first d segments.
IsBest(tab, path, d, best) ==
  \/ best = NoMatch /\ \A n \in 0 .. d : ~Hit(tab, path, n)
  \/ /\ best.depth \in 0 .. d /\ Hit(tab, path, best.depth)
     /\ best.target = tab[SubSeq(path, 1, best.depth)]
     /\ \A n \in best.depth + 1 .. d : ~Hit(tab, path, n)

\* A lookup on its way is at the node of the segments it has passed, sees below it what
\* the table had below them when it loaded the root, and has the best of what it passed.
LookSound(l, h) ==
  /\ l.best.depth <= Len(l.path)
  /\ l.pc # "walk" => l.at = NoNode
  /\ l.pc = "walk" =>
       /\ l.at # NoNode /\ l.depth <= Len(l.path) /\ l.at[1] = SubSeq(l.path, 1, l.depth)
       /\ \A f \in Fragments :
            l.at[1] \o f \in Prefixes => l.seen[l.at[1] \o f] = Cell(h, Walk(h, l.at, f)).target
       /\ IsBest(l.seen, l.path, l.depth, l.best)
  /\ l.pc = "done" => IsBest(l.seen, l.path, Len(l.path), l.best)

\* A writer has a path of new nodes that no lookup can reach.
PathSound(wr, live) ==
  /\ wr.pc = "idle" <=> wr.path = << >>
  /\ wr.pc # "idle" =>
       /\ wr.prefix \in Prefixes /\ Len(wr.path) \in 1 .. Len(wr.prefix) + 1
       /\ wr.pc = "add" => wr.target # NilTarget
       /\ \A i \in 1 .. Len(wr.path) :
            wr.path[i][1] = SubSeq(wr.prefix, 1, i - 1) /\ wr.path[i] \notin live

\* Each is a copy of the node the root has there, or empty, but for the next of them.
Original(h, rt, wr, i) == Walk(h, rt, SubSeq(wr.prefix, 1, i - 1))
CopyAt(h, rt, wr, i) ==
  /\ h[wr.path[i]].target = Cell(h, Original(h, rt, wr, i)).target
  /\ \A s \in Seg : h[wr.path[i]].kids[s] =
       IF i < Len(wr.path) /\ s = wr.prefix[i] THEN wr.path[i + 1]
       ELSE Cell(h, Original(h, rt, wr, i)).kids[s]
  /\ wr.pc = "remove" => Original(h, rt, wr, i) # NoNode

Alive(h, rt) == \A n \in Below(h, rt) \ {rt} : h[n] # Blank

TrieInv ==
  /\ HeapOK(heap) /\ Alive(heap, root)
  /\ root \in Node /\ root[1] = << >>
  /\ writer \in Writers /\ PathSound(writer, Live(heap, root, Idle, look))
  /\ \A i \in 1 .. Len(writer.path) : CopyAt(heap, root, writer, i)
  /\ look \in [Reader -> Lookups]
  /\ \A r \in Reader : LookSound(look[r], heap)

LEMMA BlankIs ==
  Blank \in Cells /\ Blank.target = NilTarget /\ \A s \in Seg : Blank.kids[s] = NoNode
BY DEF Blank, NoKids, Cells

LEMMA CellIs ==
  ASSUME NEW h, HeapOK(h), NEW n \in Node \cup {NoNode}
  PROVE  /\ Cell(h, n) \in Cells
         /\ \A s \in Seg : /\ Kid(h, n, s) = Cell(h, n).kids[s]
                           /\ Cell(h, n).kids[s] \in Node \cup {NoNode}
         /\ n \in Node => Cell(h, n) = h[n]
<1>1. CASE n = NoNode
  BY <1>1, BlankIs, NodesAre DEF Cell, Kid
<1>2. CASE n # NoNode
  <2>1. n \in Node /\ Cell(h, n) = h[n] /\ h[n] \in Cells
    BY <1>2 DEF Cell, HeapOK
  <2>2. \A s \in Seg : Kid(h, n, s) = h[n].kids[s]
    BY <1>2 DEF Kid
  <2>3. \A s \in Seg : h[n].kids[s] \in Node \cup {NoNode}
    BY <2>1 DEF Cells
  <2> QED
    BY <2>1, <2>2, <2>3
<1> QED
  BY <1>1, <1>2

\* Whose nodes are live.
LEMMA LiveIs ==
  ASSUME NEW h, NEW rt, NEW wr, NEW l, NEW m
  PROVE  m \in Live(h, rt, wr, l) <=>
           \/ m \in Below(h, rt)
           \/ wr.path # << >> /\ m \in Below(h, wr.path[1])
           \/ \E r \in Reader : l[r].at # NoNode /\ m \in Below(h, l[r].at)
<1>1. m \in UNION {IF l[r].at = NoNode THEN {} ELSE Below(h, l[r].at) : r \in Reader}
        <=> \E r \in Reader : l[r].at # NoNode /\ m \in Below(h, l[r].at)
  OBVIOUS
<1>2. m \in (IF wr.path = << >> THEN {} ELSE Below(h, wr.path[1]))
        <=> wr.path # << >> /\ m \in Below(h, wr.path[1])
  OBVIOUS
<1> QED
  BY <1>1, <1>2 DEF Live

LEMMA IdleIs == Idle.path = << >> /\ Idle.pc = "idle" /\ Idle \in Writers
<1>1. << >> \in Seq(Node)
  BY EmptySeq
<1> QED
  BY <1>1 DEF Idle, Writers

LEMMA LiveUnchanged ==
  ASSUME NEW h, HeapOK(h), NEW rt \in Node, NEW wr, wr.path = << >> \/ wr.path[1] \in Node,
         NEW l, \A r \in Reader : l[r].at \in Node \cup {NoNode},
         NEW g, \A m \in Live(h, rt, wr, l) : g[m] = h[m]
  PROVE  /\ Live(g, rt, wr, l) = Live(h, rt, wr, l) /\ Live(h, rt, wr, l) \subseteq Node
         /\ Live(h, rt, Idle, l) \subseteq Live(h, rt, wr, l)
         /\ \A m \in Below(h, rt) : g[m] = h[m]
         /\ \A r \in Reader : l[r].at # NoNode => \A m \in Below(h, l[r].at) : g[m] = h[m]
         /\ wr.path # << >> => \A m \in Below(h, wr.path[1]) : g[m] = h[m]
<1>1. \A m \in Below(h, rt) : g[m] = h[m]
  BY LiveIs
<1>2. ASSUME NEW r \in Reader, l[r].at # NoNode, NEW m \in Below(h, l[r].at) PROVE g[m] = h[m]
  BY <1>2, LiveIs
<1>3. ASSUME wr.path # << >>, NEW m \in Below(h, wr.path[1]) PROVE g[m] = h[m]
  BY <1>3, LiveIs
<1>4. Below(g, rt) = Below(h, rt) /\ Below(h, rt) \subseteq Node
  BY <1>1, WalkUnchanged, BelowHas
<1>5. ASSUME NEW r \in Reader, l[r].at # NoNode
      PROVE  Below(g, l[r].at) = Below(h, l[r].at) /\ Below(h, l[r].at) \subseteq Node
  <2>1. l[r].at \in Node /\ \A m \in Below(h, l[r].at) : g[m] = h[m]
    BY <1>2, <1>5
  <2> QED
    BY <2>1, WalkUnchanged, BelowHas
<1>6. ASSUME wr.path # << >>
      PROVE  Below(g, wr.path[1]) = Below(h, wr.path[1]) /\ Below(h, wr.path[1]) \subseteq Node
  <2>1. wr.path[1] \in Node /\ \A m \in Below(h, wr.path[1]) : g[m] = h[m]
    BY <1>3, <1>6
  <2> QED
    BY <2>1, WalkUnchanged, BelowHas
<1>7. ASSUME NEW m PROVE m \in Live(g, rt, wr, l) <=> m \in Live(h, rt, wr, l)
  BY <1>4, <1>5, <1>6, LiveIs
<1>8. ASSUME NEW m \in Live(h, rt, wr, l) PROVE m \in Node
  BY <1>4, <1>5, <1>6, LiveIs
<1>9. ASSUME NEW m \in Live(h, rt, Idle, l) PROVE m \in Live(h, rt, wr, l)
  BY IdleIs, LiveIs
<1> QED
  BY <1>1, <1>2, <1>3, <1>7, <1>8, <1>9

\* A collection leaves the live nodes alone.
LEMMA CollectedKeeps ==
  ASSUME NEW h, HeapOK(h), NEW rt \in Node, NEW wr, wr.path = << >> \/ wr.path[1] \in Node,
         NEW l, \A r \in Reader : l[r].at \in Node \cup {NoNode},
         NEW g, g = Collected(h, rt, wr, l)
  PROVE  HeapOK(g) /\ \A m \in Live(h, rt, wr, l) : g[m] = h[m]
<1>1. Live(h, rt, wr, l) \subseteq Node
  BY LiveUnchanged
<1>2. g = [n \in Node |-> IF n \in Live(h, rt, wr, l) THEN h[n] ELSE Blank]
  BY DEF Collected
<1>3. \A n \in Node : g[n] = h[n] \/ g[n] = Blank
  BY <1>2
<1>4. g \in [Node -> Cells]
  <2>1. \A n \in Node : h[n] \in Cells
    BY DEF HeapOK
  <2> QED
    BY <1>2, <2>1, BlankIs
<1>5. ASSUME NEW n \in Node, NEW s \in Seg, g[n].kids[s] # NoNode
      PROVE  g[n].kids[s][1] = Append(n[1], s)
  BY <1>3, <1>5, BlankIs DEF HeapOK
<1>6. ASSUME NEW n \in Node, g[n].target # NilTarget PROVE n[1] \in Prefixes
  BY <1>3, <1>6, BlankIs DEF HeapOK
<1> QED
  BY <1>1, <1>2, <1>4, <1>5, <1>6 DEF HeapOK

LEMMA LookKeeps ==
  ASSUME NEW h, HeapOK(h), NEW g, NEW l \in Lookups, LookSound(l, h),
         l.at # NoNode => \A m \in Below(h, l.at) : g[m] = h[m]
  PROVE  LookSound(l, g)
<1>1. CASE l.pc # "walk"
  BY <1>1 DEF LookSound
<1>2. CASE l.pc = "walk"
  <2>1. l.at \in Node /\ \A m \in Below(h, l.at) : g[m] = h[m]
    BY <1>2 DEF LookSound, Lookups
  <2>2. ASSUME NEW f \in Fragments
        PROVE  Cell(g, Walk(g, l.at, f)) = Cell(h, Walk(h, l.at, f))
    <3>1. f \in Seq(Seg)
      BY StemsAreSeqs
    <3>2. Walk(g, l.at, f) = Walk(h, l.at, f) /\ Walk(h, l.at, f) \in Below(h, l.at) \cup {NoNode}
      BY <2>1, <3>1, WalkUnchanged, BelowIs
    <3> QED
      BY <2>1, <3>2 DEF Cell
  <2>3. \A f \in Fragments :
          l.at[1] \o f \in Prefixes => l.seen[l.at[1] \o f] = Cell(g, Walk(g, l.at, f)).target
    BY <1>2, <2>2 DEF LookSound
  <2> QED
    BY <1>2, <2>3 DEF LookSound
<1> QED
  BY <1>1, <1>2

LEMMA AliveKeeps ==
  ASSUME NEW h, HeapOK(h), NEW rt \in Node, Alive(h, rt), NEW g, \A m \in Below(h, rt) : g[m] = h[m]
  PROVE  Alive(g, rt)
BY WalkUnchanged DEF Alive

LEMMA CopyKeeps ==
  ASSUME NEW h, HeapOK(h), NEW rt \in Node, NEW g, \A m \in Below(h, rt) : g[m] = h[m],
         NEW wr, NEW i, SubSeq(wr.prefix, 1, i - 1) \in Seq(Seg), g[wr.path[i]] = h[wr.path[i]],
         CopyAt(h, rt, wr, i)
  PROVE  CopyAt(g, rt, wr, i)
<1>1. Original(g, rt, wr, i) = Original(h, rt, wr, i)
      /\ Original(h, rt, wr, i) \in Below(h, rt) \cup {NoNode}
  BY WalkUnchanged, BelowIs DEF Original
<1>2. Cell(g, Original(h, rt, wr, i)) = Cell(h, Original(h, rt, wr, i))
  BY <1>1 DEF Cell
<1> QED
  BY <1>1, <1>2 DEF CopyAt

LEMMA PrefixPart ==
  ASSUME NEW p \in Seq(Seg), NEW k \in 0 .. Len(p)
  PROVE  /\ SubSeq(p, 1, k) \in Seq(Seg) /\ Len(SubSeq(p, 1, k)) = k
         /\ \A i \in 1 .. k : SubSeq(p, 1, k)[i] = p[i]
         /\ k < Len(p) => /\ p[k + 1] \in Seg
                          /\ SubSeq(p, 1, k + 1) = Append(SubSeq(p, 1, k), p[k + 1])
<1>1. Len(p) \in Nat /\ \A i \in 1 .. Len(p) : p[i] \in Seg
  BY LenProperties, ElementOfSeq
<1>2. ASSUME NEW j \in 0 .. Len(p)
      PROVE  /\ SubSeq(p, 1, j) \in Seq(Seg) /\ Len(SubSeq(p, 1, j)) = j
             /\ \A i \in 1 .. j : SubSeq(p, 1, j)[i] = p[i]
  <2>1. \A i \in 1 .. j : p[i] \in Seg
    BY <1>1
  <2>2. 1 \in Int /\ j \in Int
    BY <1>1
  <2>3. /\ SubSeq(p, 1, j) \in Seq(Seg)
        /\ Len(SubSeq(p, 1, j)) = IF 1 <= j THEN j - 1 + 1 ELSE 0
        /\ \A i \in 1 .. j - 1 + 1 : SubSeq(p, 1, j)[i] = p[1 + i - 1]
    BY <2>1, <2>2, SubSeqProperties
  <2>4. Len(SubSeq(p, 1, j)) = j
    BY <1>1, <2>3
  <2>5. \A i \in 1 .. j : SubSeq(p, 1, j)[i] = p[i]
    BY <1>1, <2>3
  <2> QED
    BY <2>3, <2>4, <2>5
<1>3. ASSUME k < Len(p)
      PROVE  p[k + 1] \in Seg /\ SubSeq(p, 1, k + 1) = Append(SubSeq(p, 1, k), p[k + 1])
  <2> DEFINE a == SubSeq(p, 1, k)
             b == SubSeq(p, 1, k + 1)
             c == Append(a, p[k + 1])
  <2>1. k + 1 \in 0 .. Len(p) /\ p[k + 1] \in Seg
    BY <1>1, <1>3
  <2>2. a \in Seq(Seg) /\ Len(a) = k /\ \A i \in 1 .. k : a[i] = p[i]
    BY <1>2
  <2>3. b \in Seq(Seg) /\ Len(b) = k + 1 /\ \A i \in 1 .. k + 1 : b[i] = p[i]
    BY <1>2, <2>1
  <2> HIDE DEF a, b
  <2>4. c \in Seq(Seg) /\ Len(c) = k + 1 /\ c[k + 1] = p[k + 1] /\ \A i \in 1 .. k : c[i] = a[i]
    BY <2>1, <2>2, AppendProperties
  <2> HIDE DEF c
  <2>5. \A i \in 1 .. k + 1 : b[i] = c[i]
    BY <1>1, <2>2, <2>3, <2>4
  <2>6. b = c
    BY <2>3, <2>4, <2>5, SeqEqual
  <2> QED
    BY <2>1, <2>6 DEF a, b, c
<1> QED
  BY <1>2, <1>3

LEMMA NoSegments ==
  ASSUME NEW p
  PROVE  SubSeq(p, 1, 0) = << >>
BY SubSeqEmpty

\* The path of the writer: new nodes, each at its own depth.
LEMMA PathIs ==
  ASSUME TrieInv, writer.pc # "idle"
  PROVE  /\ Len(writer.path) \in Nat /\ Len(writer.path) >= 1
         /\ Len(writer.path) <= Len(writer.prefix) + 1
         /\ writer.prefix \in Prefixes /\ writer.prefix \in Seq(Seg) /\ Len(writer.prefix) \in Nat
         /\ writer.path \in Seq(Node) /\ writer.path # << >>
         /\ \A i \in 1 .. Len(writer.path) :
              /\ writer.path[i] \in Node
              /\ writer.path[i][1] = SubSeq(writer.prefix, 1, i - 1)
              /\ SubSeq(writer.prefix, 1, i - 1) \in Seq(Seg)
              /\ writer.path[i] \notin Live(heap, root, Idle, look)
              /\ i - 1 \in 0 .. Len(writer.prefix)
         /\ \A i \in 1 .. Len(writer.path), j \in 1 .. Len(writer.path) :
              i # j => writer.path[i] # writer.path[j]
<1> DEFINE k == Len(writer.path)
           p == writer.prefix
<1>1. writer.path \in Seq(Node) /\ k \in Nat /\ p \in Prefixes /\ k \in 1 .. Len(p) + 1
  BY LenProperties DEF TrieInv, PathSound, Writers
<1>2. p \in Seq(Seg) /\ Len(p) \in Nat
  BY <1>1, PrefixesAreStems, LenProperties
<1>3. ASSUME NEW i \in 1 .. k
      PROVE  /\ writer.path[i] \in Node /\ writer.path[i][1] = SubSeq(p, 1, i - 1)
             /\ SubSeq(p, 1, i - 1) \in Seq(Seg) /\ Len(SubSeq(p, 1, i - 1)) = i - 1
             /\ writer.path[i] \notin Live(heap, root, Idle, look) /\ i - 1 \in 0 .. Len(p)
  <2>1. writer.path[i] \in Node
    BY <1>1, ElementOfSeq
  <2>2. i - 1 \in 0 .. Len(p)
    BY <1>1, <1>2
  <2>3. writer.path[i][1] = SubSeq(p, 1, i - 1) /\ writer.path[i] \notin Live(heap, root, Idle, look)
    BY DEF TrieInv, PathSound
  <2> QED
    BY <1>2, <2>1, <2>2, <2>3, PrefixPart
<1>4. ASSUME NEW i \in 1 .. k, NEW j \in 1 .. k, i # j PROVE writer.path[i] # writer.path[j]
  <2>1. Len(writer.path[i][1]) = i - 1 /\ Len(writer.path[j][1]) = j - 1
    BY <1>3
  <2>2. i - 1 # j - 1
    BY <1>4
  <2> QED
    BY <2>1, <2>2
<1>5. k >= 1 /\ k <= Len(p) + 1 /\ writer.path # << >>
  BY <1>1, <1>2
<1> QED
  BY <1>1, <1>2, <1>3, <1>4, <1>5

LEMMA IdleHasNoPath ==
  ASSUME TrieInv, writer.pc = "idle"
  PROVE  writer.path = << >> /\ Len(writer.path) = 0
BY DEF TrieInv, PathSound

LEMMA LookTyped ==
  ASSUME TrieInv
  PROVE  \A r \in Reader : look[r] \in Lookups /\ look[r].at \in Node \cup {NoNode}
BY DEF TrieInv, Lookups

\* A new node: nobody has it.
LEMMA Fresh ==
  ASSUME NEW p \in Stems, Free(p) # {}
  PROVE  /\ New(p) \in Node /\ New(p)[1] = p /\ New(p) \notin Live(heap, root, writer, look)
<1> DEFINE v == Min(Free(p))
<1>1. Free(p) \subseteq 1 .. Version /\ Version \in Nat
  BY RouterAssumption DEF Free
<1>2. v \in Free(p)
  <2>1. Free(p) \in SUBSET Nat
    BY <1>1
  <2>2. \E i \in Free(p) : \A j \in Free(p) : i <= j
    BY <2>1, LeastElement
  <2> QED
    BY <2>2 DEF Min
<1>3. v \in 1 .. Version /\ <<p, v>> \notin Live(heap, root, writer, look)
  BY <1>1, <1>2 DEF Free
<1>4. New(p) = <<p, v>>
  BY DEF New
<1> HIDE DEF v
<1> QED
  BY <1>3, <1>4, NodesAre

\* The writer's first node is one of them.
LEMMA WriterReaches ==
  ASSUME TrieInv
  PROVE  writer.path = << >> \/ writer.path[1] \in Node
<1>1. CASE writer.pc = "idle"
  BY <1>1, IdleHasNoPath
<1>2. CASE writer.pc # "idle"
  <2>1. 1 \in 1 .. Len(writer.path)
    BY <1>2, PathIs
  <2> QED
    BY <1>2, <2>1, PathIs
<1> QED
  BY <1>1, <1>2

\* What a step never does to a published node.
StaysFrozen ==
  \A n \in Node :
    /\ n \in Live(heap, root, Idle, look)
    /\ n \in Live(heap', root', Idle, look')
    => heap'[n] = heap[n]

\* The published part of the invariant.
Published ==
  /\ HeapOK(heap) /\ Alive(heap, root)
  /\ root \in Node /\ root[1] = << >>
  /\ look \in [Reader -> Lookups]
  /\ \A r \in Reader : LookSound(look[r], heap)

\* The writer changes nodes that are not published.
LEMMA Rebuilt ==
  ASSUME TrieInv, HeapOK(heap'), \A m \in Live(heap, root, Idle, look) : heap'[m] = heap[m],
         root' = root, look' = look
  PROVE  /\ Live(heap', root', Idle, look') = Live(heap, root, Idle, look)
         /\ Published' /\ StaysFrozen
         /\ \A m \in Below(heap, root) : heap'[m] = heap[m]
<1>1. HeapOK(heap) /\ root \in Node /\ \A r \in Reader : look[r].at \in Node \cup {NoNode}
  BY LookTyped DEF TrieInv
<1>2. /\ Live(heap', root, Idle, look) = Live(heap, root, Idle, look)
      /\ \A m \in Below(heap, root) : heap'[m] = heap[m]
      /\ \A r \in Reader : look[r].at # NoNode => \A m \in Below(heap, look[r].at) : heap'[m] = heap[m]
  BY <1>1, IdleIs, LiveUnchanged
<1>3. Alive(heap', root)
  BY <1>1, <1>2, AliveKeeps DEF TrieInv
<1>4. \A r \in Reader : LookSound(look[r], heap')
  <2> SUFFICES ASSUME NEW r \in Reader PROVE LookSound(look[r], heap')
    OBVIOUS
  <2>1. look[r] \in Lookups /\ LookSound(look[r], heap)
    BY LookTyped DEF TrieInv
  <2>2. look[r].at # NoNode => \A m \in Below(heap, look[r].at) : heap'[m] = heap[m]
    BY <1>2
  <2> QED
    BY <1>1, <2>1, <2>2, LookKeeps
<1>5. root[1] = << >> /\ look \in [Reader -> Lookups]
  BY DEF TrieInv
<1> QED
  BY <1>1, <1>2, <1>3, <1>4, <1>5 DEF Published, StaysFrozen

\* The nodes that nobody reaches any more are given back, after a change h of the others.
LEMMA Released ==
  ASSUME TrieInv, NEW h, HeapOK(h), \A m \in Live(heap, root, Idle, look) : h[m] = heap[m],
         root' \in Node, root'[1] = << >>, Alive(h, root'),
         look' \in [Reader -> Lookups], \A r \in Reader : LookSound(look'[r], h),
         NEW wr, wr.path = << >> \/ wr.path[1] \in Node, heap' = Collected(h, root', wr, look')
  PROVE  /\ Published' /\ StaysFrozen
         /\ Live(heap', root', Idle, look') = Live(h, root', Idle, look')
         /\ \A m \in Live(h, root', wr, look') : heap'[m] = h[m]
         /\ \A m \in Below(h, root') : heap'[m] = h[m]
<1>1. \A r \in Reader : look'[r] \in Lookups /\ look'[r].at \in Node \cup {NoNode}
  BY DEF Lookups
<1>2. HeapOK(heap') /\ \A m \in Live(h, root', wr, look') : heap'[m] = h[m]
  <2> DEFINE rt == root'
             l == look'
             g == heap'
  <2>1. rt \in Node /\ (\A r \in Reader : l[r].at \in Node \cup {NoNode}) /\ g = Collected(h, rt, wr, l)
    BY <1>1
  <2> HIDE DEF rt, l, g
  <2>2. HeapOK(g) /\ \A m \in Live(h, rt, wr, l) : g[m] = h[m]
    BY <2>1, CollectedKeeps
  <2> QED
    BY <2>2 DEF rt, l, g
<1>3. /\ Live(h, root', Idle, look') \subseteq Live(h, root', wr, look')
      /\ \A m \in Below(h, root') : heap'[m] = h[m]
      /\ \A r \in Reader : look'[r].at # NoNode => \A m \in Below(h, look'[r].at) : heap'[m] = h[m]
  <2> DEFINE rt == root'
             l == look'
             g == heap'
  <2>1. /\ rt \in Node /\ (\A r \in Reader : l[r].at \in Node \cup {NoNode})
        /\ \A m \in Live(h, rt, wr, l) : g[m] = h[m]
    BY <1>1, <1>2
  <2> HIDE DEF rt, l, g
  <2>2. /\ Live(h, rt, Idle, l) \subseteq Live(h, rt, wr, l)
        /\ \A m \in Below(h, rt) : g[m] = h[m]
        /\ \A r \in Reader : l[r].at # NoNode => \A m \in Below(h, l[r].at) : g[m] = h[m]
    BY <2>1, LiveUnchanged
  <2> QED
    BY <2>2 DEF rt, l, g
<1>4. Live(heap', root', Idle, look') = Live(h, root', Idle, look')
  <2>1. \A m \in Live(h, root', Idle, look') : heap'[m] = h[m]
    BY <1>2, <1>3
  <2> QED
    BY <1>1, <2>1, IdleIs, LiveUnchanged
<1>5. Alive(heap', root')
  BY <1>3, AliveKeeps
<1>6. \A r \in Reader : LookSound(look'[r], heap')
  <2> SUFFICES ASSUME NEW r \in Reader PROVE LookSound(look'[r], heap')
    OBVIOUS
  <2>1. look'[r] \in Lookups /\ LookSound(look'[r], h)
    BY <1>1
  <2>2. look'[r].at # NoNode => \A m \in Below(h, look'[r].at) : heap'[m] = h[m]
    BY <1>3
  <2> DEFINE l == look'[r]
             g == heap'
  <2>3. l \in Lookups /\ LookSound(l, h) /\ (l.at # NoNode => \A m \in Below(h, l.at) : g[m] = h[m])
    BY <2>1, <2>2
  <2> HIDE DEF l, g
  <2>4. LookSound(l, g)
    BY <2>3, LookKeeps
  <2> QED
    BY <2>4 DEF l, g
<1>7. StaysFrozen
  <2>1. ASSUME NEW n \in Node, n \in Live(heap, root, Idle, look), n \in Live(heap', root', Idle, look')
        PROVE  heap'[n] = heap[n]
    BY <1>2, <1>3, <1>4, <2>1
  <2> QED
    BY <2>1 DEF StaysFrozen
<1> QED
  BY <1>2, <1>3, <1>4, <1>5, <1>6, <1>7 DEF Published

\* A change at one fresh node, which then has the shape of node m, or is empty.
LEMMA CopiedIsOK ==
  ASSUME NEW h, HeapOK(h), NEW n \in Node, NEW m \in Node \cup {NoNode},
         m # NoNode => m[1] = n[1]
  PROVE  HeapOK([h EXCEPT ![n] = Cell(h, m)])
<1> DEFINE c == Cell(h, m)
           g == [h EXCEPT ![n] = c]
<1>1. c \in Cells /\ (m = NoNode => c = Blank) /\ (m # NoNode => c = h[m] /\ m \in Node)
  BY CellIs DEF Cell
<1>2. h \in [Node -> Cells]
  BY DEF HeapOK
<1> HIDE DEF c
<1>3. g \in [Node -> Cells] /\ g[n] = c /\ \A o \in Node \ {n} : g[o] = h[o]
  BY <1>1, <1>2
<1> HIDE DEF g
<1>4. ASSUME NEW o \in Node, NEW s \in Seg, g[o].kids[s] # NoNode
      PROVE  g[o].kids[s][1] = Append(o[1], s)
  <2>1. CASE o # n
    BY <1>3, <1>4, <2>1 DEF HeapOK
  <2>2. CASE o = n
    <3>1. m # NoNode /\ g[o] = h[m] /\ m \in Node /\ m[1] = n[1]
      BY <1>1, <1>3, <1>4, <2>2, BlankIs
    <3>2. h[m].kids[s][1] = Append(m[1], s)
      BY <1>4, <3>1 DEF HeapOK
    <3> QED
      BY <2>2, <3>1, <3>2
  <2> QED
    BY <2>1, <2>2
<1>5. ASSUME NEW o \in Node, g[o].target # NilTarget PROVE o[1] \in Prefixes
  BY <1>1, <1>3, <1>5, BlankIs DEF HeapOK
<1>6. HeapOK(g)
  BY <1>3, <1>4, <1>5 DEF HeapOK
<1> QED
  BY <1>6 DEF g, c

\* A change of one child, to one that fits.
LEMMA HungIsOK ==
  ASSUME NEW h, HeapOK(h), NEW n \in Node, NEW s \in Seg, NEW g \in [Node -> Cells],
         \A o \in Node : o # n => g[o] = h[o],
         \A o \in Seg : o # s => g[n].kids[o] = h[n].kids[o],
         g[n].target = h[n].target,
         g[n].kids[s] # NoNode => g[n].kids[s][1] = Append(n[1], s)
  PROVE  HeapOK(g)
<1>1. ASSUME NEW o \in Node, NEW q \in Seg, g[o].kids[q] # NoNode
      PROVE  g[o].kids[q][1] = Append(o[1], q)
  <2>1. CASE o = n /\ q = s
    BY <1>1, <2>1
  <2>2. CASE o = n /\ q # s
    BY <1>1, <2>2, SMTT(30) DEF HeapOK
  <2>3. CASE o # n
    BY <1>1, <2>3 DEF HeapOK
  <2> QED
    BY <2>1, <2>2, <2>3
<1>2. ASSUME NEW o \in Node, g[o].target # NilTarget PROVE o[1] \in Prefixes
  BY <1>2 DEF HeapOK
<1> QED
  BY <1>1, <1>2 DEF HeapOK

LEMMA KidChanged ==
  ASSUME NEW d \in Cells, NEW s \in Seg, NEW k \in Node \cup {NoNode}
  PROVE  /\ [d EXCEPT !.kids[s] = k] \in Cells /\ [d EXCEPT !.kids[s] = k].target = d.target
         /\ [d EXCEPT !.kids[s] = k].kids[s] = k
         /\ \A o \in Seg \ {s} : [d EXCEPT !.kids[s] = k].kids[o] = d.kids[o]
<1> DEFINE kids == [d.kids EXCEPT ![s] = k]
<1>1. [d EXCEPT !.kids[s] = k] = [d EXCEPT !.kids = kids]
  OBVIOUS
<1>2. d.kids \in [Seg -> Node \cup {NoNode}] /\ d.target \in Target \cup {NilTarget}
  BY DEF Cells
<1>3. /\ kids \in [Seg -> Node \cup {NoNode}] /\ kids[s] = k
      /\ \A o \in Seg \ {s} : kids[o] = d.kids[o]
  BY <1>2
<1> HIDE DEF kids
<1> DEFINE c == [d EXCEPT !.kids = kids]
<1>4. c.target = d.target /\ c.kids = kids /\ c \in Cells
  BY <1>3 DEF Cells
<1> HIDE DEF c
<1>5. /\ c \in Cells /\ c.target = d.target /\ c.kids[s] = k
      /\ \A o \in Seg \ {s} : c.kids[o] = d.kids[o]
  BY <1>3, <1>4
<1>6. [d EXCEPT !.kids[s] = k] = c
  BY <1>1 DEF c
<1> QED
  BY <1>5, <1>6

\* A change of the target, to none or at a prefix.
Marked(h, n, t) == [h EXCEPT ![n].target = t]

LEMMA TargetIsOK ==
  ASSUME NEW h, HeapOK(h), NEW n \in Node, NEW t \in Target \cup {NilTarget},
         t # NilTarget => n[1] \in Prefixes,
         NEW g, g = Marked(h, n, t)
  PROVE  /\ HeapOK(g) /\ \A o \in Node \ {n} : g[o] = h[o]
         /\ g[n].target = t /\ g[n].kids = h[n].kids
<1>1. h \in [Node -> Cells] /\ h[n] \in Cells
  BY DEF HeapOK
<1> DEFINE c == [h[n] EXCEPT !.target = t]
<1>2. g = [h EXCEPT ![n] = c]
  BY DEF Marked
<1>3. c.target = t /\ c.kids = h[n].kids /\ c \in Cells
  BY <1>1 DEF Cells
<1> HIDE DEF c
<1>4. g \in [Node -> Cells] /\ g[n] = c /\ \A o \in Node \ {n} : g[o] = h[o]
  BY <1>1, <1>2, <1>3
<1>5. ASSUME NEW o \in Node, NEW q \in Seg, g[o].kids[q] # NoNode
      PROVE  g[o].kids[q][1] = Append(o[1], q)
  BY <1>3, <1>4, <1>5 DEF HeapOK
<1>6. ASSUME NEW o \in Node, g[o].target # NilTarget PROVE o[1] \in Prefixes
  BY <1>3, <1>4, <1>6 DEF HeapOK
<1> QED
  BY <1>3, <1>4, <1>5, <1>6 DEF HeapOK

\* The writer's part of the invariant.
Writing ==
  /\ writer \in Writers /\ PathSound(writer, Live(heap, root, Idle, look))
  /\ \A i \in 1 .. Len(writer.path) : CopyAt(heap, root, writer, i)

LEMMA IdleWrites ==
  ASSUME writer' = Idle
  PROVE  Writing'
<1>1. Len(<< >>) = 0 /\ \A i \in 1 .. 0 : FALSE
  OBVIOUS
<1> QED
  BY <1>1, IdleIs DEF Writing, PathSound

LEMMA LockKeeps ==
  ASSUME TrieInv, NEW pc \in {"add", "remove"}, NEW p \in Prefixes, NEW t \in Target \cup {NilTarget},
         pc = "add" => t # NilTarget, Lock(pc, p, t)
  PROVE  TrieInv' /\ StaysFrozen
<1> DEFINE n == New(<< >>)
<1>1. /\ writer.pc = "idle" /\ Free(<< >>) # {} /\ heap' = [heap EXCEPT ![n] = heap[root]]
      /\ writer' = [pc |-> pc, prefix |-> p, target |-> t, path |-> <<n>>]
      /\ root' = root /\ look' = look
  BY DEF Lock
<1>2. n \in Node /\ n[1] = << >> /\ n \notin Live(heap, root, writer, look)
  <2>1. << >> \in Stems
    BY DEF Stems
  <2> QED
    BY <1>1, <2>1, Fresh
<1>3. HeapOK(heap) /\ root \in Node /\ root[1] = << >> /\ heap \in [Node -> Cells]
  BY DEF TrieInv, HeapOK
<1>4. Live(heap, root, Idle, look) \subseteq Live(heap, root, writer, look)
  <2>1. \A r \in Reader : look[r].at \in Node \cup {NoNode}
    BY LookTyped
  <2>2. writer.path = << >>
    BY <1>1, IdleHasNoPath
  <2> QED
    BY <1>3, <2>1, <2>2, LiveUnchanged
<1>5. Live(heap, root, Idle, look) \subseteq Node
  <2>1. \A r \in Reader : look[r].at \in Node \cup {NoNode}
    BY LookTyped
  <2> QED
    BY <1>3, <2>1, IdleIs, LiveUnchanged
<1> HIDE DEF n
<1>6. HeapOK(heap')
  <2>1. Cell(heap, root) = heap[root]
    BY <1>3, CellIs
  <2>2. HeapOK([heap EXCEPT ![n] = Cell(heap, root)])
    BY <1>2, <1>3, CopiedIsOK
  <2> QED
    BY <1>1, <2>1, <2>2
<1>7. heap'[n] = heap[root] /\ \A m \in Node \ {n} : heap'[m] = heap[m]
  BY <1>1, <1>2, <1>3
<1>8. \A m \in Live(heap, root, Idle, look) : heap'[m] = heap[m]
  BY <1>2, <1>4, <1>5, <1>7
<1>9. /\ Live(heap', root', Idle, look') = Live(heap, root, Idle, look)
      /\ Published' /\ StaysFrozen
      /\ \A m \in Below(heap, root) : heap'[m] = heap[m]
  BY <1>1, <1>6, <1>8, Rebuilt
<1>10. Writing'
  <2>1. /\ writer'.path = <<n>> /\ writer'.pc = pc /\ writer'.prefix = p /\ writer'.target = t
        /\ Len(<<n>>) = 1 /\ <<n>>[1] = n /\ <<n>> \in Seq(Node) /\ <<n>> # << >>
    BY <1>1, <1>2
  <2>2. writer' \in Writers
    BY <1>1, <2>1 DEF Writers
  <2>3. p \in Seq(Seg) /\ Len(p) \in Nat /\ SubSeq(p, 1, 0) = << >>
    BY PrefixesAreStems, LenProperties, NoSegments
  <2>4. PathSound(writer', Live(heap', root', Idle, look'))
    <3>1. \A i \in 1 .. 1 : i = 1 /\ i - 1 = 0
      OBVIOUS
    <3>2. n \notin Live(heap', root', Idle, look')
      BY <1>2, <1>4, <1>9
    <3>3. 1 \in 1 .. Len(p) + 1 /\ pc # "idle"
      BY <2>3
    <3> QED
      BY <1>2, <2>1, <2>3, <3>1, <3>2, <3>3 DEF PathSound
  <2>5. CopyAt(heap', root', writer', 1)
    <3>1. root \in Below(heap, root) /\ root # NoNode
      BY <1>3, BelowHas, NodesAre
    <3>2. Original(heap', root', writer', 1) = root
      <4>1. 1 - 1 = 0
        OBVIOUS
      <4>2. Walk(heap', root, << >>) = root
        BY WalkEmpty
      <4> QED
        BY <1>1, <2>1, <2>3, <4>1, <4>2 DEF Original
    <3>3. Cell(heap', root) = heap[root] /\ heap'[n] = heap[root]
      BY <1>7, <1>9, <3>1 DEF Cell
    <3>4. writer'.path[1] = n /\ ~(1 < Len(writer'.path))
      BY <2>1
    <3> QED
      BY <3>1, <3>2, <3>3, <3>4 DEF CopyAt
  <2>6. \A i \in 1 .. Len(writer'.path) : CopyAt(heap', root', writer', i)
    <3>1. \A i \in 1 .. Len(writer'.path) : i = 1
      BY <2>1
    <3> QED
      BY <2>5, <3>1, Zenon
  <2> QED
    BY <2>2, <2>4, <2>6 DEF Writing
<1> QED
  BY <1>9, <1>10 DEF TrieInv, Published, Writing

LEMMA DescendKeeps ==
  ASSUME TrieInv, Descend
  PROVE  TrieInv' /\ StaysFrozen
<1> DEFINE p == writer.prefix
           path == writer.path
           k == Len(path)
           cur == path[k]
           s == p[k]
           child == heap[cur].kids[s]
           stem == SubSeq(p, 1, k)
           n == New(stem)
           copied == [heap EXCEPT ![n] = Cell(heap, child)]
<1>1. /\ writer.pc # "idle" /\ k <= Len(p) /\ (child # NoNode \/ writer.pc = "add") /\ Free(stem) # {}
      /\ heap' = [heap EXCEPT ![n] = Cell(heap, child), ![cur].kids[s] = n]
      /\ writer' = [writer EXCEPT !.path = Append(path, n)]
      /\ root' = root /\ look' = look
  BY DEF Descend, Descending, Current, Segment, Stem, CopiedNode, Cell
<1>2. /\ k \in Nat /\ k >= 1 /\ k \in 1 .. k /\ k \in 0 .. Len(p) /\ Len(p) \in Nat /\ k - 1 \in 0 .. Len(p)
      /\ p \in Prefixes /\ p \in Seq(Seg) /\ path \in Seq(Node) /\ path # << >> /\ k <= Len(p)
  <2>1. writer.pc # "idle" /\ k <= Len(p)
    BY <1>1
  <2>2. /\ k \in Nat /\ k >= 1 /\ Len(p) \in Nat
        /\ p \in Prefixes /\ p \in Seq(Seg) /\ path \in Seq(Node) /\ path # << >>
    BY <2>1, PathIs
  <2> HIDE DEF k, p, path
  <2> QED
    BY <2>1, <2>2
<1>3. /\ cur \in Node /\ cur \notin Live(heap, root, Idle, look)
      /\ cur[1] = SubSeq(p, 1, k - 1)
  <2>1. writer.pc # "idle" /\ k \in 1 .. k
    BY <1>1, <1>2
  <2> QED
    BY <2>1, PathIs
<1>4. s \in Seg /\ stem \in Seq(Seg) /\ Len(stem) = k /\ stem = Append(cur[1], s)
  <2>1. k - 1 < Len(p) /\ k - 1 + 1 = k
    <3> HIDE DEF k, p
    <3> QED
      BY <1>2
  <2>2. s \in Seg /\ stem = Append(SubSeq(p, 1, k - 1), s)
    <3> DEFINE j == k - 1
    <3>1. j \in 0 .. Len(p) /\ j < Len(p) /\ j + 1 = k
      BY <1>2, <2>1
    <3> HIDE DEF j
    <3>2. p[j + 1] \in Seg /\ SubSeq(p, 1, j + 1) = Append(SubSeq(p, 1, j), p[j + 1])
      BY <1>2, <3>1, PrefixPart
    <3> QED
      BY <3>1, <3>2 DEF j
  <2>3. stem \in Seq(Seg) /\ Len(stem) = k
    BY <1>2, PrefixPart
  <2> QED
    BY <1>3, <2>2, <2>3
<1>5. stem \in Stems
  <2>1. k \in 1 .. Len(p)
    BY <1>2
  <2>2. stem \in {SubSeq(p, 1, i) : i \in 1 .. Len(p)}
    BY <2>1
  <2> HIDE DEF stem
  <2> QED
    BY <1>2, <2>2 DEF Stems
<1>6. n \in Node /\ n[1] = stem /\ n \notin Live(heap, root, writer, look)
  BY <1>1, <1>5, Fresh
<1>7. HeapOK(heap) /\ root \in Node /\ heap \in [Node -> Cells]
  BY DEF TrieInv, HeapOK
<1>8. /\ Live(heap, root, Idle, look) \subseteq Live(heap, root, writer, look)
      /\ Live(heap, root, Idle, look) \subseteq Node
  <2>1. \A r \in Reader : look[r].at \in Node \cup {NoNode}
    BY LookTyped
  <2> QED
    BY <1>7, <2>1, LiveUnchanged, WriterReaches
<1>9. /\ \A i \in 1 .. k : path[i] \in Node /\ path[i][1] = SubSeq(p, 1, i - 1) /\ path[i] # n
      /\ \A i \in 1 .. k : i # k => path[i] # cur
      /\ \A i \in 1 .. k : i - 1 \in 0 .. Len(p) /\ SubSeq(p, 1, i - 1) \in Seq(Seg)
  <2>1. ASSUME NEW i \in 1 .. k PROVE path[i] # n
    <3>1. path[i][1] = SubSeq(p, 1, i - 1) /\ i - 1 \in 0 .. Len(p)
      BY <1>1, PathIs
    <3>2. Len(SubSeq(p, 1, i - 1)) = i - 1
      BY <1>2, <3>1, PrefixPart
    <3>3. i - 1 # k
      BY <1>2
    <3> QED
      BY <1>4, <1>6, <3>1, <3>2, <3>3
  <2> QED
    BY <1>1, <1>2, <2>1, PathIs
<1>10. child \in Node \cup {NoNode} /\ (child # NoNode => child[1] = n[1])
  BY <1>3, <1>4, <1>6, <1>7 DEF HeapOK, Cells
<1>11. cur # n
  BY <1>2, <1>9
<1>12. HeapOK(copied) /\ copied[n] = Cell(heap, child) /\ \A m \in Node \ {n} : copied[m] = heap[m]
  <2>1. HeapOK(copied)
    BY <1>6, <1>7, <1>10, CopiedIsOK
  <2> QED
    BY <1>6, <1>7, <2>1
<1>13. heap' = [copied EXCEPT ![cur].kids[s] = n]
  BY <1>1
<1> HIDE DEF copied, n, stem, child
<1>14. /\ HeapOK(heap') /\ \A m \in Node \ {cur} : heap'[m] = copied[m]
       /\ heap'[cur].target = copied[cur].target /\ heap'[cur].kids[s] = n
       /\ \A o \in Seg \ {s} : heap'[cur].kids[o] = copied[cur].kids[o]
  <2>1. n[1] = Append(cur[1], s)
    BY <1>4, <1>6
  <2> DEFINE g == heap'
  <2>2. g = [copied EXCEPT ![cur].kids[s] = n]
    BY <1>13
  <2>3. cur \in Node /\ s \in Seg /\ HeapOK(copied) /\ n \in Node
    BY <1>3, <1>4, <1>6, <1>12
  <2> HIDE DEF g, cur, s
  <2>4. /\ HeapOK(g) /\ \A m \in Node \ {cur} : g[m] = copied[m]
        /\ g[cur].target = copied[cur].target /\ g[cur].kids[s] = n
        /\ \A o \in Seg \ {s} : g[cur].kids[o] = copied[cur].kids[o]
    <3> DEFINE c == [copied[cur] EXCEPT !.kids[s] = n]
    <3>1. copied \in [Node -> Cells] /\ copied[cur] \in Cells /\ n \in Node \cup {NoNode}
      BY <2>3 DEF HeapOK
    <3>2. /\ c \in Cells /\ c.target = copied[cur].target /\ c.kids[s] = n
          /\ \A o \in Seg \ {s} : c.kids[o] = copied[cur].kids[o]
      BY <2>3, <3>1, KidChanged
    <3>3. g = [copied EXCEPT ![cur] = c]
      BY <2>2
    <3> HIDE DEF c
    <3>4. g \in [Node -> Cells] /\ g[cur] = c /\ \A o \in Node \ {cur} : g[o] = copied[o]
      BY <2>3, <3>1, <3>2, <3>3
    <3>5. HeapOK(g)
      <4>1. /\ g[cur].kids[s] = n /\ n[1] = Append(cur[1], s)
            /\ g[cur].target = copied[cur].target
            /\ \A o \in Seg : o # s => g[cur].kids[o] = copied[cur].kids[o]
            /\ \A o \in Node : o # cur => g[o] = copied[o]
        BY <2>1, <3>2, <3>4
      <4> QED
        BY <2>3, <3>4, <4>1, HungIsOK
    <3> QED
      BY <3>2, <3>4, <3>5
  <2> QED
    BY <2>4 DEF g
<1>15. /\ heap'[n] = Cell(heap, child) /\ \A m \in Node \ {n, cur} : heap'[m] = heap[m]
       /\ heap'[cur].target = heap[cur].target /\ heap'[cur].kids[s] = n
       /\ \A o \in Seg \ {s} : heap'[cur].kids[o] = heap[cur].kids[o]
  BY <1>3, <1>6, <1>11, <1>12, <1>14
<1>16. \A m \in Live(heap, root, Idle, look) : heap'[m] = heap[m]
  BY <1>3, <1>6, <1>8, <1>15
<1>17. /\ Live(heap', root', Idle, look') = Live(heap, root, Idle, look)
       /\ Published' /\ StaysFrozen
       /\ \A m \in Below(heap, root) : heap'[m] = heap[m]
  BY <1>1, <1>14, <1>16, Rebuilt
<1>18. /\ writer'.path = Append(path, n) /\ writer'.pc = writer.pc /\ writer'.prefix = p
       /\ writer'.target = writer.target /\ writer' \in Writers
  <2>1. writer \in Writers /\ Append(path, n) \in Seq(Node)
    BY <1>2, <1>6, AppendProperties DEF TrieInv
  <2> QED
    BY <1>1, <2>1 DEF Writers
<1>19. /\ Len(writer'.path) = k + 1 /\ writer'.path[k + 1] = n /\ writer'.path # << >>
       /\ \A i \in 1 .. k : writer'.path[i] = path[i]
  BY <1>2, <1>6, <1>18, AppendProperties
<1> HIDE DEF path, k, cur, p, s
<1>20. PathSound(writer', Live(heap', root', Idle, look'))
  <2>1. k + 1 \in 1 .. Len(p) + 1
    BY <1>2
  <2>2. writer'.pc = "add" => writer'.target # NilTarget
    BY <1>1, <1>18 DEF TrieInv, PathSound
  <2>3. ASSUME NEW i \in 1 .. k + 1
        PROVE  writer'.path[i][1] = SubSeq(p, 1, i - 1) /\ writer'.path[i] \notin Live(heap, root, Idle, look)
    <3>1. CASE i = k + 1
      <4>1. i - 1 = k
        BY <1>2, <3>1
      <4> QED
        BY <1>6, <1>8, <1>19, <3>1, <4>1 DEF stem
    <3>2. CASE i # k + 1
      <4>1. i \in 1 .. k
        BY <1>2, <3>2
      <4>2. path[i] \notin Live(heap, root, Idle, look)
        BY <1>1, <4>1, PathIs DEF path, k
      <4> QED
        BY <1>9, <1>19, <4>1, <4>2
    <3> QED
      BY <3>1, <3>2
  <2> QED
    BY <1>1, <1>2, <1>17, <1>18, <1>19, <2>1, <2>2, <2>3 DEF PathSound
<1>21. ASSUME NEW i \in 1 .. k
       PROVE  /\ Original(heap', root, writer', i) = Original(heap, root, writer, i)
              /\ Original(heap, root, writer, i) \in Below(heap, root) \cup {NoNode}
              /\ Cell(heap', Original(heap, root, writer, i)) = Cell(heap, Original(heap, root, writer, i))
              /\ CopyAt(heap, root, writer, i)
  <2>1. SubSeq(p, 1, i - 1) \in Seq(Seg)
    BY <1>9
  <2>2. /\ Walk(heap', root, SubSeq(p, 1, i - 1)) = Walk(heap, root, SubSeq(p, 1, i - 1))
        /\ Walk(heap, root, SubSeq(p, 1, i - 1)) \in Below(heap, root) \cup {NoNode}
    BY <1>7, <1>17, <2>1, WalkUnchanged, BelowIs
  <2>3. /\ Original(heap', root, writer', i) = Original(heap, root, writer, i)
        /\ Original(heap, root, writer, i) \in Below(heap, root) \cup {NoNode}
    BY <1>18, <2>2 DEF Original, p
  <2>4. CopyAt(heap, root, writer, i)
    BY DEF TrieInv, k, path
  <2> QED
    BY <1>17, <2>3, <2>4 DEF Cell
<1>22. ASSUME NEW i \in 1 .. k, i # k PROVE CopyAt(heap', root, writer', i)
  <2>1. path[i] \in Node \ {n, cur}
    BY <1>9, <1>22
  <2>2. heap'[writer'.path[i]] = heap[path[i]] /\ i + 1 \in 1 .. k /\ i < k /\ i < k + 1
    BY <1>2, <1>15, <1>19, <1>22, <2>1
  <2>3. writer'.path[i + 1] = path[i + 1] /\ Len(writer'.path) = k + 1
    BY <1>19, <2>2
  <2>4. /\ heap[path[i]].target = Cell(heap, Original(heap, root, writer, i)).target
        /\ \A o \in Seg : heap[path[i]].kids[o] =
             IF o = p[i] THEN path[i + 1] ELSE Cell(heap, Original(heap, root, writer, i)).kids[o]
        /\ writer.pc = "remove" => Original(heap, root, writer, i) # NoNode
    BY <1>21, <2>2 DEF CopyAt, path, k, p
  <2> QED
    BY <1>18, <1>21, <2>2, <2>3, <2>4 DEF CopyAt
<1>23. /\ heap[cur].target = Cell(heap, Original(heap, root, writer, k)).target
       /\ \A o \in Seg : heap[cur].kids[o] = Cell(heap, Original(heap, root, writer, k)).kids[o]
       /\ writer.pc = "remove" => Original(heap, root, writer, k) # NoNode
  <2>1. ~(k < k)
    BY <1>2
  <2> QED
    BY <1>2, <1>21, <2>1 DEF CopyAt, path, k, cur
<1>24. CopyAt(heap', root, writer', k)
  <2>1. writer'.path[k] = cur /\ k < k + 1 /\ writer'.path[k + 1] = n /\ Len(writer'.path) = k + 1
        /\ writer'.prefix[k] = s
    BY <1>2, <1>18, <1>19 DEF cur, s
  <2>2. \A o \in Seg : heap'[cur].kids[o] =
          IF o = s THEN n ELSE Cell(heap, Original(heap, root, writer, k)).kids[o]
    BY <1>15, <1>23
  <2> QED
    BY <1>2, <1>15, <1>18, <1>21, <1>23, <2>1, <2>2 DEF CopyAt
<1>25. CopyAt(heap', root, writer', k + 1)
  <2> DEFINE o == Original(heap, root, writer, k)
  <2>1. Original(heap', root, writer', k + 1) = child /\ child \in Below(heap, root) \cup {NoNode}
    <3> DEFINE before == SubSeq(p, 1, k - 1)
    <3>1. stem = Append(before, s) /\ before \in Seq(Seg) /\ s \in Seg /\ (k + 1) - 1 = k
      BY <1>2, <1>3, <1>4, <1>9
    <3>2. Walk(heap, root, stem) = Kid(heap, o, s)
      <4>1. o = Walk(heap, root, before)
        BY DEF Original, p
      <4> HIDE DEF o, before
      <4> QED
        BY <3>1, <4>1, WalkAppend
    <3>3. Kid(heap, o, s) = child
      <4>1. o \in Node \cup {NoNode}
        <5>1. Below(heap, root) \subseteq Node
          BY <1>7, BelowHas
        <5> QED
          BY <1>2, <1>21, <5>1
      <4>2. Kid(heap, o, s) = Cell(heap, o).kids[s]
        BY <1>4, <1>7, <4>1, CellIs
      <4> QED
        BY <1>4, <1>23, <4>2 DEF child
    <3>4. Walk(heap', root, stem) = Walk(heap, root, stem)
          /\ Walk(heap, root, stem) \in Below(heap, root) \cup {NoNode}
      BY <1>4, <1>7, <1>17, WalkUnchanged, BelowIs
    <3>5. Original(heap', root, writer', k + 1) = Walk(heap', root, stem)
      <4>1. SubSeq(writer'.prefix, 1, (k + 1) - 1) = stem
        BY <1>18, <3>1 DEF stem
      <4> QED
        BY <4>1 DEF Original
    <3> QED
      BY <3>2, <3>3, <3>4, <3>5
  <2>2. Cell(heap', child) = Cell(heap, child)
    BY <1>17, <2>1 DEF Cell
  <2>3. writer'.pc = "remove" => child # NoNode
    BY <1>1, <1>18
  <2>4. writer'.path[k + 1] = n /\ ~(k + 1 < Len(writer'.path))
    BY <1>2, <1>19
  <2> QED
    BY <1>15, <2>1, <2>2, <2>3, <2>4 DEF CopyAt
<1>26. \A i \in 1 .. Len(writer'.path) : CopyAt(heap', root', writer', i)
  <2>1. ASSUME NEW i \in 1 .. k + 1 PROVE CopyAt(heap', root, writer', i)
    <3>1. CASE i = k + 1
      BY <1>25, <3>1
    <3>2. CASE i = k
      BY <1>24, <3>2
    <3>3. CASE i # k /\ i # k + 1
      <4>1. i \in 1 .. k
        BY <1>2, <3>3
      <4> QED
        BY <1>22, <3>3, <4>1
    <3> QED
      BY <3>1, <3>2, <3>3
  <2> QED
    BY <1>1, <1>19, <2>1
<1> QED
  BY <1>17, <1>18, <1>20, <1>26 DEF TrieInv, Published

LEMMA PathIsBelow ==
  ASSUME TrieInv, writer.pc # "idle", NEW i \in 1 .. Len(writer.path)
  PROVE  writer.path[i] \in Below(heap, writer.path[1])
<1> DEFINE path == writer.path
           top == path[1]
           Bad == {j \in Nat : j \in 1 .. Len(path) /\ path[j] \notin Below(heap, top)}
<1>1. Len(path) \in Nat /\ HeapOK(heap) /\ \A j \in 1 .. Len(path) : path[j] \in Node
  BY PathIs DEF TrieInv
<1>2. 1 \in 1 .. Len(path) /\ top \in Node
  BY <1>1
<1>3. Bad = {}
  <2> SUFFICES ASSUME Bad # {} PROVE FALSE
    OBVIOUS
  <2>1. PICK k \in Bad : \A m \in Bad : k <= m
    <3>1. Bad \subseteq Nat
      OBVIOUS
    <3> HIDE DEF Bad
    <3> QED
      BY <3>1, LeastElement
  <2>2. k # 1
    BY <1>1, <1>2, BelowHas
  <2> DEFINE j == k - 1
  <2>3. j \in 1 .. Len(path) /\ j < Len(path) /\ j + 1 = k /\ k \in 1 .. Len(path) /\ ~(k <= j)
    BY <1>1, <2>1, <2>2
  <2> HIDE DEF j
  <2>4. path[j] \in Below(heap, top)
    BY <2>1, <2>3
  <2>5. writer.prefix[j] \in Seg
    <3>1. writer.prefix \in Seq(Seg) /\ Len(writer.prefix) \in Nat /\ Len(path) <= Len(writer.prefix) + 1
      BY PathIs
    <3>2. j \in 1 .. Len(writer.prefix)
      BY <1>1, <2>3, <3>1
    <3> QED
      BY <3>1, <3>2, ElementOfSeq
  <2>6. heap[path[j]].kids[writer.prefix[j]] = path[k]
    <3>1. CopyAt(heap, root, writer, j)
      BY <2>3 DEF TrieInv
    <3> QED
      BY <2>3, <2>5, <3>1 DEF CopyAt
  <2>7. path[k] \in Below(heap, top)
    BY <1>1, <1>2, <2>3, <2>4, <2>5, <2>6, BelowHas, NodesAre
  <2> QED
    BY <2>1, <2>7
<1> QED
  BY <1>1, <1>3

\* What does not touch the writer's nodes leaves its part of the invariant.
LEMMA WritingKeeps ==
  ASSUME TrieInv, writer' = writer, root' = root, \A m \in Below(heap, root) : heap'[m] = heap[m],
         writer.path # << >> => \A m \in Below(heap, writer.path[1]) : heap'[m] = heap[m],
         Live(heap', root', Idle, look') \subseteq Live(heap, root, Idle, look)
  PROVE  Writing'
<1>1. writer \in Writers /\ HeapOK(heap) /\ root \in Node
  BY DEF TrieInv
<1>2. PathSound(writer, Live(heap', root', Idle, look'))
  BY DEF TrieInv, PathSound
<1>3. \A i \in 1 .. Len(writer.path) : CopyAt(heap', root, writer, i)
  <2>1. CASE writer.pc = "idle"
    BY <2>1, IdleHasNoPath
  <2>2. ASSUME writer.pc # "idle", NEW i \in 1 .. Len(writer.path)
        PROVE  CopyAt(heap', root, writer, i)
    <3>1. writer.path[i] \in Below(heap, writer.path[1]) /\ writer.path # << >>
      BY <2>2, PathIsBelow, PathIs
    <3>2. heap'[writer.path[i]] = heap[writer.path[i]] /\ CopyAt(heap, root, writer, i)
      BY <3>1 DEF TrieInv
    <3>3. SubSeq(writer.prefix, 1, i - 1) \in Seq(Seg)
      BY <2>2, PathIs
    <3> DEFINE g == heap'
    <3>4. (\A m \in Below(heap, root) : g[m] = heap[m]) /\ g[writer.path[i]] = heap[writer.path[i]]
      BY <3>2
    <3> HIDE DEF g
    <3>5. CopyAt(g, root, writer, i)
      BY <1>1, <3>2, <3>3, <3>4, CopyKeeps
    <3> QED
      BY <3>5 DEF g
  <2> QED
    BY <2>1, <2>2
<1> QED
  BY <1>1, <1>2, <1>3 DEF Writing

LEMMA BelowShrinks ==
  ASSUME NEW h, HeapOK(h), NEW n \in Node, NEW m \in Below(h, n)
  PROVE  Below(h, m) \subseteq Below(h, n)
<1>1. /\ Below(h, n) \subseteq Node
      /\ \A o \in Below(h, n), s \in Seg : h[o].kids[s] # NoNode => h[o].kids[s] \in Below(h, n)
  BY BelowHas
<1>2. \A o \in Below(h, n), s \in Seg : h[o].kids[s] \in Below(h, n) \cup {NoNode}
  BY <1>1
<1>3. NoNode \notin Below(h, n)
  BY DEF Below
<1> QED
  BY <1>2, <1>3, BelowStays

\* A lookup that moves to a node below its own, or to none, reaches no more than before.
LEMMA ReachesLess ==
  ASSUME TrieInv, NEW r \in Reader, NEW x,
         \/ x.at = NoNode
         \/ x.at \in Below(heap, root)
         \/ look[r].at # NoNode /\ x.at \in Below(heap, look[r].at),
         NEW l, l = [look EXCEPT ![r] = x]
  PROVE  Live(heap, root, Idle, l) \subseteq Live(heap, root, Idle, look)
<1>1. HeapOK(heap) /\ root \in Node /\ look \in [Reader -> Lookups]
  BY DEF TrieInv
<1>2. l[r] = x /\ \A o \in Reader : o # r => l[o] = look[o]
  BY <1>1
<1>3. ASSUME NEW m \in Live(heap, root, Idle, l) PROVE m \in Live(heap, root, Idle, look)
  <2>1. \/ m \in Below(heap, root)
        \/ \E o \in Reader : l[o].at # NoNode /\ m \in Below(heap, l[o].at)
    <3>1. \/ m \in Below(heap, root)
          \/ Idle.path # << >> /\ m \in Below(heap, Idle.path[1])
          \/ \E o \in Reader : l[o].at # NoNode /\ m \in Below(heap, l[o].at)
      BY <1>3, LiveIs, Zenon
    <3> QED
      BY <3>1, IdleIs
  <2>2. CASE m \in Below(heap, root)
    BY <2>2, LiveIs
  <2>3. ASSUME NEW o \in Reader, l[o].at # NoNode, m \in Below(heap, l[o].at)
        PROVE  m \in Live(heap, root, Idle, look)
    <3>1. CASE o # r
      BY <1>2, <2>3, <3>1, LiveIs
    <3>2. CASE o = r
      <4>1. x.at # NoNode /\ m \in Below(heap, x.at)
        BY <1>2, <2>3, <3>2
      <4>2. CASE x.at \in Below(heap, root)
        BY <1>1, <4>1, <4>2, BelowShrinks, LiveIs
      <4>3. CASE look[r].at # NoNode /\ x.at \in Below(heap, look[r].at)
        <5>1. look[r].at \in Node
          BY <4>3, LookTyped
        <5> QED
          BY <1>1, <4>1, <4>3, <5>1, BelowShrinks, LiveIs
      <4> QED
        BY <4>1, <4>2, <4>3
    <3> QED
      BY <3>1, <3>2
  <2> QED
    BY <2>1, <2>2, <2>3
<1> QED
  BY <1>3

\* A lookup moves on, and what it alone held is given back.
LEMMA LookMoves ==
  ASSUME TrieInv, NEW r \in Reader, NEW x \in Lookups, LookSound(x, heap),
         x.at = NoNode \/ (look[r].at # NoNode /\ x.at \in Below(heap, look[r].at)),
         look' = [look EXCEPT ![r] = x], heap' = Collected(heap, root, writer, look'),
         UNCHANGED <<root, writer>>
  PROVE  TrieInv' /\ StaysFrozen
<1>1. HeapOK(heap) /\ root \in Node /\ root[1] = << >> /\ Alive(heap, root) /\ look \in [Reader -> Lookups]
  BY DEF TrieInv
<1>2. look' \in [Reader -> Lookups] /\ look'[r] = x /\ \A o \in Reader : o # r => look'[o] = look[o]
  BY <1>1
<1>3. \A o \in Reader : LookSound(look'[o], heap)
  <2> SUFFICES ASSUME NEW o \in Reader PROVE LookSound(look'[o], heap)
    OBVIOUS
  <2>1. CASE o = r
    BY <1>2, <2>1
  <2>2. CASE o # r
    BY <1>2, <2>2 DEF TrieInv
  <2> QED
    BY <2>1, <2>2
<1>4. root' = root /\ writer' = writer
  OBVIOUS
<1>5. /\ Published' /\ StaysFrozen
      /\ Live(heap', root', Idle, look') = Live(heap, root', Idle, look')
      /\ \A m \in Live(heap, root', writer, look') : heap'[m] = heap[m]
      /\ \A m \in Below(heap, root') : heap'[m] = heap[m]
  BY <1>1, <1>2, <1>3, <1>4, Released, WriterReaches
<1>6. Live(heap, root, Idle, look') \subseteq Live(heap, root, Idle, look)
  BY ReachesLess
<1>7. writer.path # << >> => \A m \in Below(heap, writer.path[1]) : heap'[m] = heap[m]
  BY <1>4, <1>5, LiveIs
<1>8. Writing'
  BY <1>4, <1>5, <1>6, <1>7, WritingKeeps
<1> QED
  BY <1>5, <1>8 DEF TrieInv, Published, Writing

\* A lookup begins at the root, or is over.
LEMMA LookStands ==
  ASSUME TrieInv, NEW r \in Reader, NEW x \in Lookups, LookSound(x, heap), x.at \in {NoNode, root},
         look' = [look EXCEPT ![r] = x], UNCHANGED <<heap, root, writer>>
  PROVE  TrieInv' /\ StaysFrozen
<1>1. HeapOK(heap) /\ root \in Node /\ root[1] = << >> /\ Alive(heap, root) /\ look \in [Reader -> Lookups]
  BY DEF TrieInv
<1>2. look' \in [Reader -> Lookups] /\ look'[r] = x /\ \A o \in Reader : o # r => look'[o] = look[o]
  BY <1>1
<1>3. \A o \in Reader : LookSound(look'[o], heap)
  <2> SUFFICES ASSUME NEW o \in Reader PROVE LookSound(look'[o], heap)
    OBVIOUS
  <2>1. CASE o = r
    BY <1>2, <2>1
  <2>2. CASE o # r
    BY <1>2, <2>2 DEF TrieInv
  <2> QED
    BY <2>1, <2>2
<1>4. heap' = heap /\ root' = root /\ writer' = writer
  OBVIOUS
<1>5. x.at = NoNode \/ x.at \in Below(heap, root)
  BY <1>1, BelowHas
<1>6. Live(heap, root, Idle, look') \subseteq Live(heap, root, Idle, look)
  BY <1>5, ReachesLess
<1>7. Writing'
  BY <1>4, <1>6, WritingKeeps
<1>8. Published' /\ StaysFrozen
  BY <1>1, <1>2, <1>3, <1>4 DEF Published, StaysFrozen
<1> QED
  BY <1>7, <1>8 DEF TrieInv, Published, Writing

LEMMA TableIs ==
  ASSUME NEW h, HeapOK(h), NEW n \in Node
  PROVE  /\ TableOf(h, n) \in [Prefixes -> Target \cup {NilTarget}]
         /\ \A p \in Prefixes : TableOf(h, n)[p] = Cell(h, Walk(h, n, p)).target
<1> DEFINE T(p) == LET m == Walk(h, n, p) IN IF m = NoNode THEN NilTarget ELSE h[m].target
<1>1. ASSUME NEW p \in Prefixes
      PROVE  T(p) = Cell(h, Walk(h, n, p)).target /\ T(p) \in Target \cup {NilTarget}
  <2> DEFINE m == Walk(h, n, p)
  <2>1. m \in Node \cup {NoNode}
    BY PrefixesAreStems, WalkLeads
  <2>2. T(p) = IF m = NoNode THEN NilTarget ELSE h[m].target
    OBVIOUS
  <2> HIDE DEF m, T
  <2>3. T(p) = Cell(h, m).target
    BY <2>2, BlankIs DEF Cell
  <2>4. Cell(h, m).target \in Target \cup {NilTarget}
    BY <2>1, CellIs DEF Cells
  <2> QED
    BY <2>3, <2>4 DEF m
<1>2. TableOf(h, n) = [p \in Prefixes |-> T(p)]
  BY DEF TableOf
<1> HIDE DEF T
<1> QED
  BY <1>1, <1>2

LEMMA WalkFirst ==
  ASSUME NEW h, NEW n, NEW s \in Seg, NEW f \in Seq(Seg)
  PROVE  <<s>> \o f \in Seq(Seg) /\ Walk(h, n, <<s>> \o f) = Walk(h, Kid(h, n, s), f)
<1>1. PICK e \in Seq(Seg) : e = <<s>>
  <2>1. <<s>> \in Seq(Seg)
    OBVIOUS
  <2> QED
    BY <2>1, Zenon
<1>2. Walk(h, n, e) = Kid(h, n, s)
  <2>1. << >> \in Seq(Seg) /\ e = Append(<< >>, s)
    BY <1>1, EmptySeq
  <2>2. Walk(h, n, Append(<< >>, s)) = Kid(h, Walk(h, n, << >>), s)
    BY <2>1, WalkAppend
  <2>3. Walk(h, n, << >>) = n
    BY WalkEmpty
  <2>4. Walk(h, n, Append(<< >>, s)) = Kid(h, n, s)
    BY <2>2, <2>3, Zenon
  <2> QED
    BY <2>1, <2>4, Zenon
<1>3. e \o f \in Seq(Seg)
  BY ConcatProperties
<1>4. Walk(h, n, e \o f) = Walk(h, Walk(h, n, e), f)
  BY WalkConcat
<1> QED
  BY <1>1, <1>2, <1>3, <1>4, Zenon

LEMMA PathsAreSeqs ==
  ASSUME NEW l \in Lookups
  PROVE  l.path \in Seq(Seg) /\ Len(l.path) \in Nat /\ l.depth \in Nat
<1>1. l.path \in Paths \cup {<< >>} /\ l.depth \in Nat
  BY DEF Lookups
<1> QED
  BY <1>1, RouterAssumption, EmptySeq, LenProperties

\* The best match after one node more.
LEMMA BetterIs ==
  ASSUME HeapOK(heap), NEW n \in Node, NEW path, NEW d \in Nat, n[1] = SubSeq(path, 1, d),
         NEW tab, n[1] \in Prefixes => tab[n[1]] = heap[n].target,
         NEW best, \/ d = 0 /\ best = NoMatch
                   \/ d # 0 /\ IsBest(tab, path, d - 1, best)
  PROVE  IsBest(tab, path, d, Better(best, n, d))
<1>1. CASE heap[n].target = NilTarget
  <2>1. ~Hit(tab, path, d) /\ Better(best, n, d) = best
    BY <1>1 DEF Hit, Better
  <2>2. CASE d = 0
    <3>1. \A i \in 0 .. d : i = d
      BY <2>2
    <3>2. best = NoMatch /\ \A i \in 0 .. d : ~Hit(tab, path, i)
      BY <2>1, <2>2, <3>1
    <3> QED
      BY <2>1, <3>2 DEF IsBest
  <2>3. CASE d # 0
    <3>1. IsBest(tab, path, d - 1, best)
      BY <2>3
    <3>2. CASE best = NoMatch /\ \A i \in 0 .. d - 1 : ~Hit(tab, path, i)
      <4>1. \A i \in 0 .. d : i = d \/ i \in 0 .. d - 1
        OBVIOUS
      <4>2. \A i \in 0 .. d : ~Hit(tab, path, i)
        BY <2>1, <3>2, <4>1
      <4> QED
        BY <2>1, <3>2, <4>2 DEF IsBest
    <3>3. CASE /\ best.depth \in 0 .. d - 1 /\ Hit(tab, path, best.depth)
               /\ best.target = tab[SubSeq(path, 1, best.depth)]
               /\ \A i \in best.depth + 1 .. d - 1 : ~Hit(tab, path, i)
      <4>1. best.depth \in 0 .. d /\ \A i \in best.depth + 1 .. d : i = d \/ i \in best.depth + 1 .. d - 1
        BY <3>3
      <4>2. \A i \in best.depth + 1 .. d : ~Hit(tab, path, i)
        BY <2>1, <3>3, <4>1
      <4> QED
        BY <2>1, <3>3, <4>1, <4>2 DEF IsBest
    <3> QED
      BY <3>1, <3>2, <3>3 DEF IsBest
  <2> QED
    BY <2>2, <2>3
<1>2. CASE heap[n].target # NilTarget
  <2> DEFINE b == Better(best, n, d)
  <2>1. b.target = heap[n].target /\ b.depth = d
    BY <1>2 DEF Better
  <2>2. n[1] \in Prefixes
    BY <1>2 DEF HeapOK
  <2>3. Hit(tab, path, d) /\ tab[SubSeq(path, 1, d)] = heap[n].target
    BY <1>2, <2>2 DEF Hit
  <2>4. d \in 0 .. d /\ \A i \in d + 1 .. d : FALSE
    OBVIOUS
  <2> HIDE DEF b
  <2>5. IsBest(tab, path, d, b)
    BY <2>1, <2>3, <2>4 DEF IsBest
  <2> QED
    BY <2>5 DEF b
<1> QED
  BY <1>1, <1>2

LEMMA BestStays ==
  ASSUME NEW tab, NEW path, NEW d \in Nat, NEW e \in Nat, d <= e, NEW best, IsBest(tab, path, d, best),
         \A i \in d + 1 .. e : ~Hit(tab, path, i)
  PROVE  IsBest(tab, path, e, best)
<1>1. CASE best = NoMatch /\ \A i \in 0 .. d : ~Hit(tab, path, i)
  <2>1. \A i \in 0 .. e : i \in 0 .. d \/ i \in d + 1 .. e
    OBVIOUS
  <2>2. \A i \in 0 .. e : ~Hit(tab, path, i)
    BY <1>1, <2>1
  <2> QED
    BY <1>1, <2>2 DEF IsBest
<1>2. CASE /\ best.depth \in 0 .. d /\ Hit(tab, path, best.depth)
           /\ best.target = tab[SubSeq(path, 1, best.depth)]
           /\ \A i \in best.depth + 1 .. d : ~Hit(tab, path, i)
  <2>1. /\ best.depth \in 0 .. e
        /\ \A i \in best.depth + 1 .. e : i \in best.depth + 1 .. d \/ i \in d + 1 .. e
    BY <1>2
  <2>2. \A i \in best.depth + 1 .. e : ~Hit(tab, path, i)
    BY <1>2, <2>1
  <2> QED
    BY <1>2, <2>1, <2>2 DEF IsBest
<1> QED
  BY <1>1, <1>2 DEF IsBest

LEMMA BetterTyped ==
  ASSUME HeapOK(heap), NEW n \in Node, NEW d \in Nat,
         NEW best \in [target : Target \cup {NilTarget}, depth : Nat]
  PROVE  /\ Better(best, n, d) \in [target : Target \cup {NilTarget}, depth : Nat]
         /\ Better(best, n, d).depth \in {best.depth, d}
<1>1. heap[n].target \in Target \cup {NilTarget}
  BY DEF HeapOK, Cells
<1>2. CASE heap[n].target = NilTarget
  BY <1>2 DEF Better
<1>3. CASE heap[n].target # NilTarget
  BY <1>1, <1>3 DEF Better
<1> QED
  BY <1>2, <1>3

LEMMA LoadKeeps ==
  ASSUME TrieInv, NEW r \in Reader, Load(r)
  PROVE  TrieInv' /\ StaysFrozen
<1>1. HeapOK(heap) /\ root \in Node /\ root[1] = << >> /\ root # NoNode
  BY NodesAre DEF TrieInv
<1> DEFINE tab == TableOf(heap, root)
           b == Better(NoMatch, root, 0)
<1>2. PICK path \in Paths :
        look' = [look EXCEPT ![r] =
                  [NoLookup EXCEPT !.pc = "walk", !.path = path, !.at = root, !.best = b, !.seen = tab]]
  BY DEF Load
<1> DEFINE x == [pc |-> "walk", path |-> path, at |-> root, depth |-> 0, best |-> b, seen |-> tab]
<1>3. tab \in [Prefixes -> Target \cup {NilTarget}]
      /\ \A p \in Prefixes : tab[p] = Cell(heap, Walk(heap, root, p)).target
  BY <1>1, TableIs
<1>4. NoMatch \in [target : Target \cup {NilTarget}, depth : Nat] /\ NoMatch.depth = 0
  BY DEF NoMatch
<1>5. b \in [target : Target \cup {NilTarget}, depth : Nat] /\ b.depth = 0
  BY <1>1, <1>4, BetterTyped
<1>6. /\ path \in Seq(Seg) /\ Len(path) \in Nat /\ SubSeq(path, 1, 0) = << >>
  BY RouterAssumption, LenProperties, NoSegments
<1>7. IsBest(tab, path, 0, b)
  <2>1. root[1] \in Prefixes => tab[root[1]] = heap[root].target
    <3>1. Walk(heap, root, << >>) = root
      BY WalkEmpty
    <3> QED
      BY <1>1, <1>3, <3>1 DEF Cell
  <2> HIDE DEF tab
  <2> QED
    BY <1>1, <1>6, <2>1, BetterIs
<1> HIDE DEF tab, b
<1>8. look' = [look EXCEPT ![r] = x]
  <2>1. [NoLookup EXCEPT !.pc = "walk", !.path = path, !.at = root, !.best = b, !.seen = tab] = x
    <3> DEFINE x1 == [NoLookup EXCEPT !.pc = "walk"]
               x2 == [x1 EXCEPT !.path = path]
               x3 == [x2 EXCEPT !.at = root]
               x4 == [x3 EXCEPT !.best = b]
               e == NoLookup.seen
    <3>1. x1 = [pc |-> "walk", path |-> << >>, at |-> NoNode, depth |-> 0, best |-> NoMatch, seen |-> e]
      BY DEF NoLookup
    <3> HIDE DEF x1, e
    <3>2. x2 = [pc |-> "walk", path |-> path, at |-> NoNode, depth |-> 0, best |-> NoMatch, seen |-> e]
      BY <3>1
    <3> HIDE DEF x2
    <3>3. x3 = [pc |-> "walk", path |-> path, at |-> root, depth |-> 0, best |-> NoMatch, seen |-> e]
      BY <3>2
    <3> HIDE DEF x3
    <3>4. x4 = [pc |-> "walk", path |-> path, at |-> root, depth |-> 0, best |-> b, seen |-> e]
      BY <3>3
    <3> HIDE DEF x4
    <3>5. [x4 EXCEPT !.seen = tab] = x
      BY <3>4
    <3> QED
      BY <3>5, Zenon DEF x1, x2, x3, x4
  <2> HIDE DEF x
  <2> QED
    BY <1>2, <2>1 DEF tab, b
<1>9. /\ x.pc = "walk" /\ x.path = path /\ x.at = root /\ x.depth = 0 /\ x.best = b /\ x.seen = tab
      /\ x \in Lookups
  BY <1>1, <1>3, <1>5 DEF Lookups
<1> HIDE DEF x
<1>10. LookSound(x, heap)
  <2>1. ASSUME NEW f \in Fragments, << >> \o f \in Prefixes
        PROVE  tab[<< >> \o f] = Cell(heap, Walk(heap, root, f)).target
    <3>1. << >> \o f = f
      BY StemsAreSeqs, ConcatEmptySeq
    <3> QED
      BY <1>3, <2>1, <3>1
  <2>2. \A f \in Fragments : root[1] \o f \in Prefixes =>
          tab[root[1] \o f] = Cell(heap, Walk(heap, root, f)).target
    BY <1>1, <2>1
  <2>3. x.at[1] = SubSeq(x.path, 1, x.depth) /\ x.at # NoNode
    BY <1>1, <1>6, <1>9
  <2>4. x.best.depth <= Len(x.path) /\ x.depth <= Len(x.path)
    BY <1>5, <1>6, <1>9
  <2>5. \A f \in Fragments : x.at[1] \o f \in Prefixes =>
          x.seen[x.at[1] \o f] = Cell(heap, Walk(heap, x.at, f)).target
    BY <1>9, <2>2
  <2>6. IsBest(x.seen, x.path, x.depth, x.best)
    BY <1>7, <1>9
  <2> QED
    BY <1>9, <2>3, <2>4, <2>5, <2>6 DEF LookSound
<1>11. heap' = heap /\ root' = root /\ writer' = writer
  BY DEF Load
<1> QED
  BY <1>8, <1>9, <1>10, <1>11, LookStands

LEMMA LeaveKeeps ==
  ASSUME TrieInv, NEW r \in Reader, Leave(r)
  PROVE  TrieInv' /\ StaysFrozen
<1> DEFINE x == NoLookup
<1>1. look' = [look EXCEPT ![r] = x] /\ heap' = heap /\ root' = root /\ writer' = writer
  BY DEF Leave
<1>2. /\ x.pc = "idle" /\ x.path = << >> /\ x.at = NoNode /\ x.depth = 0 /\ x.best = NoMatch
      /\ x \in Lookups /\ x.best.depth = 0
  BY DEF NoLookup, Lookups, NoMatch
<1> HIDE DEF x
<1>3. Len(<< >>) = 0
  OBVIOUS
<1>4. LookSound(x, heap)
  BY <1>2, <1>3 DEF LookSound
<1> QED
  BY <1>1, <1>2, <1>4, LookStands

\* A segment in front of a path, after a node.
LEMMA OneMore ==
  ASSUME NEW a \in Seq(Seg), NEW s \in Seg, NEW f \in Seq(Seg)
  PROVE  Append(a, s) \o f = a \o (<<s>> \o f)
<1>1. PICK e \in Seq(Seg) : e = <<s>>
  <2>1. <<s>> \in Seq(Seg)
    OBVIOUS
  <2> QED
    BY <2>1, Zenon
<1>2. Append(a, s) = a \o e
  BY <1>1, AppendIsConcat
<1>3. (a \o e) \o f = a \o (e \o f)
  BY ConcatAssociative
<1> QED
  BY <1>1, <1>2, <1>3, Zenon

\* What a lookup sees below a node, it sees below the node's children.
LEMMA ChildSees ==
  ASSUME HeapOK(heap), NEW at \in Node, NEW s \in Seg, NEW next \in Node, next = heap[at].kids[s],
         NEW seen, \A f \in Fragments : at[1] \o f \in Prefixes =>
                     seen[at[1] \o f] = Cell(heap, Walk(heap, at, f)).target
  PROVE  \A f \in Fragments : next[1] \o f \in Prefixes =>
           seen[next[1] \o f] = Cell(heap, Walk(heap, next, f)).target
<1> SUFFICES ASSUME NEW f \in Fragments, next[1] \o f \in Prefixes
             PROVE  seen[next[1] \o f] = Cell(heap, Walk(heap, next, f)).target
  OBVIOUS
<1>1. f \in Seq(Seg) /\ at[1] \in Seq(Seg) /\ at # NoNode /\ next # NoNode
  BY StemsAreSeqs, NodesAre
<1>2. next[1] = Append(at[1], s)
  BY <1>1 DEF HeapOK
<1>3. next[1] \o f = at[1] \o (<<s>> \o f)
  BY <1>1, <1>2, OneMore
<1>4. /\ <<s>> \o f \in Seq(Seg)
      /\ Walk(heap, at, <<s>> \o f) = Walk(heap, Kid(heap, at, s), f)
  BY <1>1, WalkFirst
<1>5. Kid(heap, at, s) = next
  BY <1>1 DEF Kid
<1>6. at[1] \o (<<s>> \o f) \in Prefixes /\ at[1] \o (<<s>> \o f) \in Stems
  BY <1>3, PrefixesAreStems, Zenon
<1>7. <<s>> \o f \in Fragments
  BY <1>1, <1>4, <1>6, RestIsFragment
<1> QED
  BY <1>3, <1>4, <1>5, <1>6, <1>7, Zenon

\* The lookups when that of r has moved.
Moved(r, at, d, b) == [look EXCEPT ![r].at = at, ![r].depth = d, ![r].best = b]
MovedTo(r, at, d, b) ==
  [pc |-> look[r].pc, path |-> look[r].path, at |-> at, depth |-> d, best |-> b, seen |-> look[r].seen]

LEMMA MovedIs ==
  ASSUME TrieInv, NEW r \in Reader, NEW at, NEW d, NEW b
  PROVE  Moved(r, at, d, b) = [look EXCEPT ![r] = MovedTo(r, at, d, b)]
<1> DEFINE l == look[r]
           x == [pc |-> l.pc, path |-> l.path, at |-> at, depth |-> d, best |-> b, seen |-> l.seen]
           l1 == [l EXCEPT !.at = at]
           l2 == [l1 EXCEPT !.depth = d]
           l3 == [l2 EXCEPT !.best = b]
<1>1. l \in Lookups /\ look \in [Reader -> Lookups]
  BY DEF TrieInv
<1> HIDE DEF l
<1>2. l = [pc |-> l.pc, path |-> l.path, at |-> l.at, depth |-> l.depth, best |-> l.best,
           seen |-> l.seen]
  BY <1>1 DEF Lookups
<1>3. l1 = [pc |-> l.pc, path |-> l.path, at |-> at, depth |-> l.depth, best |-> l.best,
            seen |-> l.seen]
  BY <1>2
<1> HIDE DEF l1
<1>4. l2 = [pc |-> l.pc, path |-> l.path, at |-> at, depth |-> d, best |-> l.best, seen |-> l.seen]
  BY <1>3
<1> HIDE DEF l2
<1>5. l3 = [pc |-> l.pc, path |-> l.path, at |-> at, depth |-> d, best |-> b, seen |-> l.seen]
  BY <1>4
<1>6. l3 = x
  BY <1>5
<1> HIDE DEF x
<1> HIDE DEF l3
<1> DEFINE y1 == [look EXCEPT ![r] = l1]
           y2 == [look EXCEPT ![r] = l2]
<1>7. y1 = [look EXCEPT ![r].at = at]
  BY DEF l1, l
<1>8. y1[r] = l1 /\ y2[r] = l2
  BY <1>1
<1>9. y2 = [y1 EXCEPT ![r].depth = d]
  <2>1. y2 = [y1 EXCEPT ![r] = l2]
    BY <1>1
  <2> HIDE DEF y1, y2
  <2> QED
    BY <1>8, <2>1 DEF l2
<1>10. [look EXCEPT ![r] = l3] = [y2 EXCEPT ![r].best = b]
  <2>1. [look EXCEPT ![r] = l3] = [y2 EXCEPT ![r] = l3]
    BY <1>1
  <2> HIDE DEF y1, y2
  <2> QED
    BY <1>8, <2>1 DEF l3
<1> HIDE DEF y1, y2
<1> QED
  BY <1>6, <1>7, <1>9, <1>10, Zenon DEF x, l, Moved, MovedTo

LEMMA FollowKeeps ==
  ASSUME TrieInv, NEW r \in Reader, Follow(r)
  PROVE  TrieInv' /\ StaysFrozen
<1> DEFINE l == look[r]
           d == l.depth
           s == l.path[d + 1]
           next == heap[l.at].kids[s]
           b == Better(l.best, next, d + 1)
           x == [pc |-> l.pc, path |-> l.path, at |-> next, depth |-> d + 1, best |-> b, seen |-> l.seen]
<1>1. /\ l.pc = "walk" /\ d < Len(l.path) /\ next # NoNode
      /\ heap' = Collected(heap, root, writer, look') /\ UNCHANGED <<root, writer>>
  BY DEF Follow
<1>2. HeapOK(heap) /\ l \in Lookups /\ LookSound(l, heap)
  BY DEF TrieInv
<1>3. look' = [look EXCEPT ![r] = x]
  <2>1. look' = Moved(r, next, d + 1, b)
    BY DEF Follow, Moved
  <2>2. x = MovedTo(r, next, d + 1, b)
    BY DEF MovedTo
  <2> HIDE DEF next, b, x
  <2> QED
    BY <2>1, <2>2, MovedIs
<1> HIDE DEF l
<1>4. /\ l.path \in Seq(Seg) /\ Len(l.path) \in Nat /\ d \in Nat /\ l.path \in Paths \cup {<< >>}
      /\ l.seen \in [Prefixes -> Target \cup {NilTarget}]
      /\ l.best \in [target : Target \cup {NilTarget}, depth : Nat] /\ l.at \in Node \cup {NoNode}
  BY <1>2, PathsAreSeqs DEF Lookups
<1>5. /\ l.best.depth <= Len(l.path)
      /\ l.at # NoNode /\ l.at[1] = SubSeq(l.path, 1, d)
      /\ \A f \in Fragments :
           l.at[1] \o f \in Prefixes => l.seen[l.at[1] \o f] = Cell(heap, Walk(heap, l.at, f)).target
      /\ IsBest(l.seen, l.path, d, l.best)
  BY <1>1, <1>2 DEF LookSound
<1>6. s \in Seg /\ SubSeq(l.path, 1, d + 1) = Append(SubSeq(l.path, 1, d), s)
  <2>1. d \in 0 .. Len(l.path)
    BY <1>1, <1>4
  <2> QED
    BY <1>1, <1>4, <2>1, PrefixPart
<1> HIDE DEF s
<1>7. next \in Node /\ next[1] = Append(l.at[1], s)
  <2>1. l.at \in Node
    BY <1>4, <1>5
  <2>2. next \in Node \cup {NoNode}
    BY <1>2, <1>6, <2>1 DEF HeapOK, Cells
  <2> QED
    BY <1>1, <1>2, <1>6, <2>1, <2>2 DEF HeapOK
<1>8. \A f \in Fragments :
        next[1] \o f \in Prefixes => l.seen[next[1] \o f] = Cell(heap, Walk(heap, next, f)).target
  BY <1>2, <1>4, <1>5, <1>6, <1>7, ChildSees, ZenonT(30)
<1> HIDE DEF next
<1>9. next[1] \in Prefixes => l.seen[next[1]] = heap[next].target
  <2>1. << >> \in Fragments /\ next[1] \o << >> = next[1] /\ Walk(heap, next, << >>) = next
    BY <1>7, NodesAre, ConcatEmptySeq, WalkEmpty DEF Fragments
  <2>2. Cell(heap, next) = heap[next]
    BY <1>1 DEF Cell
  <2> QED
    BY <1>8, <2>1, <2>2
<1> HIDE DEF d
<1>10. d + 1 \in Nat /\ d + 1 # 0 /\ (d + 1) - 1 = d /\ d + 1 <= Len(l.path)
  BY <1>1, <1>4
<1>11. IsBest(l.seen, l.path, d + 1, b)
  <2>1. next[1] = SubSeq(l.path, 1, d + 1)
    BY <1>5, <1>6, <1>7
  <2> DEFINE e == d + 1
  <2>2. e \in Nat /\ e # 0 /\ IsBest(l.seen, l.path, e - 1, l.best)
    BY <1>5, <1>10
  <2> HIDE DEF e
  <2>3. IsBest(l.seen, l.path, e, Better(l.best, next, e))
    BY <1>2, <1>7, <1>9, <2>1, <2>2, BetterIs DEF e
  <2> QED
    BY <2>3 DEF e
<1>12. b \in [target : Target \cup {NilTarget}, depth : Nat] /\ b.depth \in {l.best.depth, d + 1}
  BY <1>2, <1>4, <1>7, <1>10, BetterTyped
<1> HIDE DEF b
<1>13. /\ x.pc = "walk" /\ x.path = l.path /\ x.at = next /\ x.depth = d + 1 /\ x.best = b
       /\ x.seen = l.seen /\ x \in Lookups
  BY <1>1, <1>4, <1>7, <1>10, <1>12 DEF Lookups
<1> HIDE DEF x
<1>14. LookSound(x, heap)
  <2>1. x.at[1] = SubSeq(x.path, 1, x.depth) /\ x.at # NoNode
    BY <1>1, <1>5, <1>6, <1>7, <1>13
  <2>2. x.best.depth <= Len(x.path) /\ x.depth <= Len(x.path)
    BY <1>5, <1>10, <1>12, <1>13
  <2>3. \A f \in Fragments : x.at[1] \o f \in Prefixes =>
          x.seen[x.at[1] \o f] = Cell(heap, Walk(heap, x.at, f)).target
    BY <1>8, <1>13
  <2>4. IsBest(x.seen, x.path, x.depth, x.best)
    BY <1>11, <1>13
  <2> QED
    BY <1>13, <2>1, <2>2, <2>3, <2>4 DEF LookSound
<1>15. x.at \in Below(heap, l.at)
  <2>1. next = heap[l.at].kids[s] /\ l.at \in Node /\ l.at \in Below(heap, l.at)
    BY <1>2, <1>4, <1>5, BelowHas DEF next
  <2> QED
    BY <1>1, <1>2, <1>6, <1>13, <2>1, BelowHas
<1> QED
  BY <1>1, <1>3, <1>5, <1>13, <1>14, <1>15, LookMoves DEF l

\* Where a walk ends without a child, no longer beginning of its path is a hit.
LEMMA NoneBeyond ==
  ASSUME TrieInv, NEW r \in Reader, look[r].pc = "walk",
         look[r].depth < Len(look[r].path) =>
           heap[look[r].at].kids[look[r].path[look[r].depth + 1]] = NoNode,
         NEW i \in look[r].depth + 1 .. Len(look[r].path)
  PROVE  ~Hit(look[r].seen, look[r].path, i)
<1> DEFINE l == look[r]
           d == l.depth
           s == l.path[d + 1]
           at == l.at
           h == heap
<1>1. HeapOK(h) /\ l \in Lookups /\ LookSound(l, h)
  BY DEF TrieInv
<1>2. /\ l.path \in Seq(Seg) /\ Len(l.path) \in Nat /\ d \in Nat
  BY <1>1, PathsAreSeqs
<1>3. i \in Nat /\ d < Len(l.path) /\ i <= Len(l.path) /\ d + 1 <= i
  BY <1>2
<1>4. h[at].kids[s] = NoNode /\ l.pc = "walk"
  BY <1>3
<1> HIDE DEF l, h
<1>5. /\ at # NoNode /\ at \in Node /\ at[1] = SubSeq(l.path, 1, d)
      /\ \A f \in Fragments :
           at[1] \o f \in Prefixes => l.seen[at[1] \o f] = Cell(h, Walk(h, at, f)).target
  BY <1>1, <1>4 DEF LookSound, Lookups
<1>6. s \in Seg /\ SubSeq(l.path, 1, d + 1) = Append(at[1], s) /\ at[1] \in Seq(Seg)
  <2>1. d \in 0 .. Len(l.path)
    BY <1>2, <1>3
  <2> HIDE DEF at
  <2>2. at[1] \in Seq(Seg)
    BY <1>5, NodesAre
  <2>3. s \in Seg /\ SubSeq(l.path, 1, d + 1) = Append(SubSeq(l.path, 1, d), s)
    BY <1>2, <1>3, <2>1, PrefixPart
  <2> QED
    BY <1>5, <2>2, <2>3
<1> DEFINE g == SubSeq(l.path, d + 2, i)
<1>7. SubSeq(l.path, 1, i) = SubSeq(l.path, 1, d + 1) \o g
  <2>1. 1 \in 1 .. Len(l.path) + 1 /\ d + 1 \in 1 - 1 .. Len(l.path) /\ i \in d + 1 .. Len(l.path)
        /\ (d + 1) + 1 = d + 2
    BY <1>2, <1>3
  <2> QED
    BY <1>2, <2>1, ConcatAdjacentSubSeq
<1>8. g \in Seq(Seg)
  <2>1. \A j \in d + 2 .. i : l.path[j] \in Seg
    BY <1>2, <1>3, ElementOfSeq
  <2>2. d + 2 \in Int /\ i \in Int
    BY <1>2, <1>3
  <2> QED
    BY <2>1, <2>2, SubSeqProperties
<1> HIDE DEF s, g, at
<1> DEFINE f == <<s>> \o g
<1>9. SubSeq(l.path, 1, i) = at[1] \o f
  <2>1. Append(at[1], s) \o g = at[1] \o f
    BY <1>6, <1>8, OneMore
  <2> QED
    BY <1>6, <1>7, <2>1, Zenon
<1>10. f \in Seq(Seg) /\ Walk(h, at, f) = Walk(h, Kid(h, at, s), g)
  BY <1>6, <1>8, WalkFirst
<1>11. Walk(h, at, f) = NoNode
  <2>1. Kid(h, at, s) = NoNode
    BY <1>4, <1>5 DEF Kid
  <2> QED
    BY <1>8, <1>10, <2>1, WalkFromNowhere
<1> HIDE DEF f
<1>12. ASSUME SubSeq(l.path, 1, i) \in Prefixes
       PROVE  l.seen[SubSeq(l.path, 1, i)] = NilTarget
  <2>1. at[1] \o f \in Stems
    BY <1>9, <1>12, PrefixesAreStems, Zenon
  <2>2. f \in Fragments
    BY <1>6, <1>10, <2>1, RestIsFragment
  <2>3. l.seen[at[1] \o f] = Cell(h, Walk(h, at, f)).target
    BY <1>5, <1>9, <1>12, <2>2
  <2>4. Cell(h, Walk(h, at, f)).target = NilTarget
    BY <1>11, BlankIs DEF Cell
  <2> QED
    BY <1>9, <2>3, <2>4, Zenon
<1> QED
  BY <1>12 DEF Hit, l

Ended(r) == [look EXCEPT ![r].pc = "done", ![r].at = NoNode, ![r].depth = 0]
EndedAs(r) ==
  [pc |-> "done", path |-> look[r].path, at |-> NoNode, depth |-> 0, best |-> look[r].best,
   seen |-> look[r].seen]

LEMMA EndedIs ==
  ASSUME TrieInv, NEW r \in Reader
  PROVE  Ended(r) = [look EXCEPT ![r] = EndedAs(r)]
<1> DEFINE l == look[r]
           x == [pc |-> "done", path |-> l.path, at |-> NoNode, depth |-> 0, best |-> l.best,
                 seen |-> l.seen]
           l1 == [l EXCEPT !.pc = "done"]
           l2 == [l1 EXCEPT !.at = NoNode]
           l3 == [l2 EXCEPT !.depth = 0]
<1>1. l \in Lookups /\ look \in [Reader -> Lookups]
  BY DEF TrieInv
<1> HIDE DEF l
<1>2. l = [pc |-> l.pc, path |-> l.path, at |-> l.at, depth |-> l.depth, best |-> l.best,
           seen |-> l.seen]
  BY <1>1 DEF Lookups
<1>3. l1 = [pc |-> "done", path |-> l.path, at |-> l.at, depth |-> l.depth, best |-> l.best,
            seen |-> l.seen]
  BY <1>2
<1> HIDE DEF l1
<1>4. l2 = [pc |-> "done", path |-> l.path, at |-> NoNode, depth |-> l.depth, best |-> l.best,
            seen |-> l.seen]
  BY <1>3
<1> HIDE DEF l2
<1>5. l3 = [pc |-> "done", path |-> l.path, at |-> NoNode, depth |-> 0, best |-> l.best,
            seen |-> l.seen]
  BY <1>4
<1>6. l3 = x
  BY <1>5
<1> HIDE DEF x
<1> HIDE DEF l3
<1> DEFINE y1 == [look EXCEPT ![r] = l1]
           y2 == [look EXCEPT ![r] = l2]
<1>7. y1 = [look EXCEPT ![r].pc = "done"]
  BY DEF l1, l
<1>8. y1[r] = l1 /\ y2[r] = l2
  BY <1>1
<1>9. y2 = [y1 EXCEPT ![r].at = NoNode]
  <2>1. y2 = [y1 EXCEPT ![r] = l2]
    BY <1>1
  <2> HIDE DEF y1, y2
  <2> QED
    BY <1>8, <2>1 DEF l2
<1>10. [look EXCEPT ![r] = l3] = [y2 EXCEPT ![r].depth = 0]
  <2>1. [look EXCEPT ![r] = l3] = [y2 EXCEPT ![r] = l3]
    BY <1>1
  <2> HIDE DEF y1, y2
  <2> QED
    BY <1>8, <2>1 DEF l3
<1> HIDE DEF y1, y2
<1> QED
  BY <1>6, <1>7, <1>9, <1>10, Zenon DEF x, l, Ended, EndedAs

LEMMA ReturnKeeps ==
  ASSUME TrieInv, NEW r \in Reader, Return(r)
  PROVE  TrieInv' /\ StaysFrozen
<1> DEFINE l == look[r]
           x == EndedAs(r)
<1>1. /\ l.pc = "walk"
      /\ l.depth < Len(l.path) => heap[l.at].kids[l.path[l.depth + 1]] = NoNode
      /\ heap' = Collected(heap, root, writer, look') /\ UNCHANGED <<root, writer>>
  BY DEF Return
<1>2. look' = [look EXCEPT ![r] = x]
  <2>1. look' = Ended(r)
    BY DEF Return, Ended
  <2> HIDE DEF x
  <2> QED
    BY <2>1, EndedIs DEF x
<1>3. \A i \in l.depth + 1 .. Len(l.path) : ~Hit(l.seen, l.path, i)
  BY <1>1, NoneBeyond
<1>4. /\ x.pc = "done" /\ x.path = l.path /\ x.at = NoNode /\ x.depth = 0 /\ x.best = l.best
      /\ x.seen = l.seen
  BY DEF EndedAs
<1>5. l \in Lookups /\ LookSound(l, heap)
  BY DEF TrieInv
<1>6. x \in Lookups
  <2> HIDE DEF l
  <2>1. /\ l.path \in Paths \cup {<< >>} /\ l.seen \in [Prefixes -> Target \cup {NilTarget}]
        /\ l.best \in [target : Target \cup {NilTarget}, depth : Nat]
    BY <1>5 DEF Lookups
  <2> QED
    BY <2>1 DEF Lookups, EndedAs, l
<1> HIDE DEF l, x
<1>7. IsBest(l.seen, l.path, Len(l.path), l.best)
  <2>1. Len(l.path) \in Nat /\ l.depth \in Nat
    BY <1>5, PathsAreSeqs
  <2>2. l.depth <= Len(l.path) /\ IsBest(l.seen, l.path, l.depth, l.best)
    BY <1>1, <1>5 DEF LookSound
  <2> QED
    BY <1>3, <2>1, <2>2, BestStays
<1>8. l.best.depth <= Len(l.path)
  BY <1>5 DEF LookSound
<1>9. LookSound(x, heap)
  BY <1>4, <1>7, <1>8 DEF LookSound
<1> QED
  BY <1>1, <1>2, <1>4, <1>6, <1>9, LookMoves

\* The routes below a node are those of the nodes below it.
LEMMA TableStays ==
  ASSUME NEW h, HeapOK(h), NEW n \in Node, NEW g, \A m \in Below(h, n) : g[m] = h[m]
  PROVE  TableOf(g, n) = TableOf(h, n)
<1> DEFINE T(f, p) == LET m == Walk(f, n, p) IN IF m = NoNode THEN NilTarget ELSE f[m].target
<1>1. ASSUME NEW p \in Prefixes PROVE T(g, p) = T(h, p)
  <2>1. p \in Seq(Seg)
    BY PrefixesAreStems
  <2>2. Walk(g, n, p) = Walk(h, n, p) /\ Walk(h, n, p) \in Below(h, n) \cup {NoNode}
    BY <2>1, WalkUnchanged, BelowIs
  <2> QED
    BY <2>2
<1>2. TableOf(g, n) = [p \in Prefixes |-> T(g, p)] /\ TableOf(h, n) = [p \in Prefixes |-> T(h, p)]
  BY DEF TableOf
<1> HIDE DEF T
<1> QED
  BY <1>1, <1>2

LEMMA NotFoundKeeps ==
  ASSUME TrieInv, NotFound
  PROVE  TrieInv' /\ StaysFrozen
<1>1. root' = root /\ look' = look /\ writer' = Idle /\ heap' = Collected(heap, root', Idle, look')
  BY DEF NotFound
<1>2. /\ HeapOK(heap) /\ root' \in Node /\ root'[1] = << >> /\ Alive(heap, root')
      /\ look' \in [Reader -> Lookups] /\ \A r \in Reader : LookSound(look'[r], heap)
  BY <1>1 DEF TrieInv
<1>3. Published' /\ StaysFrozen
  BY <1>1, <1>2, IdleIs, Released
<1>4. Writing'
  BY <1>1, IdleWrites
<1> QED
  BY <1>3, <1>4 DEF TrieInv, Published, Writing

\* The copy h is published, and its routes are those of the trie from then on.
LEMMA StoreKeeps ==
  ASSUME TrieInv, writer.pc # "idle", NEW h, HeapOK(h),
         \A m \in Live(heap, root, Idle, look) : h[m] = heap[m], Alive(h, writer.path[1]), Store(h)
  PROVE  TrieInv' /\ StaysFrozen /\ TableOf(heap', root') = TableOf(h, writer.path[1])
<1>1. root' = writer.path[1] /\ look' = look /\ writer' = Idle /\ heap' = Collected(h, root', Idle, look')
  BY DEF Store
<1>2. writer.path[1] \in Node /\ writer.path[1][1] = << >>
  <2>1. 1 \in 1 .. Len(writer.path) /\ writer.path[1][1] = SubSeq(writer.prefix, 1, 1 - 1)
    BY PathIs
  <2>2. SubSeq(writer.prefix, 1, 1 - 1) = << >>
    BY NoSegments
  <2> QED
    BY <2>1, <2>2, PathIs
<1>3. \A r \in Reader : LookSound(look'[r], h)
  <2> SUFFICES ASSUME NEW r \in Reader PROVE LookSound(look[r], h)
    BY <1>1
  <2>1. HeapOK(heap) /\ look[r] \in Lookups /\ LookSound(look[r], heap)
    BY DEF TrieInv
  <2>2. look[r].at # NoNode => \A m \in Below(heap, look[r].at) : h[m] = heap[m]
    BY LiveIs
  <2> DEFINE l == look[r]
  <2>3. l \in Lookups /\ LookSound(l, heap) /\ (l.at # NoNode => \A m \in Below(heap, l.at) : h[m] = heap[m])
    BY <2>1, <2>2
  <2> HIDE DEF l
  <2>4. LookSound(l, h)
    BY <2>1, <2>3, LookKeeps
  <2> QED
    BY <2>4 DEF l
<1>4. look' \in [Reader -> Lookups] /\ root' \in Node /\ root'[1] = << >> /\ Alive(h, root')
  BY <1>1, <1>2 DEF TrieInv
<1>5. Published' /\ StaysFrozen /\ \A m \in Below(h, root') : heap'[m] = h[m]
  BY <1>1, <1>3, <1>4, IdleIs, Released
<1>6. Writing'
  BY <1>1, IdleWrites
<1>7. TableOf(heap', root') = TableOf(h, root')
  <2> DEFINE g == heap'
             n == root'
  <2>1. n \in Node /\ \A m \in Below(h, n) : g[m] = h[m]
    BY <1>4, <1>5
  <2> HIDE DEF g, n
  <2>2. TableOf(g, n) = TableOf(h, n)
    BY <2>1, TableStays
  <2> QED
    BY <2>2 DEF g, n
<1> QED
  BY <1>1, <1>5, <1>6, <1>7 DEF TrieInv, Published, Writing

\* Who walks looks at the children only.
LEMMA WalkSameKids ==
  ASSUME NEW h, HeapOK(h), NEW g, \A m \in Node : g[m].kids = h[m].kids, NEW n \in Node,
         NEW p \in Seq(Seg)
  PROVE  Walk(g, n, p) = Walk(h, n, p)
<1> DEFINE X == {q \in Seq(Seg) : Walk(g, n, q) = Walk(h, n, q)}
<1>1. << >> \in X
  BY WalkEmpty, EmptySeq
<1>2. ASSUME NEW q \in X, NEW s \in Seg PROVE Append(q, s) \in X
  <2>1. /\ Walk(h, n, Append(q, s)) = Kid(h, Walk(h, n, q), s)
        /\ Walk(g, n, Append(q, s)) = Kid(g, Walk(h, n, q), s) /\ Append(q, s) \in Seq(Seg)
    BY WalkAppend, AppendProperties
  <2>2. Walk(h, n, q) \in Node \cup {NoNode}
    BY WalkLeads
  <2> QED
    BY <2>1, <2>2 DEF Kid
<1> HIDE DEF X
<1>3. X = Seq(Seg)
  <2>1. X \subseteq Seq(Seg)
    BY DEF X
  <2> QED
    BY <1>1, <1>2, <2>1, SequencesAreBuilt
<1> QED
  BY <1>3 DEF X

-------------------------------------------------------------------------------
(* What the finished copy of the path leads to. *)

\* Where the writer has got, and the node that the root has there.
LEMMA ArrivedIs ==
  ASSUME TrieInv, Arrived
  PROVE  /\ writer.pc # "idle" /\ Len(writer.path) = Len(writer.prefix) + 1
         /\ Current = writer.path[Len(writer.path)] /\ Current \in Node
         /\ Current[1] = writer.prefix
         /\ writer.prefix = SubSeq(writer.prefix, 1, Len(writer.prefix))
         /\ Current \notin Live(heap, root, Idle, look)
<1>1. writer.pc # "idle" /\ Len(writer.path) = Len(writer.prefix) + 1
  BY DEF Arrived
<1>2. /\ Len(writer.path) \in 1 .. Len(writer.path) /\ Len(writer.path) - 1 = Len(writer.prefix)
      /\ writer.prefix \in Seq(Seg)
  BY <1>1, PathIs
<1>3. /\ writer.path[Len(writer.path)] \in Node
      /\ writer.path[Len(writer.path)][1] = SubSeq(writer.prefix, 1, Len(writer.path) - 1)
      /\ writer.path[Len(writer.path)] \notin Live(heap, root, Idle, look)
  BY <1>1, <1>2, PathIs
<1>4. SubSeq(writer.prefix, 1, Len(writer.prefix)) = writer.prefix
  BY <1>2, SubSeqFull
<1> QED
  BY <1>1, <1>2, <1>3, <1>4 DEF Current

\* The children of a node of the path: the next one, and those of the original.
LEMMA KidsOnPath ==
  ASSUME TrieInv, writer.pc # "idle", NEW i \in 1 .. Len(writer.path), NEW s \in Seg
  PROVE  /\ i < Len(writer.path) /\ s = writer.prefix[i] =>
              heap[writer.path[i]].kids[s] = writer.path[i + 1]
         /\ ~(i < Len(writer.path) /\ s = writer.prefix[i]) =>
              heap[writer.path[i]].kids[s] = Kid(heap, Original(heap, root, writer, i), s)
         /\ heap[writer.path[i]].target = Cell(heap, Original(heap, root, writer, i)).target
         /\ Original(heap, root, writer, i) = Walk(heap, root, SubSeq(writer.prefix, 1, i - 1))
         /\ Original(heap, root, writer, i) \in Below(heap, root) \cup {NoNode}
         /\ Original(heap, root, writer, i) \in Node \cup {NoNode}
<1> DEFINE o == Original(heap, root, writer, i)
<1>1. CopyAt(heap, root, writer, i) /\ HeapOK(heap) /\ root \in Node
  BY DEF TrieInv
<1>2. o = Walk(heap, root, SubSeq(writer.prefix, 1, i - 1))
  BY DEF Original
<1>3. SubSeq(writer.prefix, 1, i - 1) \in Seq(Seg)
  BY PathIs
<1>4. o \in Below(heap, root) \cup {NoNode} /\ o \in Node \cup {NoNode}
  BY <1>1, <1>2, <1>3, BelowIs, WalkLeads
<1>5. Kid(heap, o, s) = Cell(heap, o).kids[s]
  BY <1>1, <1>4, CellIs
<1> QED
  BY <1>1, <1>2, <1>4, <1>5 DEF CopyAt

\* What a beginning of a path is, that ends in s.
LEMMA BeginningsAre ==
  ASSUME NEW p \in Seq(Seg), NEW f \in Seq(Seg), NEW s \in Seg, NEW j \in 0 .. Len(p),
         Append(f, s) = SubSeq(p, 1, j)
  PROVE  j - 1 \in 0 .. Len(p) /\ f = SubSeq(p, 1, j - 1) /\ s = p[j]
<1>1. Len(Append(f, s)) = Len(f) + 1 /\ Len(f) \in Nat /\ Len(p) \in Nat
  BY AppendProperties, LenProperties
<1>2. Len(SubSeq(p, 1, j)) = j
  BY PrefixPart
<1>3. j = Len(f) + 1
  BY <1>1, <1>2
<1> DEFINE i == j - 1
<1>4. i \in 0 .. Len(p) /\ i < Len(p) /\ i + 1 = j
  BY <1>1, <1>3
<1> HIDE DEF i
<1>5. /\ SubSeq(p, 1, i + 1) = Append(SubSeq(p, 1, i), p[i + 1])
      /\ SubSeq(p, 1, i) \in Seq(Seg) /\ p[i + 1] \in Seg
  BY <1>4, PrefixPart
<1>6. Append(f, s) = Append(SubSeq(p, 1, i), p[j]) /\ p[j] \in Seg
  BY <1>4, <1>5
<1>7. f = SubSeq(p, 1, i) /\ s = p[j]
  BY <1>5, <1>6, AppendInjective
<1> QED
  BY <1>4, <1>7 DEF i

\* A beginning of the prefix leads to the writer's node, another path to where the root has it.
LEMMA CopyLeads ==
  ASSUME TrieInv, Arrived, NEW q \in Seq(Seg)
  PROVE  \/ \E k \in 0 .. Len(writer.prefix) :
              q = SubSeq(writer.prefix, 1, k) /\ Walk(heap, writer.path[1], q) = writer.path[k + 1]
         \/ /\ \A k \in 0 .. Len(writer.prefix) : q # SubSeq(writer.prefix, 1, k)
            /\ Walk(heap, writer.path[1], q) = Walk(heap, root, q)
<1> DEFINE p == writer.prefix
           path == writer.path
           h == heap
           OnPath(f, k) == f = SubSeq(p, 1, k) /\ Walk(h, path[1], f) = path[k + 1]
           Off(f) == /\ \A k \in 0 .. Len(p) : f # SubSeq(p, 1, k)
                     /\ Walk(h, path[1], f) = Walk(h, root, f)
           X == {f \in Seq(Seg) : (\E k \in 0 .. Len(p) : OnPath(f, k)) \/ Off(f)}
<1>1. /\ writer.pc # "idle" /\ Len(path) = Len(p) + 1 /\ p \in Seq(Seg) /\ Len(p) \in Nat
  BY ArrivedIs, PathIs
<1>2. ASSUME NEW i \in 1 .. Len(path), NEW s \in Seg
      PROVE  /\ path[i] # NoNode
             /\ i < Len(path) /\ s = p[i] => Kid(h, path[i], s) = path[i + 1]
             /\ ~(i < Len(path) /\ s = p[i]) =>
                  Kid(h, path[i], s) = Kid(h, Walk(h, root, SubSeq(p, 1, i - 1)), s)
  <2>1. path[i] # NoNode
    BY <1>1, PathIs, NodesAre
  <2> QED
    BY <1>1, <2>1, KidsOnPath DEF Kid
<1> HIDE DEF p, path, h
<1>3. << >> \in X
  <2>1. << >> = SubSeq(p, 1, 0) /\ Walk(h, path[1], << >>) = path[0 + 1] /\ 0 \in 0 .. Len(p)
    BY <1>1, NoSegments, WalkEmpty
  <2>2. OnPath(<< >>, 0) /\ << >> \in Seq(Seg)
    BY <2>1, EmptySeq
  <2> QED
    BY <2>1, <2>2
<1>4. ASSUME NEW f \in X, NEW s \in Seg PROVE Append(f, s) \in X
  <2> DEFINE fs == Append(f, s)
  <2>1. /\ Walk(h, path[1], fs) = Kid(h, Walk(h, path[1], f), s)
        /\ Walk(h, root, fs) = Kid(h, Walk(h, root, f), s)
        /\ fs \in Seq(Seg) /\ f \in Seq(Seg)
    BY WalkAppend, AppendProperties
  <2>2. \A j \in 0 .. Len(p) : fs = SubSeq(p, 1, j) =>
          j - 1 \in 0 .. Len(p) /\ f = SubSeq(p, 1, j - 1) /\ s = p[j]
    BY <1>1, <2>1, BeginningsAre
  <2> HIDE DEF fs
  <2>3. CASE \E k \in 0 .. Len(p) : OnPath(f, k)
    <3>1. PICK k \in 0 .. Len(p) : OnPath(f, k)
      BY <2>3
    <3> DEFINE i == k + 1
    <3>2. i \in 1 .. Len(path) /\ i - 1 = k /\ (i < Len(path) <=> k < Len(p))
      BY <1>1
    <3>3. f = SubSeq(p, 1, k) /\ Walk(h, path[1], f) = path[i]
      BY <3>1
    <3> HIDE DEF i
    <3>4. CASE k < Len(p) /\ s = p[i]
      <4>1. Walk(h, path[1], fs) = path[i + 1]
        BY <1>2, <2>1, <3>2, <3>3, <3>4
      <4>2. fs = SubSeq(p, 1, k + 1)
        BY <1>1, <3>3, <3>4, PrefixPart DEF i, fs
      <4>3. i \in 0 .. Len(p) /\ i = k + 1
        BY <1>1, <3>4 DEF i
      <4>4. OnPath(fs, i)
        BY <4>1, <4>2, <4>3
      <4> QED
        BY <2>1, <4>3, <4>4 DEF fs
    <3>5. CASE ~(k < Len(p) /\ s = p[i])
      <4>1. Walk(h, path[1], fs) = Walk(h, root, fs)
        BY <1>2, <2>1, <3>2, <3>3, <3>5
      <4>2. ASSUME NEW j \in 0 .. Len(p), fs = SubSeq(p, 1, j) PROVE FALSE
        <5>1. j - 1 \in 0 .. Len(p) /\ f = SubSeq(p, 1, j - 1) /\ s = p[j]
          BY <2>2, <4>2
        <5>2. Len(SubSeq(p, 1, j - 1)) = j - 1 /\ Len(SubSeq(p, 1, k)) = k
          BY <1>1, <5>1, PrefixPart
        <5>3. j = k + 1 /\ k < Len(p)
          BY <1>1, <3>3, <5>1, <5>2
        <5> QED
          BY <3>5, <5>1, <5>3 DEF i
      <4>3. Off(fs)
        BY <4>1, <4>2
      <4> QED
        BY <2>1, <4>3 DEF fs
    <3> QED
      BY <3>4, <3>5
  <2>4. CASE Off(f)
    <3>1. Walk(h, path[1], fs) = Walk(h, root, fs)
      BY <2>1, <2>4
    <3>2. \A j \in 0 .. Len(p) : fs # SubSeq(p, 1, j)
      BY <2>2, <2>4
    <3>3. Off(fs)
      BY <3>1, <3>2
    <3> QED
      BY <2>1, <3>3 DEF fs
  <2> QED
    BY <2>3, <2>4
<1> HIDE DEF X
<1>5. X = Seq(Seg)
  <2>1. X \subseteq Seq(Seg)
    BY DEF X
  <2> QED
    BY <1>3, <1>4, <2>1, SequencesAreBuilt
<1> QED
  BY <1>5 DEF X, p, path, h

\* A target at the end of the copy.
LEMMA TargetSet ==
  ASSUME TrieInv, Arrived, NEW t \in Target \cup {NilTarget},
         NEW h, h = Marked(heap, Current, t)
  PROVE  /\ HeapOK(h) /\ \A m \in Node : h[m].kids = heap[m].kids
         /\ h[Current].target = t /\ \A m \in Node \ {Current} : h[m] = heap[m]
         /\ \A m \in Live(heap, root, Idle, look) : h[m] = heap[m]
<1>1. /\ Current \in Node /\ Current[1] = writer.prefix /\ writer.prefix \in Prefixes
      /\ Current \notin Live(heap, root, Idle, look) /\ writer.pc # "idle"
  BY ArrivedIs, PathIs
<1>2. HeapOK(heap) /\ root \in Node
  BY DEF TrieInv
<1>3. HeapOK(h) /\ (\A o \in Node \ {Current} : h[o] = heap[o])
      /\ h[Current].target = t /\ h[Current].kids = heap[Current].kids
  BY <1>1, <1>2, TargetIsOK
<1>4. Live(heap, root, Idle, look) \subseteq Node
  BY <1>2, IdleIs, LookTyped, LiveUnchanged
<1> QED
  BY <1>1, <1>3, <1>4

\* It is the change of one route.
LEMMA CopyTable ==
  ASSUME TrieInv, Arrived, NEW t \in Target \cup {NilTarget},
         NEW h, h = Marked(heap, Current, t)
  PROVE  TableOf(h, writer.path[1]) = [TableOf(heap, root) EXCEPT ![writer.prefix] = t]
<1> DEFINE p == writer.prefix
           path == writer.path
           T == TableOf(heap, root)
           U == TableOf(h, path[1])
<1>1. /\ HeapOK(h) /\ HeapOK(heap) /\ root \in Node /\ path[1] \in Node /\ p \in Prefixes
      /\ Len(path) = Len(p) + 1 /\ Len(p) \in Nat /\ Current = path[Len(path)]
      /\ p = SubSeq(p, 1, Len(p)) /\ writer.pc # "idle" /\ p \in Seq(Seg)
  <2>1. 1 \in 1 .. Len(path)
    BY ArrivedIs, PathIs
  <2> QED
    BY <2>1, ArrivedIs, PathIs, TargetSet DEF TrieInv
<1>2. /\ \A m \in Node : h[m].kids = heap[m].kids
      /\ h[Current].target = t /\ \A m \in Node \ {Current} : h[m] = heap[m]
      /\ \A m \in Live(heap, root, Idle, look) : h[m] = heap[m]
  BY TargetSet
<1>3. T \in [Prefixes -> Target \cup {NilTarget}] /\ U \in [Prefixes -> Target \cup {NilTarget}]
      /\ (\A q \in Prefixes : T[q] = Cell(heap, Walk(heap, root, q)).target)
      /\ (\A q \in Prefixes : U[q] = Cell(h, Walk(h, path[1], q)).target)
  BY <1>1, TableIs
<1> HIDE DEF T, U
<1>4. ASSUME NEW q \in Prefixes PROVE U[q] = IF q = p THEN t ELSE T[q]
  <2>1. q \in Seq(Seg)
    BY PrefixesAreStems
  <2>2. Walk(h, path[1], q) = Walk(heap, path[1], q)
    BY <1>1, <1>2, <2>1, WalkSameKids
  <2>3. CASE \E k \in 0 .. Len(p) : q = SubSeq(p, 1, k) /\ Walk(heap, path[1], q) = path[k + 1]
    <3>1. PICK k \in 0 .. Len(p) : q = SubSeq(p, 1, k) /\ Walk(heap, path[1], q) = path[k + 1]
      BY <2>3
    <3> DEFINE i == k + 1
    <3>2. i \in 1 .. Len(path) /\ i - 1 = k /\ (k = Len(p) <=> i = Len(path))
      BY <1>1
    <3> HIDE DEF i
    <3>3. path[i] \in Node /\ path[i] # NoNode
      BY <1>1, <3>2, PathIs, NodesAre
    <3>4. U[q] = h[path[i]].target
      BY <1>3, <2>2, <3>1, <3>3 DEF Cell, i
    <3>5. CASE k = Len(p)
      BY <1>1, <1>2, <3>1, <3>2, <3>4, <3>5
    <3>6. CASE k # Len(p)
      <4>1. q # p
        BY <1>1, <3>1, <3>6, PrefixPart
      <4>2. path[i] # Current
        <5>1. Len(path) \in 1 .. Len(path) /\ i # Len(path)
          BY <1>1, <3>2, <3>6
        <5> QED
          BY <1>1, <3>2, <5>1, PathIs
      <4>3. h[path[i]] = heap[path[i]]
        BY <1>2, <3>3, <4>2
      <4>4. heap[path[i]].target = Cell(heap, Walk(heap, root, SubSeq(p, 1, i - 1))).target
        BY <1>1, <3>2 DEF TrieInv, CopyAt, Original
      <4> QED
        BY <1>3, <3>1, <3>2, <3>4, <4>1, <4>3, <4>4
    <3> QED
      BY <3>5, <3>6
  <2>4. CASE /\ \A k \in 0 .. Len(p) : q # SubSeq(p, 1, k)
             /\ Walk(heap, path[1], q) = Walk(heap, root, q)
    <3>1. q # p
      BY <1>1, <2>4
    <3> DEFINE m == Walk(heap, root, q)
    <3>2. m \in Below(heap, root) \cup {NoNode}
      BY <1>1, <2>1, BelowIs
    <3>3. Walk(h, path[1], q) = m
      BY <2>2, <2>4
    <3> HIDE DEF m
    <3>4. Cell(h, m) = Cell(heap, m)
      BY <1>2, <3>2, LiveIs DEF Cell
    <3> QED
      BY <1>3, <3>1, <3>3, <3>4 DEF m
  <2> QED
    BY <2>1, <2>3, <2>4, CopyLeads
<1>5. U = [T EXCEPT ![p] = t]
  BY <1>1, <1>3, <1>4
<1> QED
  BY <1>5 DEF U, T

\* The root is nobody's child.
LEMMA NotTheRoot ==
  ASSUME TrieInv, NEW m \in Below(heap, root), NEW s \in Seg, heap[m].kids[s] # NoNode
  PROVE  heap[m].kids[s] \in Below(heap, root) \ {root}
<1>1. HeapOK(heap) /\ root \in Node /\ root[1] = << >>
  BY DEF TrieInv
<1>2. m \in Node /\ heap[m].kids[s] \in Below(heap, root) /\ m[1] \in Seq(Seg)
  BY <1>1, BelowHas, NodesAre
<1>3. heap[m].kids[s][1] = Append(m[1], s)
  BY <1>1, <1>2 DEF HeapOK
<1>4. Append(m[1], s) # << >>
  BY <1>2, AppendProperties
<1> QED
  BY <1>1, <1>2, <1>3, <1>4

\* What is published reaches the first e nodes of the path and nodes that were reached before;
\* none of them is dead.
LEMMA StoredAlive ==
  ASSUME TrieInv, Arrived, NEW h, \A m \in Below(heap, root) : h[m] = heap[m],
         NEW e \in 1 .. Len(writer.path),
         \A k \in 1 .. e, s \in Seg :
           h[writer.path[k]].kids[s] \in {NoNode, heap[writer.path[k]].kids[s]},
         e < Len(writer.path) => h[writer.path[e]].kids[writer.prefix[e]] = NoNode,
         \A k \in 1 .. e - 1 : h[writer.path[k]].kids[writer.prefix[k]] = writer.path[k + 1],
         e = 1 \/ h[writer.path[e]] # Blank
  PROVE  Alive(h, writer.path[1])
<1> DEFINE p == writer.prefix
           path == writer.path
           C == {path[k] : k \in 1 .. e} \cup (Below(heap, root) \ {root})
<1>1. /\ HeapOK(heap) /\ root \in Node /\ writer.pc # "idle" /\ Len(path) \in Nat /\ Len(path) >= 1
      /\ Len(path) = Len(p) + 1 /\ p \in Seq(Seg) /\ Len(p) \in Nat
  BY ArrivedIs, PathIs DEF TrieInv
<1>2. e \in Nat /\ e >= 1 /\ e <= Len(path) /\ 1 \in 1 .. e /\ 1 .. e \subseteq 1 .. Len(path)
  BY <1>1
<1>3. \A k \in 1 .. Len(path) : path[k] \in Node /\ path[k] # NoNode
  BY <1>1, PathIs, NodesAre
<1>4. Below(heap, root) \subseteq Node /\ NoNode \notin Below(heap, root)
  BY <1>1, BelowHas, NodesAre
<1>5. path[1] \in C /\ NoNode \notin C
  BY <1>2, <1>3, <1>4
<1>6. ASSUME NEW m \in C, NEW s \in Seg PROVE h[m].kids[s] \in C \cup {NoNode}
  <2>1. CASE m \in Below(heap, root) \ {root}
    BY <2>1, NotTheRoot
  <2>2. CASE m \in {path[k] : k \in 1 .. e} /\ h[m].kids[s] # NoNode
    <3>1. PICK k \in 1 .. e : m = path[k]
      BY <2>2
    <3>2. k \in 1 .. Len(path) /\ k \in Nat
      BY <1>2
    <3>3. h[m].kids[s] = heap[path[k]].kids[s]
      BY <2>2, <3>1
    <3>4. CASE k < Len(path) /\ s = p[k]
      <4>1. heap[path[k]].kids[s] = path[k + 1]
        BY <1>1, <3>2, <3>4, KidsOnPath
      <4>2. k # e
        BY <2>2, <3>1, <3>4
      <4>3. k + 1 \in 1 .. e
        BY <1>2, <3>2, <4>2
      <4> QED
        BY <3>3, <4>1, <4>3
    <3>5. CASE ~(k < Len(path) /\ s = p[k])
      <4> DEFINE o == Original(heap, root, writer, k)
      <4>1. heap[path[k]].kids[s] = Kid(heap, o, s) /\ o \in Below(heap, root) \cup {NoNode}
        BY <1>1, <3>2, <3>5, KidsOnPath
      <4> HIDE DEF o
      <4>2. o # NoNode /\ Kid(heap, o, s) = heap[o].kids[s]
        BY <2>2, <3>3, <4>1 DEF Kid
      <4> QED
        BY <2>2, <3>3, <4>1, <4>2, NotTheRoot
    <3> QED
      BY <3>4, <3>5
  <2> QED
    BY <2>1, <2>2
<1>7. Below(h, path[1]) \subseteq C
  <2> HIDE DEF C
  <2> QED
    BY <1>5, <1>6, BelowStays
<1>8. ASSUME NEW n \in C, n # path[1] PROVE h[n] # Blank
  <2>1. CASE n \in Below(heap, root) \ {root}
    BY <2>1 DEF TrieInv, Alive
  <2>2. CASE n \in {path[k] : k \in 1 .. e}
    <3>1. PICK k \in 1 .. e : n = path[k]
      BY <2>2
    <3>2. k # 1 /\ k \in Nat /\ k <= e /\ e # 1
      BY <1>2, <1>8, <3>1
    <3>3. CASE k = e
      BY <3>1, <3>2, <3>3
    <3>4. CASE k # e
      <4>1. k \in 1 .. e - 1 /\ k \in 1 .. Len(p) /\ k + 1 \in 1 .. Len(path)
        BY <1>1, <1>2, <3>2, <3>4
      <4>2. h[n].kids[p[k]] # NoNode
        BY <1>3, <3>1, <4>1
      <4>3. p[k] \in Seg
        BY <1>1, <4>1, ElementOfSeq
      <4> QED
        BY <4>2, <4>3, BlankIs
    <3> QED
      BY <3>3, <3>4
  <2> QED
    BY <2>1, <2>2
<1> QED
  BY <1>7, <1>8 DEF Alive

LEMMA StoreAddedKeeps ==
  ASSUME TrieInv, StoreAdded
  PROVE  /\ TrieInv' /\ StaysFrozen /\ writer.prefix \in Prefixes /\ writer.target \in Target
         /\ TableOf(heap', root') = [TableOf(heap, root) EXCEPT ![writer.prefix] = writer.target]
<1> DEFINE h == Marked(heap, Current, writer.target)
           e == Len(writer.path)
<1>1. writer.pc = "add" /\ Arrived /\ Store(h)
  BY DEF StoreAdded, Marked
<1>2. /\ writer.pc # "idle" /\ Current = writer.path[e] /\ Current \in Node /\ e \in Nat /\ e >= 1
      /\ Current \notin Live(heap, root, Idle, look) /\ writer.prefix \in Prefixes
  BY <1>1, ArrivedIs, PathIs
<1>3. writer.target \in Target
  BY <1>1 DEF TrieInv, PathSound, Writers
<1> HIDE DEF h
<1>4. /\ HeapOK(h) /\ \A m \in Node : h[m].kids = heap[m].kids
      /\ h[Current].target = writer.target /\ \A m \in Node \ {Current} : h[m] = heap[m]
      /\ \A m \in Live(heap, root, Idle, look) : h[m] = heap[m]
  BY <1>1, <1>3, TargetSet DEF h
<1>5. TableOf(h, writer.path[1]) = [TableOf(heap, root) EXCEPT ![writer.prefix] = writer.target]
  BY <1>1, <1>3, CopyTable DEF h
<1>6. Alive(h, writer.path[1])
  <2>1. \A m \in Below(heap, root) : h[m] = heap[m]
    BY <1>4, LiveIs
  <2>2. e \in 1 .. Len(writer.path) /\ ~(e < Len(writer.path))
    BY <1>2
  <2>3. \A k \in 1 .. e, s \in Seg :
          h[writer.path[k]].kids[s] \in {NoNode, heap[writer.path[k]].kids[s]}
    BY <1>2, <1>4, PathIs
  <2>4. ASSUME NEW k \in 1 .. e - 1
        PROVE  h[writer.path[k]].kids[writer.prefix[k]] = writer.path[k + 1]
    <3>1. k \in 1 .. Len(writer.path) /\ k < Len(writer.path) /\ k \in 1 .. Len(writer.prefix)
      BY <1>1, <1>2, ArrivedIs, PathIs
    <3>2. writer.prefix[k] \in Seg /\ writer.path[k] \in Node
      BY <1>2, <3>1, PathIs, ElementOfSeq
    <3> QED
      BY <1>2, <1>4, <3>1, <3>2, KidsOnPath
  <2>5. h[writer.path[e]] # Blank
    BY <1>2, <1>3, <1>4, BlankIs, RouterAssumption
  <2> HIDE DEF e
  <2> QED
    BY <1>1, <2>1, <2>2, <2>3, <2>4, <2>5, StoredAlive
<1>7. TrieInv' /\ StaysFrozen /\ TableOf(heap', root') = TableOf(h, writer.path[1])
  BY <1>1, <1>2, <1>4, <1>6, StoreKeeps
<1> QED
  BY <1>2, <1>3, <1>5, <1>7

-------------------------------------------------------------------------------
(* Remove: the cut of the dead end of the path. *)

Cut(h, n, s) == [h EXCEPT ![n].kids[s] = NoNode]

LEMMA CutIs ==
  ASSUME NEW h, HeapOK(h), NEW n \in Node, NEW s \in Seg, NEW g, g = Cut(h, n, s)
  PROVE  /\ HeapOK(g) /\ \A o \in Node \ {n} : g[o] = h[o]
         /\ g[n].target = h[n].target /\ g[n].kids[s] = NoNode
         /\ \A o \in Seg \ {s} : g[n].kids[o] = h[n].kids[o]
<1>1. h \in [Node -> Cells] /\ h[n] \in Cells
  BY DEF HeapOK
<1> DEFINE c == [h[n] EXCEPT !.kids[s] = NoNode]
<1>2. g = [h EXCEPT ![n] = c]
  BY DEF Cut
<1>3. /\ c \in Cells /\ c.target = h[n].target /\ c.kids[s] = NoNode
      /\ \A o \in Seg \ {s} : c.kids[o] = h[n].kids[o]
  <2> DEFINE d == h[n]
  <2>1. d \in Cells /\ NoNode \in Node \cup {NoNode}
    BY <1>1
  <2> HIDE DEF d
  <2>2. LET f == [d EXCEPT !.kids[s] = NoNode]
        IN  f \in Cells /\ f.target = d.target /\ f.kids[s] = NoNode
            /\ \A o \in Seg \ {s} : f.kids[o] = d.kids[o]
    BY <2>1, KidChanged
  <2> QED
    BY <2>2 DEF d
<1> HIDE DEF c
<1>4. /\ g \in [Node -> Cells] /\ g[n] = c /\ \A o \in Node \ {n} : g[o] = h[o]
  BY <1>1, <1>2, <1>3
<1>5. HeapOK(g)
  BY <1>3, <1>4, HungIsOK
<1> QED
  BY <1>3, <1>4, <1>5

\* A node and those after it on the path are dead.
DeadFrom(h, d) ==
  \A j \in d .. Len(writer.path) :
    /\ h[writer.path[j]].target = NilTarget
    /\ \A s \in Seg : h[writer.path[j]].kids[s] # NoNode =>
         j < Len(writer.path) /\ s = writer.prefix[j]

\* No route is lost with them.
LEMMA CutTable ==
  ASSUME TrieInv, Arrived, NEW h, HeapOK(h), \A m \in Node : h[m].kids = heap[m].kids,
         NEW d \in 2 .. Len(writer.path), DeadFrom(h, d),
         NEW g, g = Cut(h, writer.path[d - 1], writer.prefix[d - 1])
  PROVE  TableOf(g, writer.path[1]) = TableOf(h, writer.path[1])
<1> DEFINE p == writer.prefix
           path == writer.path
           c == path[d - 1]
           t == p[d - 1]
           D == {path[j] : j \in d .. Len(path)}
           X == {q \in Seq(Seg) : \/ Walk(g, path[1], q) = Walk(h, path[1], q)
                                  \/ /\ Walk(g, path[1], q) = NoNode
                                     /\ Walk(h, path[1], q) \in D \cup {NoNode}}
<1>1. /\ writer.pc # "idle" /\ Len(path) = Len(p) + 1 /\ Len(p) \in Nat /\ p \in Seq(Seg)
      /\ d \in Nat /\ d >= 2 /\ d <= Len(path)
  BY ArrivedIs, PathIs
<1>2. /\ \A i \in 1 .. Len(path) : path[i] \in Node /\ path[i] # NoNode
      /\ \A i \in 1 .. Len(path) : i < Len(path) =>
           p[i] \in Seg /\ h[path[i]].kids[p[i]] = path[i + 1]
  <2>1. ASSUME NEW i \in 1 .. Len(path) PROVE path[i] \in Node /\ path[i] # NoNode
    BY <1>1, PathIs, NodesAre
  <2>2. ASSUME NEW i \in 1 .. Len(path), i < Len(path)
        PROVE  p[i] \in Seg /\ h[path[i]].kids[p[i]] = path[i + 1]
    <3>1. i \in 1 .. Len(p)
      BY <1>1, <2>2
    <3>2. p[i] \in Seg
      BY <1>1, <3>1, ElementOfSeq
    <3>3. heap[path[i]].kids[p[i]] = path[i + 1]
      BY <1>1, <2>2, <3>2, KidsOnPath
    <3> QED
      BY <2>1, <3>2, <3>3
  <2> QED
    BY <2>1, <2>2
<1>3. d - 1 \in 1 .. Len(path) /\ d - 1 < Len(path) /\ (d - 1) + 1 = d
  BY <1>1
<1>4. c \in Node /\ t \in Seg /\ h[c].kids[t] = path[d] /\ path[d] \in D
  <2>1. d \in d .. Len(path)
    BY <1>1
  <2> QED
    BY <1>2, <1>3, <2>1
<1>5. path[1] \in Node /\ D \subseteq Node /\ NoNode \notin D
  BY <1>1, <1>2
<1>6. \A m \in D : h[m].target = NilTarget /\ \A s \in Seg : h[m].kids[s] \in D \cup {NoNode}
  <2> SUFFICES ASSUME NEW j \in d .. Len(path)
               PROVE  /\ h[path[j]].target = NilTarget
                      /\ \A s \in Seg : h[path[j]].kids[s] \in D \cup {NoNode}
    OBVIOUS
  <2>1. h[path[j]].target = NilTarget
    BY DEF DeadFrom
  <2>2. ASSUME NEW s \in Seg, h[path[j]].kids[s] # NoNode PROVE h[path[j]].kids[s] \in D
    <3>1. j < Len(path) /\ s = p[j]
      BY <2>2 DEF DeadFrom
    <3>2. j \in 1 .. Len(path) /\ j + 1 \in d .. Len(path)
      BY <1>1, <3>1
    <3>3. h[path[j]].kids[s] = path[j + 1]
      BY <1>2, <3>1, <3>2
    <3> QED
      BY <3>2, <3>3
  <2> QED
    BY <2>1, <2>2
<1> HIDE DEF c, t
<1>7. /\ HeapOK(g) /\ \A o \in Node \ {c} : g[o] = h[o]
      /\ g[c].target = h[c].target /\ g[c].kids[t] = NoNode
      /\ \A o \in Seg \ {t} : g[c].kids[o] = h[c].kids[o]
  <2>1. c \in Node /\ t \in Seg
    BY <1>4
  <2>2. g = Cut(h, c, t)
    BY DEF c, t
  <2> QED
    BY <2>1, <2>2, CutIs
<1>8. \A m \in Node : g[m].target = h[m].target
  BY <1>7
<1> HIDE DEF D, p, path
<1>9. << >> \in X
  BY WalkEmpty, EmptySeq
<1>10. ASSUME NEW q \in Seq(Seg), q \in X, NEW s \in Seg PROVE Append(q, s) \in X
  <2> DEFINE qs == Append(q, s)
             a == Walk(g, path[1], q)
             b == Walk(h, path[1], q)
  <2>1. Walk(g, path[1], qs) = Kid(g, a, s) /\ Walk(h, path[1], qs) = Kid(h, b, s) /\ qs \in Seq(Seg)
    BY WalkAppend, AppendProperties
  <2>2. b \in Node \cup {NoNode}
    BY <1>5, WalkLeads
  <2>3. a = b \/ (a = NoNode /\ b \in D \cup {NoNode})
    BY <1>10
  <2> HIDE DEF a, b, qs, X
  <2>4. CASE a = b
    <3>1. CASE a = c /\ s = t
      <4>1. Kid(g, a, s) = NoNode /\ Kid(h, b, s) \in D \cup {NoNode}
        BY <1>4, <1>7, <2>4, <3>1 DEF Kid
      <4> QED
        BY <2>1, <4>1 DEF X, qs
    <3>2. CASE ~(a = c /\ s = t)
      <4>1. Kid(g, a, s) = Kid(h, b, s)
        BY <1>7, <2>2, <2>4, <3>2 DEF Kid
      <4> QED
        BY <2>1, <4>1 DEF X, qs
    <3> QED
      BY <3>1, <3>2
  <2>5. CASE a = NoNode /\ b \in D \cup {NoNode}
    <3>1. Kid(g, a, s) = NoNode /\ Kid(h, b, s) \in D \cup {NoNode}
      BY <1>6, <2>5 DEF Kid
    <3> QED
      BY <2>1, <3>1 DEF X, qs
  <2> QED
    BY <2>3, <2>4, <2>5
<1>11. X = Seq(Seg)
  <2>1. X \subseteq Seq(Seg)
    OBVIOUS
  <2> HIDE DEF X
  <2>2. \A q \in X, s \in Seg : Append(q, s) \in X
    BY <1>10, <2>1
  <2> QED
    BY <1>9, <2>1, <2>2, SequencesAreBuilt
<1>12. ASSUME NEW q \in Prefixes
       PROVE  Cell(g, Walk(g, path[1], q)).target = Cell(h, Walk(h, path[1], q)).target
  <2> DEFINE a == Walk(g, path[1], q)
             b == Walk(h, path[1], q)
  <2>1. q \in Seq(Seg)
    BY PrefixesAreStems
  <2>2. a = b \/ (a = NoNode /\ b \in D \cup {NoNode})
    BY <1>11, <2>1
  <2>3. b \in Node \cup {NoNode}
    BY <1>5, <2>1, WalkLeads
  <2> HIDE DEF a, b
  <2>4. Cell(g, a).target = Cell(h, b).target
    BY <1>5, <1>6, <1>8, <2>2, <2>3, BlankIs DEF Cell
  <2> QED
    BY <2>4 DEF a, b
<1>13. TableOf(g, path[1]) = TableOf(h, path[1])
  <2> DEFINE T == TableOf(g, path[1])
             U == TableOf(h, path[1])
  <2>1. /\ T \in [Prefixes -> Target \cup {NilTarget}] /\ U \in [Prefixes -> Target \cup {NilTarget}]
        /\ (\A q \in Prefixes : T[q] = Cell(g, Walk(g, path[1], q)).target)
        /\ (\A q \in Prefixes : U[q] = Cell(h, Walk(h, path[1], q)).target)
    BY <1>5, <1>7, TableIs
  <2> HIDE DEF T, U
  <2>2. T = U
    BY <1>12, <2>1
  <2> QED
    BY <2>2 DEF T, U
<1> QED
  BY <1>13 DEF path

\* The dead nodes of the path are its end, from the first of them.
LEMMA DeadIs ==
  ASSUME TrieInv, Arrived, NEW h, Dead(h) # {}
  PROVE  /\ Min(Dead(h)) \in 2 .. Len(writer.path) /\ DeadFrom(h, Min(Dead(h)))
         /\ \A i \in Dead(h) : Min(Dead(h)) <= i
<1>1. Len(writer.path) \in Nat
  BY ArrivedIs, PathIs
<1>2. Dead(h) \in SUBSET Nat /\ Dead(h) \subseteq 2 .. Len(writer.path)
  BY <1>1 DEF Dead
<1>3. \E n \in Dead(h) : \A m \in Dead(h) : n <= m
  BY <1>2, LeastElement
<1>4. Min(Dead(h)) \in Dead(h) /\ \A i \in Dead(h) : Min(Dead(h)) <= i
  BY <1>3 DEF Min
<1>5. ASSUME NEW i \in Dead(h) PROVE DeadFrom(h, i)
  BY DEF Dead, DeadFrom
<1> QED
  BY <1>2, <1>4, <1>5

\* A node that is not dead, on a path dead after it, has a route or a child off the path.
LEMMA NotDead ==
  ASSUME TrieInv, Arrived, NEW h, NEW d \in 2 .. Len(writer.path), DeadFrom(h, d),
         d - 1 \in 2 .. Len(writer.path), d - 1 \notin Dead(h)
  PROVE  \/ h[writer.path[d - 1]].target # NilTarget
         \/ \E s \in Seg \ {writer.prefix[d - 1]} : h[writer.path[d - 1]].kids[s] # NoNode
<1> DEFINE e == d - 1
<1>1. /\ Len(writer.path) \in Nat /\ d \in Nat /\ e \in Nat /\ e + 1 = d /\ e < Len(writer.path)
      /\ e \in 2 .. Len(writer.path)
  BY ArrivedIs, PathIs
<1> HIDE DEF e
<1>2. PICK j \in e .. Len(writer.path) :
        ~ (/\ h[writer.path[j]].target = NilTarget
           /\ \A s \in Seg : h[writer.path[j]].kids[s] # NoNode =>
                j < Len(writer.path) /\ s = writer.prefix[j])
  <2>1. e \notin Dead(h)
    BY DEF e
  <2> QED
    BY <1>1, <2>1 DEF Dead
<1>3. j = e \/ j \in d .. Len(writer.path)
  BY <1>1
<1>4. j = e
  BY <1>2, <1>3 DEF DeadFrom
<1>5. h[writer.path[e]].target # NilTarget
      \/ \E s \in Seg \ {writer.prefix[e]} : h[writer.path[e]].kids[s] # NoNode
  BY <1>1, <1>2, <1>4
<1> QED
  BY <1>5 DEF e

\* What remove publishes, when nothing is pruned.
LEMMA UnprunedAlive ==
  ASSUME TrieInv, Arrived, NEW h, \A m \in Node : h[m].kids = heap[m].kids,
         \A m \in Live(heap, root, Idle, look) : h[m] = heap[m], Dead(h) = {}
  PROVE  Alive(h, writer.path[1])
<1> DEFINE e == Len(writer.path)
<1>1. /\ writer.pc # "idle" /\ e \in Nat /\ e >= 1 /\ e = Len(writer.prefix) + 1
      /\ Len(writer.prefix) \in Nat
  BY ArrivedIs, PathIs
<1>2. \A m \in Below(heap, root) : h[m] = heap[m]
  BY LiveIs
<1>3. e \in 1 .. Len(writer.path) /\ ~(e < Len(writer.path))
  BY <1>1
<1>4. \A k \in 1 .. e, s \in Seg :
        h[writer.path[k]].kids[s] \in {NoNode, heap[writer.path[k]].kids[s]}
  BY <1>1, PathIs
<1>5. ASSUME NEW k \in 1 .. e - 1
      PROVE  h[writer.path[k]].kids[writer.prefix[k]] = writer.path[k + 1]
  <2>1. k \in 1 .. Len(writer.path) /\ k < Len(writer.path) /\ k \in 1 .. Len(writer.prefix)
    BY <1>1
  <2>2. writer.prefix[k] \in Seg /\ writer.path[k] \in Node
    BY <1>1, <2>1, PathIs, ElementOfSeq
  <2> QED
    BY <1>1, <2>1, <2>2, KidsOnPath
<1>6. e = 1 \/ h[writer.path[e]] # Blank
  <2> SUFFICES ASSUME e # 1 PROVE h[writer.path[e]] # Blank
    OBVIOUS
  <2>1. e \in 2 .. Len(writer.path) /\ \A j \in e .. Len(writer.path) : j = e
    BY <1>1
  <2>2. ~ (/\ h[writer.path[e]].target = NilTarget
           /\ \A s \in Seg : h[writer.path[e]].kids[s] # NoNode =>
                e < Len(writer.path) /\ s = writer.prefix[e])
    BY <2>1 DEF Dead
  <2> HIDE DEF e
  <2> QED
    BY <2>2, BlankIs
<1> HIDE DEF e
<1> QED
  BY <1>2, <1>3, <1>4, <1>5, <1>6, StoredAlive

\* And when the path is cut.
LEMMA CutAlive ==
  ASSUME TrieInv, Arrived, NEW h, HeapOK(h), \A m \in Node : h[m].kids = heap[m].kids,
         \A m \in Live(heap, root, Idle, look) : h[m] = heap[m],
         NEW d \in 2 .. Len(writer.path), DeadFrom(h, d), \A i \in Dead(h) : d <= i,
         NEW g, g = Cut(h, writer.path[d - 1], writer.prefix[d - 1])
  PROVE  /\ HeapOK(g) /\ Alive(g, writer.path[1])
         /\ \A m \in Live(heap, root, Idle, look) : g[m] = heap[m]
<1> DEFINE e == d - 1
           p == writer.prefix
           path == writer.path
           c == path[e]
<1>1. /\ writer.pc # "idle" /\ Len(path) \in Nat /\ Len(path) = Len(p) + 1 /\ Len(p) \in Nat
      /\ p \in Seq(Seg) /\ d \in Nat /\ d >= 2 /\ d <= Len(path)
  BY ArrivedIs, PathIs
<1>2. e \in Nat /\ e >= 1 /\ e < Len(path) /\ e + 1 = d /\ e \in 1 .. Len(path) /\ e \in 1 .. Len(p)
  BY <1>1
<1>3. c \in Node /\ c \notin Live(heap, root, Idle, look) /\ p[e] \in Seg
  BY <1>1, <1>2, PathIs, ElementOfSeq
<1>4. /\ HeapOK(g) /\ \A o \in Node \ {c} : g[o] = h[o]
      /\ g[c].target = h[c].target /\ g[c].kids[p[e]] = NoNode
      /\ \A o \in Seg \ {p[e]} : g[c].kids[o] = h[c].kids[o]
  BY <1>3, CutIs
<1>5. Live(heap, root, Idle, look) \subseteq Node
  BY IdleIs, LookTyped, LiveUnchanged DEF TrieInv
<1>6. \A m \in Live(heap, root, Idle, look) : g[m] = heap[m]
  BY <1>3, <1>4, <1>5
<1>7. \A m \in Below(heap, root) : g[m] = heap[m]
  BY <1>6, LiveIs
<1>8. ASSUME NEW k \in 1 .. e, NEW s \in Seg PROVE g[path[k]].kids[s] \in {NoNode, heap[path[k]].kids[s]}
  <2>1. path[k] \in Node
    BY <1>1, <1>2, PathIs
  <2>2. CASE path[k] = c /\ s = p[e]
    BY <1>4, <2>2
  <2>3. CASE ~(path[k] = c /\ s = p[e])
    <3>1. g[path[k]].kids[s] = h[path[k]].kids[s]
      BY <1>4, <2>1, <2>3
    <3> QED
      BY <2>1, <3>1
  <2> QED
    BY <2>2, <2>3
<1>9. ASSUME NEW k \in 1 .. e - 1 PROVE g[path[k]].kids[p[k]] = path[k + 1]
  <2>1. k \in 1 .. Len(path) /\ k < Len(path) /\ k \in 1 .. Len(p) /\ k # e
    BY <1>1, <1>2
  <2>2. p[k] \in Seg /\ path[k] \in Node /\ path[k] # c
    BY <1>1, <1>2, <2>1, PathIs, ElementOfSeq
  <2>3. g[path[k]] = h[path[k]] /\ h[path[k]].kids = heap[path[k]].kids
    BY <1>4, <2>2
  <2>4. heap[path[k]].kids[p[k]] = path[k + 1]
    BY <1>1, <2>1, <2>2, KidsOnPath
  <2> QED
    BY <2>3, <2>4
<1>10. e = 1 \/ g[c] # Blank
  <2> SUFFICES ASSUME e # 1 PROVE g[c] # Blank
    OBVIOUS
  <2>1. d - 1 \in 2 .. Len(path) /\ ~(d <= d - 1)
    BY <1>1, <1>2
  <2>2. d - 1 \notin Dead(h)
    BY <2>1
  <2>3. h[path[d - 1]].target # NilTarget \/ \E s \in Seg \ {p[d - 1]} : h[path[d - 1]].kids[s] # NoNode
    BY <2>1, <2>2, NotDead
  <2>4. h[c].target # NilTarget \/ \E s \in Seg \ {p[e]} : h[c].kids[s] # NoNode
    BY <2>3
  <2> HIDE DEF c, e
  <2> QED
    BY <1>4, <2>4, BlankIs
<1>11. Alive(g, path[1])
  <2>1. e \in 1 .. Len(path) /\ (e < Len(path) => g[path[e]].kids[p[e]] = NoNode)
    BY <1>2, <1>4
  <2>2. e = 1 \/ g[path[e]] # Blank
    BY <1>10
  <2> HIDE DEF e
  <2> QED
    BY <1>7, <1>8, <1>9, <2>1, <2>2, StoredAlive
<1> QED
  BY <1>4, <1>6, <1>11

LEMMA StoreRemovedKeeps ==
  ASSUME TrieInv, StoreRemoved
  PROVE  /\ TrieInv' /\ StaysFrozen /\ writer.prefix \in Prefixes
         /\ TableOf(heap', root') = [TableOf(heap, root) EXCEPT ![writer.prefix] = NilTarget]
<1> DEFINE h == Marked(heap, Current, NilTarget)
           g == Pruned(h)
<1>1. Arrived /\ Store(g)
  BY DEF StoreRemoved, Marked
<1>2. writer.pc # "idle" /\ writer.prefix \in Prefixes /\ NilTarget \in Target \cup {NilTarget}
  BY <1>1, ArrivedIs, PathIs
<1> HIDE DEF h
<1>3. /\ HeapOK(h) /\ \A m \in Node : h[m].kids = heap[m].kids
      /\ \A m \in Live(heap, root, Idle, look) : h[m] = heap[m]
  BY <1>1, <1>2, TargetSet DEF h
<1>4. TableOf(h, writer.path[1]) = [TableOf(heap, root) EXCEPT ![writer.prefix] = NilTarget]
  BY <1>1, <1>2, CopyTable DEF h
<1>5. /\ HeapOK(g) /\ Alive(g, writer.path[1])
      /\ \A m \in Live(heap, root, Idle, look) : g[m] = heap[m]
      /\ TableOf(g, writer.path[1]) = TableOf(h, writer.path[1])
  <2>1. CASE Dead(h) = {}
    <3>1. g = h
      BY <2>1 DEF Pruned
    <3>2. Alive(h, writer.path[1])
      BY <1>1, <1>3, <2>1, UnprunedAlive
    <3> QED
      BY <1>3, <3>1, <3>2
  <2>2. CASE Dead(h) # {}
    <3> DEFINE d == Min(Dead(h))
    <3>1. g = Cut(h, writer.path[d - 1], writer.prefix[d - 1])
      BY <2>2 DEF Pruned, Cut
    <3>2. d \in 2 .. Len(writer.path) /\ DeadFrom(h, d) /\ \A i \in Dead(h) : d <= i
      BY <1>1, <2>2, DeadIs
    <3> HIDE DEF d, g
    <3>3. /\ HeapOK(g) /\ Alive(g, writer.path[1])
          /\ \A m \in Live(heap, root, Idle, look) : g[m] = heap[m]
      BY <1>1, <1>3, <3>1, <3>2, CutAlive
    <3>4. TableOf(g, writer.path[1]) = TableOf(h, writer.path[1])
      BY <1>1, <1>3, <3>1, <3>2, CutTable
    <3> QED
      BY <3>3, <3>4
  <2> QED
    BY <2>1, <2>2
<1> HIDE DEF g
<1>6. TrieInv' /\ StaysFrozen /\ TableOf(heap', root') = TableOf(g, writer.path[1])
  BY <1>1, <1>2, <1>5, StoreKeeps
<1> QED
  BY <1>2, <1>4, <1>5, <1>6

LEMMA TrieBegins ==
  ASSUME TrieInit
  PROVE  TrieInv
<1>1. root = <<<< >>, 1>> /\ root \in Node /\ root[1] = << >> /\ root # NoNode
  <2>1. << >> \in Stems /\ 1 \in 1 .. Version
    BY RouterAssumption DEF Stems
  <2>2. root = <<<< >>, 1>>
    BY DEF TrieInit
  <2>3. root \in Node
    BY <2>1, <2>2, NodesAre
  <2> QED
    BY <2>2, <2>3, NodesAre
<1>2. heap \in [Node -> Cells] /\ \A n \in Node : heap[n] = Blank
  BY BlankIs DEF TrieInit
<1>3. HeapOK(heap)
  BY <1>2, BlankIs DEF HeapOK
<1>4. Alive(heap, root)
  <2> DEFINE C == {root}
  <2>1. root \in C /\ NoNode \notin C /\ \A m \in C, s \in Seg : heap[m].kids[s] \in C \cup {NoNode}
    BY <1>1, <1>2, BlankIs
  <2>2. Below(heap, root) \subseteq C
    <3> HIDE DEF C
    <3> QED
      BY <2>1, BelowStays
  <2> QED
    BY <2>2 DEF Alive
<1>5. /\ writer \in Writers /\ PathSound(writer, Live(heap, root, Idle, look))
      /\ \A i \in 1 .. Len(writer.path) : CopyAt(heap, root, writer, i)
  <2>1. writer = Idle
    BY DEF TrieInit
  <2>2. Len(<< >>) = 0 /\ \A i \in 1 .. 0 : FALSE
    OBVIOUS
  <2> QED
    BY <2>1, <2>2, IdleIs DEF PathSound
<1> DEFINE x == NoLookup
<1>6. /\ x.pc = "idle" /\ x.path = << >> /\ x.at = NoNode /\ x.depth = 0 /\ x.best = NoMatch
      /\ x \in Lookups /\ x.best.depth = 0
  BY DEF NoLookup, Lookups, NoMatch
<1>7. look = [r \in Reader |-> x]
  BY DEF TrieInit
<1> HIDE DEF x
<1>8. LookSound(x, heap)
  <2>1. Len(<< >>) = 0
    OBVIOUS
  <2> QED
    BY <1>6, <2>1 DEF LookSound
<1>9. look \in [Reader -> Lookups] /\ \A r \in Reader : LookSound(look[r], heap)
  BY <1>6, <1>7, <1>8
<1> QED
  BY <1>1, <1>3, <1>4, <1>5, <1>9 DEF TrieInv

LEMMA TrieKeeps ==
  ASSUME TrieInv, [TrieNext]_trieVars
  PROVE  TrieInv' /\ StaysFrozen
<1>1. ASSUME NEW p \in Prefixes, Remove(p) PROVE TrieInv' /\ StaysFrozen
  <2>1. Lock("remove", p, NilTarget)
    BY <1>1 DEF Remove
  <2>2. "remove" \in {"add", "remove"} /\ "remove" # "add" /\ NilTarget \in Target \cup {NilTarget}
    OBVIOUS
  <2> QED
    BY <2>1, <2>2, LockKeeps
<1>2. ASSUME NEW p \in Prefixes, NEW t \in Target, Add(p, t) PROVE TrieInv' /\ StaysFrozen
  <2>1. Lock("add", p, t)
    BY <1>2 DEF Add
  <2>2. t # NilTarget /\ t \in Target \cup {NilTarget}
    BY RouterAssumption
  <2> QED
    BY <2>1, <2>2, LockKeeps
<1>3. CASE Descend
  BY <1>3, DescendKeeps
<1>4. CASE StoreAdded
  BY <1>4, StoreAddedKeeps
<1>5. CASE StoreRemoved
  BY <1>5, StoreRemovedKeeps
<1>6. CASE NotFound
  BY <1>6, NotFoundKeeps
<1>7. ASSUME NEW r \in Reader, Load(r) PROVE TrieInv' /\ StaysFrozen
  BY <1>7, LoadKeeps
<1>8. ASSUME NEW r \in Reader, Follow(r) PROVE TrieInv' /\ StaysFrozen
  BY <1>8, FollowKeeps
<1>9. ASSUME NEW r \in Reader, Return(r) PROVE TrieInv' /\ StaysFrozen
  BY <1>9, ReturnKeeps
<1>10. ASSUME NEW r \in Reader, Leave(r) PROVE TrieInv' /\ StaysFrozen
  BY <1>10, LeaveKeeps
<1>11. CASE UNCHANGED trieVars
  <2>1. heap' = heap /\ root' = root /\ writer' = writer /\ look' = look
    BY <1>11 DEF trieVars
  <2>2. TrieInv'
    BY <2>1 DEF TrieInv
  <2> QED
    BY <2>1, <2>2 DEF StaysFrozen
<1> QED
  BY <1>1, <1>2, <1>3, <1>4, <1>5, <1>6, <1>7, <1>8, <1>9, <1>10, <1>11 DEF TrieNext

LEMMA TrieTyped ==
  ASSUME TrieInv
  PROVE  TrieTypeOK
<1>1. heap \in [Node -> [kids : [Seg -> Node \cup {NoNode}], target : Target \cup {NilTarget}]]
  BY DEF TrieInv, HeapOK, Cells
<1>2. /\ root \in Node /\ writer.pc \in {"idle", "add", "remove"} /\ writer.prefix \in Prefixes \cup {<< >>}
      /\ writer.target \in Target \cup {NilTarget} /\ writer.path \in Seq(Node)
  BY DEF TrieInv, Writers
<1>3. ASSUME NEW r \in Reader
      PROVE  /\ look[r].pc \in {"idle", "walk", "done"}
             /\ look[r].path \in Paths \cup {<< >>}
             /\ look[r].at \in Node \cup {NoNode}
             /\ look[r].best.target \in Target \cup {NilTarget}
             /\ look[r].best.depth \in 0 .. Len(look[r].path)
  <2> DEFINE l == look[r]
  <2>1. l \in Lookups /\ l.best.depth <= Len(l.path)
    BY DEF TrieInv, LookSound
  <2> HIDE DEF l
  <2>2. Len(l.path) \in Nat
    BY <2>1, PathsAreSeqs
  <2>3. l.best.depth \in 0 .. Len(l.path)
    BY <2>1, <2>2 DEF Lookups
  <2>4. /\ l.pc \in {"idle", "walk", "done"} /\ l.path \in Paths \cup {<< >>} /\ l.at \in Node \cup {NoNode}
        /\ l.best.target \in Target \cup {NilTarget}
    BY <2>1 DEF Lookups
  <2> QED
    BY <2>3, <2>4 DEF l
<1> QED
  BY <1>1, <1>2, <1>3 DEF TrieTypeOK

LEMMA TrieInvariance == TrieSpec => []TrieInv
<1>1. TrieInit => TrieInv
  BY TrieBegins
<1>2. TrieInv /\ [TrieNext]_trieVars => TrieInv'
  BY TrieKeeps
<1> QED
  BY <1>1, <1>2, PTL DEF TrieSpec

\* A pointer of the trie leads to a node of the heap, a best match is no longer than the path.
THEOREM TrieTypeCorrect == TrieSpec => []TrieTypeOK
<1>1. TrieInv => TrieTypeOK
  BY TrieTyped
<1> QED
  BY <1>1, TrieInvariance, PTL

\* Remove prunes all it should: no published node but the root is without a route and a child.
THEOREM PrunedForGood == TrieSpec => []NoDeadBranch
<1>1. TrieInv => NoDeadBranch
  BY DEF TrieInv, Alive, NoDeadBranch
<1> QED
  BY <1>1, TrieInvariance, PTL

\* Add and Remove change no node that the root or a lookup can reach and goes on reaching:
\* Match needs no lock.
THEOREM FrozenOncePublished == TrieSpec => PublishedIsFrozen
<1>1. TrieInv /\ [TrieNext]_trieVars =>
        [\A n \in Node :
           /\ n \in Live(heap, root, Idle, look)
           /\ n \in Live(heap', root', Idle, look')
           => heap'[n] = heap[n]]_trieVars
  BY TrieKeeps DEF StaysFrozen
<1> QED
  BY <1>1, TrieInvariance, PTL DEF TrieSpec, PublishedIsFrozen

-------------------------------------------------------------------------------
(* The trie is a table. *)

\* Nodes that stay frozen keep their routes.
LEMMA FrozenTable ==
  ASSUME TrieInv, TrieInv', StaysFrozen, root' = root
  PROVE  TableOf(heap', root') = TableOf(heap, root)
<1> DEFINE g == heap'
           X == {q \in Seq(Seg) : Walk(g, root, q) = Walk(heap, root, q)}
<1>1. HeapOK(heap) /\ HeapOK(g) /\ root \in Node
  BY DEF TrieInv
<1>2. \A m \in Below(heap, root) \cap Below(g, root) : g[m] = heap[m]
  <2>1. Below(heap, root) \subseteq Node
    BY <1>1, BelowHas
  <2>2. /\ \A m \in Below(heap, root) : m \in Live(heap, root, Idle, look)
        /\ \A m \in Below(heap', root') : m \in Live(heap', root', Idle, look')
    BY LiveIs
  <2> QED
    BY <2>1, <2>2 DEF StaysFrozen
<1> HIDE DEF g
<1>3. << >> \in X
  BY WalkEmpty, EmptySeq
<1>4. ASSUME NEW q \in X, NEW s \in Seg PROVE Append(q, s) \in X
  <2>1. /\ Walk(heap, root, Append(q, s)) = Kid(heap, Walk(heap, root, q), s)
        /\ Walk(g, root, Append(q, s)) = Kid(g, Walk(heap, root, q), s) /\ Append(q, s) \in Seq(Seg)
    BY WalkAppend, AppendProperties
  <2>2. /\ Walk(heap, root, q) \in Below(heap, root) \cup {NoNode}
        /\ Walk(heap, root, q) \in Below(g, root) \cup {NoNode}
    BY <1>1, BelowIs
  <2> QED
    BY <1>2, <2>1, <2>2 DEF Kid
<1> HIDE DEF X
<1>5. X = Seq(Seg)
  <2>1. X \subseteq Seq(Seg)
    BY DEF X
  <2> QED
    BY <1>3, <1>4, <2>1, SequencesAreBuilt
<1>6. \A q \in Seq(Seg) : Walk(g, root, q) = Walk(heap, root, q)
  BY <1>5 DEF X
<1>7. \A m \in Below(heap, root) : g[m] = heap[m]
  <2>1. Below(g, root) = Below(heap, root)
    BY <1>6, StemsAreSeqs DEF Below
  <2> QED
    BY <1>2, <2>1
<1>8. TableOf(g, root) = TableOf(heap, root)
  BY <1>1, <1>7, TableStays
<1> QED
  BY <1>8 DEF g

\* The answer of a lookup, as the table sees it.
Answered(l) ==
  [pc |-> l.pc, path |-> l.path, seen |-> l.seen, result |-> IF l.pc = "done" THEN l.best ELSE NoMatch]

LEMMA BestIsLongest ==
  ASSUME NEW tab, NEW path, Len(path) \in Nat,
         NEW best \in [target : Target \cup {NilTarget}, depth : Nat],
         IsBest(tab, path, Len(path), best)
  PROVE  best = Table!LongestPrefix(tab, path)
<1> DEFINE H == Table!Hits(tab, path)
<1>1. H = {n \in 0 .. Len(path) : Hit(tab, path, n)}
  BY DEF Table!Hits, Hit
<1>2. CASE best = NoMatch /\ \A n \in 0 .. Len(path) : ~Hit(tab, path, n)
  <2>1. H = {}
    BY <1>1, <1>2
  <2> QED
    BY <1>2, <2>1 DEF Table!LongestPrefix, Table!NoMatch, NoMatch
<1>3. CASE /\ best.depth \in 0 .. Len(path) /\ Hit(tab, path, best.depth)
           /\ best.target = tab[SubSeq(path, 1, best.depth)]
           /\ \A n \in best.depth + 1 .. Len(path) : ~Hit(tab, path, n)
  <2>1. best.depth \in H
    BY <1>1, <1>3
  <2>2. \A n \in H : n <= best.depth /\ n \in Nat
    BY <1>1, <1>3
  <2> HIDE DEF H
  <2>3. Table!Max(H) = best.depth
    <3>1. Table!Max(H) \in H /\ \A n \in H : Table!Max(H) >= n
      BY <2>1, <2>2 DEF Table!Max
    <3> QED
      BY <2>1, <2>2, <3>1
  <2>4. best = [target |-> best.target, depth |-> best.depth]
    OBVIOUS
  <2>5. Table!LongestPrefix(tab, path) =
          [target |-> tab[SubSeq(path, 1, Table!Max(H))], depth |-> Table!Max(H)]
    BY <2>1 DEF Table!LongestPrefix, H
  <2> QED
    BY <1>3, <2>3, <2>4, <2>5
<1> QED
  BY <1>2, <1>3 DEF IsBest

\* The table's view of a lookup that is replaced.
LEMMA AnsweredIs ==
  ASSUME NEW l, l \in [Reader -> Lookups], NEW r \in Reader, NEW x
  PROVE  [o \in Reader |-> Answered([l EXCEPT ![r] = x][o])]
           = [[o \in Reader |-> Answered(l[o])] EXCEPT ![r] = Answered(x)]
OBVIOUS

TabledLook == [r \in Reader |-> Answered(look[r])]

LEMMA ChangeSteps ==
  ASSUME TrieInv, StoreAdded \/ StoreRemoved
  PROVE  Table!Change
<1>1. look' = look
  BY DEF StoreAdded, StoreRemoved, Store
<1>2. PICK p \in Prefixes, t \in Target \cup {NilTarget} :
        TableOf(heap', root') = [TableOf(heap, root) EXCEPT ![p] = t]
  <2>1. CASE StoreAdded
    BY <2>1, StoreAddedKeeps
  <2>2. CASE StoreRemoved
    BY <2>2, StoreRemovedKeeps
  <2> QED
    BY <2>1, <2>2
<1> QED
  BY <1>1, <1>2 DEF Table!Change

\* A lookup that is replaced, and the same trie.
LEMMA TabledIs ==
  ASSUME TrieInv, NEW r \in Reader, NEW x, look' = [look EXCEPT ![r] = x]
  PROVE  /\ TabledLook' = [TabledLook EXCEPT ![r] = Answered(x)]
         /\ TabledLook[r] = Answered(look[r])
<1>1. look \in [Reader -> Lookups]
  BY DEF TrieInv
<1>2. [o \in Reader |-> Answered(look'[o])] = [[o \in Reader |-> Answered(look[o])] EXCEPT ![r] = Answered(x)]
  BY <1>1, AnsweredIs
<1> QED
  BY <1>2 DEF TabledLook

LEMMA BeginSteps ==
  ASSUME TrieInv, NEW r \in Reader, Load(r)
  PROVE  Table!Begin(r)
<1> DEFINE tab == TableOf(heap, root)
           b == Better(NoMatch, root, 0)
<1>1. look[r].pc = "idle" /\ heap' = heap /\ root' = root
  BY DEF Load
<1>2. PICK path \in Paths :
        look' = [look EXCEPT ![r] =
                  [NoLookup EXCEPT !.pc = "walk", !.path = path, !.at = root, !.best = b, !.seen = tab]]
  BY DEF Load
<1> HIDE DEF tab, b
<1> DEFINE x == [NoLookup EXCEPT !.pc = "walk", !.path = path, !.at = root, !.best = b, !.seen = tab]
           n == Table!NoLookup
           y == [n EXCEPT !.pc = "walk", !.path = path, !.seen = tab]
<1>3. TabledLook' = [TabledLook EXCEPT ![r] = Answered(x)] /\ TabledLook[r] = Answered(look[r])
  <2> HIDE DEF x
  <2>1. look' = [look EXCEPT ![r] = x]
    BY <1>2 DEF x
  <2> QED
    BY <2>1, TabledIs
<1>4. x.pc = "walk" /\ x.path = path /\ x.seen = tab
  <2> DEFINE x1 == [NoLookup EXCEPT !.pc = "walk"]
             x2 == [x1 EXCEPT !.path = path]
             x3 == [x2 EXCEPT !.at = root]
             x4 == [x3 EXCEPT !.best = b]
             e == NoLookup.seen
  <2>1. x1 = [pc |-> "walk", path |-> << >>, at |-> NoNode, depth |-> 0, best |-> NoMatch, seen |-> e]
    BY DEF NoLookup
  <2> HIDE DEF x1, e
  <2>2. x2 = [pc |-> "walk", path |-> path, at |-> NoNode, depth |-> 0, best |-> NoMatch, seen |-> e]
    BY <2>1
  <2> HIDE DEF x2
  <2>3. x3 = [pc |-> "walk", path |-> path, at |-> root, depth |-> 0, best |-> NoMatch, seen |-> e]
    BY <2>2
  <2> HIDE DEF x3
  <2>4. x4 = [pc |-> "walk", path |-> path, at |-> root, depth |-> 0, best |-> b, seen |-> e]
    BY <2>3
  <2> HIDE DEF x4
  <2>5. x = [x4 EXCEPT !.seen = tab]
    BY Zenon DEF x1, x2, x3, x4
  <2> QED
    BY <2>4, <2>5
<1>5. y = [pc |-> "walk", path |-> path, seen |-> tab, result |-> NoMatch]
  <2> DEFINE y1 == [n EXCEPT !.pc = "walk"]
             y2 == [y1 EXCEPT !.path = path]
             e == n.seen
  <2>1. y1 = [pc |-> "walk", path |-> << >>, seen |-> e, result |-> NoMatch]
    BY DEF Table!NoLookup, Table!NoMatch, NoMatch
  <2> HIDE DEF y1, e
  <2>2. y2 = [pc |-> "walk", path |-> path, seen |-> e, result |-> NoMatch]
    BY <2>1
  <2> HIDE DEF y2, n
  <2>3. y = [y2 EXCEPT !.seen = tab]
    BY Zenon DEF y1, y2
  <2> HIDE DEF y
  <2> QED
    BY <2>2, <2>3
<1> HIDE DEF x, y
<1>6. Answered(x) = y
  BY <1>4, <1>5 DEF Answered
<1>7. TabledLook[r].pc = "idle" /\ TabledLook' = [TabledLook EXCEPT ![r] = y]
  <2>1. TabledLook[r].pc = look[r].pc
    BY <1>3 DEF Answered
  <2> QED
    BY <1>1, <1>3, <1>6, <2>1
<1>8. TableOf(heap', root') = TableOf(heap, root)
  BY <1>1
<1> QED
  BY <1>7, <1>8, Zenon DEF y, n, tab, TabledLook, Answered, Table!Begin

LEMMA AnswerSteps ==
  ASSUME TrieInv, NEW r \in Reader, Return(r)
  PROVE  Table!Answer(r)
<1> DEFINE l == look[r]
           x == EndedAs(r)
           a == Answered(l)
           m == Table!LongestPrefix(a.seen, a.path)
           a1 == [a EXCEPT !.pc = "done"]
           y == [a1 EXCEPT !.result = m]
<1>1. l.pc = "walk" /\ root' = root /\ look' = [look EXCEPT ![r] = x]
  <2>1. l.pc = "walk" /\ root' = root /\ look' = Ended(r)
    BY DEF Return, Ended
  <2> HIDE DEF x
  <2> QED
    BY <2>1, EndedIs DEF x
<1>2. TrieInv' /\ StaysFrozen
  BY ReturnKeeps
<1>3. TableOf(heap', root') = TableOf(heap, root)
  BY <1>1, <1>2, FrozenTable
<1>4. look'[r] = x /\ LookSound(x, heap') /\ x \in Lookups
  <2>1. look \in [Reader -> Lookups]
    BY DEF TrieInv
  <2>2. LookSound(look'[r], heap') /\ look'[r] \in Lookups
    BY <1>2 DEF TrieInv
  <2> HIDE DEF x
  <2> QED
    BY <1>1, <2>1, <2>2
<1>5. /\ x.pc = "done" /\ x.path = l.path /\ x.best = l.best /\ x.seen = l.seen
  BY DEF EndedAs
<1> HIDE DEF x, l
<1>6. x.best = Table!LongestPrefix(x.seen, x.path)
  <2>1. IsBest(x.seen, x.path, Len(x.path), x.best)
    BY <1>4, <1>5 DEF LookSound
  <2>2. Len(x.path) \in Nat /\ x.best \in [target : Target \cup {NilTarget}, depth : Nat]
    BY <1>4, PathsAreSeqs DEF Lookups
  <2> QED
    BY <2>1, <2>2, BestIsLongest
<1>7. a = [pc |-> "walk", path |-> l.path, seen |-> l.seen, result |-> NoMatch]
  BY <1>1 DEF Answered
<1>8. m = x.best
  BY <1>5, <1>6, <1>7
<1> HIDE DEF a, m
<1>9. a1 = [pc |-> "done", path |-> l.path, seen |-> l.seen, result |-> NoMatch]
  BY <1>7
<1> HIDE DEF a1
<1>10. y = [pc |-> "done", path |-> l.path, seen |-> l.seen, result |-> x.best]
  BY <1>8, <1>9
<1>11. Answered(x) = y
  BY <1>5, <1>10 DEF Answered
<1> HIDE DEF y
<1>12. TabledLook' = [TabledLook EXCEPT ![r] = y] /\ TabledLook[r] = a
  BY <1>1, <1>11, TabledIs DEF a, l
<1>13. TabledLook[r].pc = "walk"
  BY <1>7, <1>12
<1>14. TabledLook' = [TabledLook EXCEPT ![r].pc = "done", ![r].result = m]
  <2> DEFINE t == TabledLook
             t1 == [t EXCEPT ![r] = a1]
  <2>1. t = [o \in Reader |-> t[o]] /\ t[r] = a
    BY <1>12 DEF TabledLook
  <2> HIDE DEF t
  <2>2. t1 = [t EXCEPT ![r].pc = "done"]
    BY <2>1 DEF a1
  <2>3. t1[r] = a1 /\ [t EXCEPT ![r] = y] = [t1 EXCEPT ![r] = y]
    BY <2>1
  <2> HIDE DEF t1
  <2>4. [t1 EXCEPT ![r] = y] = [t1 EXCEPT ![r].result = m]
    BY <2>3 DEF y
  <2>5. [t EXCEPT ![r] = y] = [t EXCEPT ![r].pc = "done", ![r].result = m]
    BY <2>2, <2>3, <2>4, Zenon
  <2> QED
    BY <1>12, <2>5, Zenon DEF t
<1>15. m = Table!LongestPrefix(TabledLook[r].seen, TabledLook[r].path)
  BY <1>12, Zenon DEF m
<1> QED
  BY <1>3, <1>13, <1>14, <1>15, Zenon DEF TabledLook, Answered, Table!Answer

LEMMA LeaveSteps ==
  ASSUME TrieInv, NEW r \in Reader, Leave(r)
  PROVE  Table!Leave(r)
<1> DEFINE x == NoLookup
<1>1. look[r].pc = "done" /\ heap' = heap /\ root' = root /\ look' = [look EXCEPT ![r] = x]
  BY DEF Leave
<1>2. /\ x.pc = "idle" /\ x.path = << >> /\ x.seen = [p \in Prefixes |-> NilTarget]
  BY DEF NoLookup
<1> HIDE DEF x
<1>3. Answered(x) = Table!NoLookup
  BY <1>2 DEF Answered, Table!NoLookup, Table!Empty, Table!NoMatch, NoMatch
<1>4. TabledLook' = [TabledLook EXCEPT ![r] = Table!NoLookup] /\ TabledLook[r] = Answered(look[r])
  BY <1>1, <1>3, TabledIs
<1>5. TabledLook[r].pc = "done"
  BY <1>1, <1>4 DEF Answered
<1>6. TableOf(heap', root') = TableOf(heap, root)
  BY <1>1
<1> QED
  BY <1>4, <1>5, <1>6, Zenon DEF TabledLook, Answered, Table!Leave

LEMMA FollowStutters ==
  ASSUME TrieInv, NEW r \in Reader, Follow(r)
  PROVE  TabledLook' = TabledLook /\ root' = root
<1> DEFINE l == look[r]
           next == heap[l.at].kids[l.path[l.depth + 1]]
           b == Better(l.best, next, l.depth + 1)
           x == MovedTo(r, next, l.depth + 1, b)
<1>1. l.pc = "walk" /\ root' = root /\ look' = Moved(r, next, l.depth + 1, b)
  BY DEF Follow, Moved
<1> HIDE DEF next, b
<1>2. look' = [look EXCEPT ![r] = x]
  BY <1>1, MovedIs
<1>3. x.pc = l.pc /\ x.path = l.path /\ x.seen = l.seen
  BY DEF MovedTo
<1> HIDE DEF x, l
<1>4. Answered(x) = Answered(l)
  BY <1>1, <1>3 DEF Answered
<1>5. TabledLook' = [TabledLook EXCEPT ![r] = Answered(x)] /\ TabledLook[r] = Answered(look[r])
  BY <1>2, TabledIs
<1>6. [TabledLook EXCEPT ![r] = TabledLook[r]] = TabledLook
  BY DEF TabledLook
<1> QED
  BY <1>1, <1>4, <1>5, <1>6 DEF l

LEMMA TableKeepsOn ==
  ASSUME TrieInv, [TrieNext]_trieVars
  PROVE  Table!TableNext \/ UNCHANGED <<TableOf(heap, root), TabledLook>>
<1>1. TrieInv' /\ StaysFrozen
  BY TrieKeeps
<1>2. ASSUME root' = root, TabledLook' = TabledLook
      PROVE  UNCHANGED <<TableOf(heap, root), TabledLook>>
  <2>1. TableOf(heap', root') = TableOf(heap, root)
    BY <1>1, <1>2, FrozenTable
  <2> QED
    BY <1>2, <2>1
<1>3. ASSUME root' = root, look' = look PROVE UNCHANGED <<TableOf(heap, root), TabledLook>>
  <2>1. TabledLook' = TabledLook
    BY <1>3 DEF TabledLook
  <2> QED
    BY <1>2, <1>3, <2>1
<1>4. ASSUME NEW p \in Prefixes, Remove(p) PROVE root' = root /\ look' = look
  BY <1>4 DEF Remove, Lock
<1>5. ASSUME NEW p \in Prefixes, NEW t \in Target, Add(p, t) PROVE root' = root /\ look' = look
  BY <1>5 DEF Add, Lock
<1>6. CASE Descend
  <2>1. root' = root /\ look' = look
    BY <1>6 DEF Descend
  <2> QED
    BY <1>3, <2>1
<1>7. CASE NotFound
  <2>1. root' = root /\ look' = look
    BY <1>7 DEF NotFound
  <2> QED
    BY <1>3, <2>1
<1>8. CASE StoreAdded \/ StoreRemoved
  BY <1>8, ChangeSteps DEF Table!TableNext
<1>9. ASSUME NEW r \in Reader, Load(r) PROVE Table!TableNext
  BY <1>9, BeginSteps DEF Table!TableNext
<1>10. ASSUME NEW r \in Reader, Follow(r) PROVE UNCHANGED <<TableOf(heap, root), TabledLook>>
  BY <1>2, <1>10, FollowStutters
<1>11. ASSUME NEW r \in Reader, Return(r) PROVE Table!TableNext
  BY <1>11, AnswerSteps DEF Table!TableNext
<1>12. ASSUME NEW r \in Reader, Leave(r) PROVE Table!TableNext
  BY <1>12, LeaveSteps DEF Table!TableNext
<1>13. CASE UNCHANGED trieVars
  <2>1. root' = root /\ look' = look
    BY <1>13 DEF trieVars
  <2> QED
    BY <1>3, <2>1
<1> QED
  BY <1>3, <1>4, <1>5, <1>6, <1>7, <1>8, <1>9, <1>10, <1>11, <1>12, <1>13 DEF TrieNext

LEMMA TableBegins ==
  ASSUME TrieInit
  PROVE  Table!TableInit
<1>1. TrieInv
  BY TrieBegins
<1>2. /\ HeapOK(heap) /\ root \in Node /\ heap \in [Node -> Cells] /\ \A n \in Node : heap[n] = Blank
  BY <1>1, BlankIs DEF TrieInv, TrieInit, HeapOK
<1> DEFINE T == TableOf(heap, root)
<1>3. /\ T \in [Prefixes -> Target \cup {NilTarget}]
      /\ \A p \in Prefixes : T[p] = Cell(heap, Walk(heap, root, p)).target
  BY <1>2, TableIs
<1> HIDE DEF T
<1>4. ASSUME NEW p \in Prefixes PROVE T[p] = NilTarget
  <2> DEFINE m == Walk(heap, root, p)
  <2>1. m \in Node \cup {NoNode}
    BY <1>2, PrefixesAreStems, WalkLeads
  <2>2. T[p] = Cell(heap, m).target
    BY <1>3
  <2> HIDE DEF m
  <2> QED
    BY <1>2, <2>1, <2>2, BlankIs DEF Cell
<1>5. T = Table!Empty
  BY <1>3, <1>4 DEF Table!Empty
<1> DEFINE x == NoLookup
<1>6. /\ x.pc = "idle" /\ x.path = << >> /\ x.seen = [p \in Prefixes |-> NilTarget]
      /\ look = [r \in Reader |-> x]
  BY DEF NoLookup, TrieInit
<1> HIDE DEF x
<1>7. Answered(x) = Table!NoLookup
  BY <1>6 DEF Answered, Table!NoLookup, Table!Empty, Table!NoMatch, NoMatch
<1>8. TabledLook = [r \in Reader |-> Table!NoLookup]
  BY <1>6, <1>7 DEF TabledLook
<1> QED
  BY <1>5, <1>8, Zenon DEF T, TabledLook, Answered, Table!TableInit

\* The trie and its lock-free lookups implement the table: a change of a route is atomic, and a
\* lookup answers with the longest prefix of the routes as they were at one moment.
THEOREM RouterIsTable == TrieSpec => ImplementsRouteTable
<1>1. TrieInit => Table!TableInit
  BY TableBegins
<1>2. TrieInv /\ [TrieNext]_trieVars =>
        [Table!TableNext]_<<TableOf(heap, root),
           [r \in Reader |-> [pc |-> look[r].pc, path |-> look[r].path, seen |-> look[r].seen,
                              result |-> IF look[r].pc = "done" THEN look[r].best ELSE NoMatch]]>>
  BY TableKeepsOn DEF TabledLook, Answered
<1> QED
  BY <1>1, <1>2, TrieInvariance, PTL DEF TrieSpec, ImplementsRouteTable, Table!TableSpec
===============================================================================

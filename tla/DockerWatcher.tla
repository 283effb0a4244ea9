---------------------------- MODULE DockerWatcher ----------------------------
(***************************************************************************)
(* pkg/docker/watcher.go: container discovery.  One goroutine lists the     *)
(* running containers, mounts a route for each, then follows the daemon's   *)
(* event stream: a "start" lists again, a "die", "kill", "stop" or          *)
(* "destroy" unmounts, and when the stream ends the goroutine lists again   *)
(* and reconnects, until its context is cancelled.  Each mounted container   *)
(* also gets a goroutine that follows its log.                              *)
(*                                                                          *)
(* Steps: each HTTP call to the daemon, each section locked by w.mu and     *)
(* each router update (with the onRoute call that follows it) is a step of  *)
(* the watcher goroutine.  Log goroutines and Stop interleave with them.    *)
(*                                                                          *)
(* The daemon is the environment: it starts, stops, renames and signals     *)
(* containers, and drops the events of moments when nobody is connected.    *)
(* A container's labels, name and port are an element of Info; the routing  *)
(* table of pkg/router is a function from prefixes to targets (module       *)
(* Router shows that this is what the trie implements).                     *)
(* ToMountUnlabelled, OldKept, MountedIfFree, EntryKeptOnReturn and         *)
(* DeadIDsNever are mutants of the definition after them.                   *)
(***************************************************************************)
EXTENDS Integers, Sequences, FiniteSets

CONSTANTS
  Container,   \* container IDs
  Prefix,      \* route prefixes
  NoPrefix,    \* the empty prefix: no route
  Port,        \* published ports
  Mode,        \* the discovery mode: "strict", "opt_in" or "automatic"
  InfosOf,     \* the descriptions each container may have
  StaticTable, \* the static routes of devhub.yaml, mounted before discovery
  NoTarget,    \* no route in the table
  Outages,     \* whether listing may fail and the event stream may break
  MaxEvents,   \* bound: events in the stream not yet read
  MaxStreams   \* bound: log goroutines of each container at a time

Targets == Container \X Port

ASSUME WatcherAssumption ==
  /\ NoPrefix \notin Prefix
  /\ Mode \in {"strict", "opt_in", "automatic"}
  /\ \A c \in Container : InfosOf[c] \subseteq
       [route : Prefix \cup {NoPrefix}, enable : BOOLEAN,
        name : Prefix \cup {NoPrefix}, port : Port]
  /\ NoTarget \notin Targets
  /\ DOMAIN StaticTable \subseteq Prefix
  /\ \A p \in DOMAIN StaticTable : StaticTable[p] \notin Targets \cup {NoTarget}
  /\ Outages \in BOOLEAN
  /\ MaxEvents \in Nat \ {0} /\ MaxStreams \in [Container -> Nat \ {0}]

NoRoute == [prefix |-> NoPrefix, target |-> NoTarget]

VARIABLES
  cancelled,  \* ctx.Done() of the context Start was given is closed
  running,    \* environment: the running containers
  info,       \* environment: their labels, names and ports
  open,       \* the event stream is connected
  events,     \* events sent on it and not yet read
  w,          \* the watcher goroutine: where it is and its locals
  routes,     \* w.routes: the prefix and target registered for a container
  table,      \* the router
  streams,    \* the log goroutines: free, live, or cancelled and not yet gone
  logs        \* w.logStreams: which goroutine the entry cancels, 0 if no entry

daemonVars == <<cancelled, running, info, open, events>>
logVars == <<streams, logs>>
vars == <<cancelled, running, info, open, events, w, routes, table,
          streams, logs>>

Gens(c) == 1 .. MaxStreams[c]

\* The prefix registerContainer chooses: the label, else by mode the name.
\* A name that starts with "devhub" is NoPrefix here.
RoutePrefix(i) ==
  IF i.route # NoPrefix THEN i.route
  ELSE IF Mode = "automatic" \/ (Mode = "opt_in" /\ i.enable) THEN i.name
  ELSE NoPrefix

RouteOf(c, i) == [prefix |-> RoutePrefix(i), target |-> <<c, i.port>>]

\* The watcher at pc, about to return to ret, with no other local in use.
At(pc, ret) == [pc |-> pc, ret |-> ret, todo |-> {}, dead |-> {}, route |-> NoRoute,
                streaming |-> FALSE]

Init ==
  /\ cancelled = FALSE
  /\ running \in SUBSET Container
  /\ info \in [Container -> UNION {InfosOf[c] : c \in Container}]
  /\ \A c \in Container : info[c] \in InfosOf[c]
  /\ open = FALSE
  /\ events = << >>
  /\ w = At("list", "connect")
  /\ routes = [c \in Container |-> NoRoute]
  /\ table = [p \in Prefix |-> IF p \in DOMAIN StaticTable THEN StaticTable[p] ELSE NoTarget]
  /\ streams = [c \in Container |-> [g \in Gens(c) |-> "free"]]
  /\ logs = [c \in Container |-> 0]

-------------------------------------------------------------------------------
\* Environment.

\* The daemon reports an event to whoever is connected.  The watcher treats
\* "die", "kill", "stop" and "destroy" alike: here they are all "end".
Emit(action, c) ==
  IF open THEN /\ Len(events) < MaxEvents
               /\ events' = Append(events, [action |-> action, id |-> c])
          ELSE UNCHANGED events

ContainerStarts(c) ==
  /\ c \notin running
  /\ running' = running \cup {c}
  /\ \E i \in InfosOf[c] : info' = [info EXCEPT ![c] = i]
  /\ Emit("start", c)
  /\ UNCHANGED <<cancelled, open, w, routes, table, logVars>>

ContainerDies(c) ==
  /\ c \in running
  /\ running' = running \ {c}
  /\ Emit("end", c)
  /\ UNCHANGED <<cancelled, info, open, w, routes, table, logVars>>

\* docker kill --signal=HUP: the daemon sends "kill" and the container runs on.
ContainerSignalled(c) ==
  /\ c \in running
  /\ Emit("end", c)
  /\ UNCHANGED <<cancelled, running, info, open, w, routes, table, logVars>>

\* docker rename: no start or die event is sent.
ContainerRenamed(c) ==
  /\ c \in running
  /\ \E i \in InfosOf[c] :
       /\ [i EXCEPT !.name = info[c].name] = info[c]
       /\ info' = [info EXCEPT ![c] = i]
  /\ UNCHANGED <<cancelled, running, open, events, w, routes, table, logVars>>

\* The event stream breaks.  What was sent before the break can still be read.
StreamBreaks ==
  /\ Outages
  /\ open' = FALSE
  /\ UNCHANGED <<cancelled, running, info, events, w, routes, table, logVars>>

\* main cancels the context of everything: the event stream is closed.  A log
\* goroutine that notices returns (LogStreamReturns).
Cancel ==
  /\ ~cancelled
  /\ cancelled' = TRUE
  /\ open' = FALSE
  /\ UNCHANGED <<running, info, events, w, routes, table, logVars>>

-------------------------------------------------------------------------------
\* The watcher goroutine.

\* Where syncContainers goes on: mount, then unmount the dead, then return.
Working(todo, dead, ret) ==
  IF todo \cup dead = {} THEN At(ret, ret)
  ELSE [At("work", ret) EXCEPT !.todo = todo, !.dead = dead]

ToMountUnlabelled == {c \in running : routes[c] # RouteOf(c, info[c])}

\* The containers of the list that registerContainer does not skip: they have a
\* prefix, and are new or differ from what is registered for them.
ToMount == {c \in running : RouteOf(c, info[c]).prefix # NoPrefix
                            /\ routes[c] # RouteOf(c, info[c])}

\* Registered containers that are not in the list.
DeadIDsNever == {}
DeadIDs == {c \in Container : routes[c] # NoRoute} \ running

\* syncContainers: GET /containers/json.  Only this goroutine writes w.routes,
\* so what is to be mounted and who is dead is decided by the list.
List ==
  /\ ~cancelled
  /\ w.pc = "list"
  /\ w' = Working({RouteOf(c, info[c]) : c \in ToMount}, DeadIDs, w.ret)
  /\ UNCHANGED <<daemonVars, routes, table, logVars>>

\* The daemon does not answer, or the context is cancelled: nothing is reconciled.
ListFails ==
  /\ Outages \/ cancelled
  /\ w.pc = "list"
  /\ w' = At(w.ret, w.ret)
  /\ UNCHANGED <<daemonVars, routes, table, logVars>>

\* The router without the old prefix of a container that gets route new.
OldKept(old, new) == table
OldPruned(old, new) ==
  IF old # NoRoute /\ old.prefix # new.prefix
    THEN [table EXCEPT ![old.prefix] = NoTarget]
    ELSE table

\* The locked section of registerContainer; a changed prefix is removed from the
\* router inside it.
RegisterContainer ==
  /\ w.pc = "work"
  /\ \E new \in w.todo :
       LET c == new.target[1] IN
       /\ w' = [w EXCEPT !.pc = "add", !.todo = @ \ {new}, !.route = new,
                         !.streaming = logs[c] # 0]
       /\ routes' = [routes EXCEPT ![c] = new]
       /\ table' = OldPruned(routes[c], new)
  /\ UNCHANGED <<daemonVars, logVars>>

MountedIfFree(r) ==
  IF table[r.prefix] = NoTarget THEN [table EXCEPT ![r.prefix] = r.target] ELSE table
Mounted(r) == [table EXCEPT ![r.prefix] = r.target]

\* router.Add; the target then goes to HealthMonitor!RegisterTarget.
AddRoute ==
  /\ w.pc = "add"
  /\ table' = Mounted(w.route)
  /\ w' = IF w.streaming THEN Working(w.todo, w.dead, w.ret)
                         ELSE [w EXCEPT !.pc = "stream"]
  /\ UNCHANGED <<daemonVars, routes, logVars>>

\* startLogStream.
StartLogStream ==
  LET c == w.route.target[1] IN
  /\ w.pc = "stream"
  /\ IF logs[c] # 0
       THEN UNCHANGED logVars
       ELSE \E g \in Gens(c) :
              /\ streams[c][g] = "free" /\ \A h \in 1 .. g - 1 : streams[c][h] # "free"
              /\ streams' = [streams EXCEPT ![c][g] = "live"]
              /\ logs' = [logs EXCEPT ![c] = g]
  /\ w' = Working(w.todo, w.dead, w.ret)
  /\ UNCHANGED <<daemonVars, routes, table>>

\* The locked section of unregisterContainer: forget the route, cancel the log
\* goroutine.  syncContainers comes here when everything is mounted.
UnregisterContainer ==
  /\ w.pc = "work"
  /\ w.todo = {}
  /\ \E c \in w.dead :
       /\ routes' = [routes EXCEPT ![c] = NoRoute]
       /\ IF logs[c] = 0
            THEN UNCHANGED logVars
            ELSE /\ streams' = [streams EXCEPT ![c][logs[c]] = "cancelled"]
                 /\ logs' = [logs EXCEPT ![c] = 0]
       /\ w' = IF routes[c] = NoRoute
                 THEN Working({}, w.dead \ {c}, w.ret)
                 ELSE [w EXCEPT !.pc = "remove", !.dead = @ \ {c}, !.route = routes[c]]
  /\ UNCHANGED <<daemonVars, table>>

\* router.Remove in unregisterContainer: it names a prefix, not a container.
RemoveRoute ==
  /\ w.pc = "remove"
  /\ table' = [table EXCEPT ![w.route.prefix] = NoTarget]
  /\ w' = Working({}, w.dead, w.ret)
  /\ UNCHANGED <<daemonVars, routes, logVars>>

\* StreamEvents, which is retried until the daemon answers: the stream starts
\* with the events after this moment.
Connect ==
  /\ ~cancelled
  /\ w.pc = "connect"
  /\ open' = TRUE
  /\ events' = << >>
  /\ w' = At("scan", "scan")
  /\ UNCHANGED <<cancelled, running, info, routes, table, logVars>>

\* The select at the head of eventLoop.
LoopEnds ==
  /\ cancelled
  /\ w.pc = "connect"
  /\ w' = At("gone", "connect")
  /\ UNCHANGED <<daemonVars, routes, table, logVars>>

\* The scanner returns the next event, or the end of a broken stream; a cancelled
\* context may take the end first.
ScanEvent ==
  /\ w.pc = "scan"
  /\ \/ /\ events # << >>
        /\ events' = Tail(events)
        /\ w' = IF Head(events).action = "start"
                  THEN At("list", "scan")
                  ELSE Working({}, {Head(events).id}, "scan")
     \/ /\ events = << >> \/ cancelled
        /\ ~open
        /\ w' = At("list", "connect")
        /\ UNCHANGED events
  /\ UNCHANGED <<cancelled, running, info, open, routes, table, logVars>>

Watcher ==
  \/ List \/ ListFails \/ RegisterContainer \/ AddRoute \/ StartLogStream
  \/ UnregisterContainer \/ RemoveRoute \/ Connect \/ LoopEnds \/ ScanEvent

-------------------------------------------------------------------------------
\* The log goroutines and Stop.

\* A log goroutine returns (the log ended, or its context is cancelled); its
\* deferred function deletes the entry of its container, whoever owns it.
EntryKeptOnReturn(c) == logs
EntryAfterReturn(c) == [logs EXCEPT ![c] = 0]

LogStreamReturns(c, g) ==
  /\ streams[c][g] # "free"
  /\ streams' = [streams EXCEPT ![c][g] = "free"]
  /\ logs' = EntryAfterReturn(c)
  /\ UNCHANGED <<daemonVars, w, routes, table>>

\* App.Shutdown, which main calls after the cancellation.
Stop ==
  /\ cancelled
  /\ streams' = [c \in Container |->
       [g \in Gens(c) |-> IF logs[c] = g THEN "cancelled" ELSE streams[c][g]]]
  /\ logs' = [c \in Container |-> 0]
  /\ UNCHANGED <<daemonVars, w, routes, table>>

Next ==
  \/ Watcher
  \/ \E c \in Container :
       \/ ContainerStarts(c) \/ ContainerDies(c)
       \/ ContainerSignalled(c) \/ ContainerRenamed(c)
       \/ \E g \in Gens(c) : LogStreamReturns(c, g)
  \/ StreamBreaks \/ Cancel \/ Stop

\* The watcher goroutine is scheduled, and so is a log goroutine whose context is
\* cancelled or whose container is down; the daemon owes nothing.
Fairness ==
  /\ WF_vars(Watcher)
  /\ \A c \in Container : \A g \in Gens(c) :
       WF_vars(/\ cancelled \/ streams[c][g] = "cancelled" \/ c \notin running
               /\ LogStreamReturns(c, g))

Spec == Init /\ [][Next]_vars /\ Fairness

-------------------------------------------------------------------------------
TypeOK ==
  LET Route == {NoRoute} \cup [prefix : Prefix, target : Targets] IN
  /\ cancelled \in BOOLEAN
  /\ running \subseteq Container
  /\ \A c \in Container : info[c] \in InfosOf[c]
  /\ open \in BOOLEAN
  /\ Len(events) <= MaxEvents
  /\ \A i \in 1 .. Len(events) :
       events[i] \in [action : {"start", "end"}, id : Container]
  /\ w \in [pc : {"list", "work", "add", "stream", "remove", "connect", "scan",
                  "gone"},
            ret : {"connect", "scan"}, todo : SUBSET Route, dead : SUBSET Container,
            route : Route, streaming : BOOLEAN]
  /\ routes \in [Container -> Route]
  /\ \A c \in Container : routes[c] # NoRoute => routes[c].target[1] = c
  /\ table \in [Prefix -> Targets \cup {NoTarget} \cup {StaticTable[p] : p \in DOMAIN StaticTable}]
  /\ \A c \in Container : streams[c] \in [Gens(c) -> {"free", "live", "cancelled"}]
  /\ \A c \in Container : logs[c] \in 0 .. MaxStreams[c]

\* No request is routed to a container the watcher has dropped: a container's
\* target in the router belongs to a registered route with this prefix, or the
\* watcher is between unregistering it and removing it (watcher.go:231-234), and
\* a removal or a replacement never leaves another container's target behind.
NoOrphanRoute ==
  \A p \in Prefix :
    table[p] \in Targets =>
      \/ \E c \in Container : routes[c] = [prefix |-> p, target |-> table[p]]
      \/ w.pc = "remove" /\ w.route.prefix = p
      \/ w.pc = "add" /\ w.route.prefix = p

\* Two descriptions never ask for the same prefix, nor for a static one.
PrefixesDisjoint ==
  /\ \A c, d \in Container : \A i \in InfosOf[c], j \in InfosOf[d] :
       RoutePrefix(i) = RoutePrefix(j) => c = d \/ RoutePrefix(i) = NoPrefix
  /\ \A c \in Container : \A i \in InfosOf[c] : RoutePrefix(i) \notin DOMAIN StaticTable

\* The router and w.routes, which are updated under different locks, agree when
\* the watcher is not inside an update: what GetRoutes lists is what is mounted.
\* This needs prefixes that nobody shares: a removal names a prefix and not its owner.
RegisteredIsMounted ==
  PrefixesDisjoint /\ w.pc \notin {"add", "remove"} =>
    \A c \in Container : routes[c] # NoRoute => table[routes[c].prefix] = routes[c].target

\* The two tables that the watcher keeps under different locks, its own and the
\* router's, agree whenever it is not inside an update (watcher.go:191-239), in both
\* directions.
RouterAgrees == NoOrphanRoute /\ RegisteredIsMounted

\* An entry of logStreams names a goroutine that is running and not cancelled,
\* whatever die, restart, rename and Stop do meanwhile: cancel() never hits the
\* context of a goroutine that has gone.
LogEntryIsLive ==
  \A c \in Container : logs[c] # 0 => streams[c][logs[c]] = "live"

\* If the watcher lists again and again, a container that stays dead is
\* eventually unmounted for good although its "die" event may have been lost,
\* and one that stays up is mounted again and again, although a "kill" event
\* that was only a signal unmounts it.
ListingReconciles ==
  \A c \in Container :
    []<><<List>>_vars =>
      /\ <>[](c \notin running) => <>[](routes[c] = NoRoute)
      /\ <>[](c \in running /\ RoutePrefix(info[c]) # NoPrefix) => []<>(routes[c] # NoRoute)
===============================================================================

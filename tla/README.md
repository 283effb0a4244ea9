# DevHub in TLA+

Specifications, model-checking runs and proofs for DevHub, a developer gateway
written in Go: a reverse and forward proxy that routes requests to local
services, watches Docker for them, checks their health, mocks them, and shows
every request live in a dashboard. Paths below are relative to `src/`.

## 1. Inventory of the system

| Component | State | Operations | Interacts with |
|---|---|---|---|
| Engine (`pkg/proxy/engine.go`) | none of its own but the two buffer pools; each `ServeHTTP` call has its locals | `ServeHTTP` (mock, route, breaker, reverse proxy), forward proxy, CONNECT, WebSocket, `emitTraceEvent` | Router, Mocks, Health (calls); Ring, Broadcast (each event) |
| Router (`pkg/router/trie.go`) | atomic root pointer, immutable nodes, writer mutex | `Add`, `Remove` (copy on write), `Match` (no lock) | written by app.New and the watcher, read by the engine twice per request |
| Health monitor (`pkg/proxy/health.go`) | per target: Healthy, ConsecutiveFails, Status | `RegisterTarget`, `RecordSuccess`, `RecordFailure`, the prober goroutine, `IsCircuitBroken` | engine reports and asks; `onStatusChange` calls the hub |
| Mock manager (`pkg/mock/mock.go`) | rules by prefix | `SetRule`, `ToggleRule`, `GetRule`, `ListRules` | dashboard writes, engine reads |
| Ring buffer (`pkg/buffer/ring.go`) | slots, head, count, RW lock | `Push`, `GetAll`, `Clear` | engine pushes; `/ws` and replay read |
| Telemetry pipeline (`internal/app/app.go`) | `EventChan`, two counters | broadcaster (policy drop or block), worker | engine to hub |
| Hub and `/ws` (`internal/app/app.go`) | `clients`, three channels, `closed`; per client a send channel and two goroutines | `run`, `Close`, `broadcastJSON`, upgrade, history, writer | ring, telemetry worker, main |
| App and main (`internal/app/app.go`, `cmd/main.go`) | servers, wait group, context | `New`, `Start`, `Shutdown` | all |
| Dashboard API (`internal/app/app.go`) | tickets and their expiry, under a mutex | issue (and prune) a ticket, redeem it at `/ws`, mocks, replay, waterfall; the rest reads | ring, mocks, replay |
| Docker watcher (`pkg/docker/watcher.go`) | `routes`, `logStreams` under a mutex | `syncContainers`, event loop, register/unregister, log goroutines, `Stop` | daemon (HTTP), router, health monitor, hub |
| Docker client, demuxer | none | HTTP calls, frame splitting | daemon |
| Replay dispatcher, webhook signer (`pkg/proxy/replay.go`, `pkg/webhook`) | none | `Execute`, `ResignHeaders`, `BypassHeaders`, `DetectProvider` | engine, with a response recorder |
| Tracing context, waterfall (`pkg/tracing`) | two counters | `ExtractOrGenerateContext`, `BuildWaterfall` | engine (twice per proxied request), ring |
| Tunnel client (`pkg/tunnel/client.go`) | `active`, the connection, one mutex for both | reconnect loop, one goroutine per frame | relay, local proxy |
| Egress policy, redactor, config, embedded page | none | pure functions, parsing | engine, app |

What is hard here: lock-free lookups beside copy-on-write updates; requests
that read routes, rules and the breaker at several moments while others change
them; probes whose answers are applied late; container events lost in the gaps
between listing and connecting; a pipeline of bounded channels that must not
hold up requests; a hub that is closed from two goroutines while connections
come and go; answers that come after their tunnel has gone, written under a
mutex that everybody else waits for; rules changed in place under a request
that holds a pointer to them; tickets that several sockets show at once to a
table pruned by stale clocks; and a trace that services, replays and restarts
carry on with only part of its headers. What makes each component correct is in section 4.
`PROJECT.json` lists every hazard at its line.

## 2. Modules

| Module | Models | State |
|---|---|---|
| `TraceLog` | abstract: the last *n* events, newest first | `log` |
| `RingBuffer` | `ring.go` | `events`, `head`, `count` as in the code; `reading`: who holds the read lock; `result`: what each `GetAll` has copied |
| `CircuitBreaker` | abstract: one breaker per target | `known`, `streak`, `open` |
| `HealthMonitor` | `health.go` | `healthy`, `fails`, `status` per target; `probe`: the prober's place and locals; `notices`: goroutines that still have to announce a flip |
| `RouteTable` | abstract: a table and lookups that answer as of one moment | `table`, `look` |
| `Router` | `trie.go` | `heap` (pointer to node), `root`, `writer` (the call that holds the mutex and the path it has copied), `look` (the `Match` calls) |
| `Engine` (extends `CircuitBreaker`) | `ServeHTTP` and all it calls in `engine.go` | `req`: per call its place and the locals that matter; `routes`, `mocks`: what `Match` and `GetRule` answer |
| `Hub` (instance of `TraceLog`) | the pipeline and the hub of `app.go` | ring, channels, counters, the places of emitters, worker, run loop, main, handlers and writers |
| `DockerWatcher` | `watcher.go`, with the daemon as environment | `routes`, `logs` as in the code; `table`: the router; `w`: the goroutine's place and locals; `streams`: the log goroutines; `cancelled` |
| `Tunnel` | `client.go`, with the relay and the network as environment | `active`; `mu`: the request whose goroutine writes; `loop`, `task`: the places of the goroutines; `conn`: per connection both ends and the frames each way |
| `TraceContext` | `context.go`, `waterfall.go` and the stamping in `engine.go` | none: operators on headers |
| `Webhook` | `signer.go` | none: operators on headers |
| `Replay` (extends both) | calls and replays as their headers go through `engine.go` and `replay.go` | `spanSeq`, `traceSeq` as in the code; `calls`: each with the headers it recorded and those its upstream got; `ring`: the recorded ones |
| `Tickets` | `/api/auth/ticket` and the authorization of `/ws` in `app.go` | `tickets` as in the code; `issue`, `socket`: the places and clocks of the calls |
| `MockRules` | `mock.go` and the request that asks it | `rules`: prefixes to pointers; `heap`: the rule objects; `request`: each with its loop and the pointer it holds |

How they fit: `HealthMonitor` implements `CircuitBreaker`, and `Engine` is
built on `CircuitBreaker`; `RingBuffer` implements `TraceLog`, and `Hub` stores
its events in a `TraceLog`; `Router` implements `RouteTable`, and `Engine` and
`DockerWatcher` treat the router as a table with atomic changes. `Replay` is
built on `TraceContext` and `Webhook`; `Engine` treats the answer of `GetRule`
as one value that may change at any time, which `MockRules` shows in detail, and
`Hub` begins where `Tickets` ends, at the upgrade. Each big
component is thus checked against the promise of the small ones, and each
promise is checked (or proved) once, for the code that makes it.

Conventions. A step is what no other goroutine can split: a locked section, a
channel operation, an exchange with the outside, one read of shared state.
`MC*` modules hold the values of TLC's constants. Where a property needs a
plausible wrong variant of a definition to be tested against, the variant
stands before the definition and the module's header names it.

## 3. Runs

Sizes are distinct states.

| Run | Bounds | States |
|---|---|---|
| `stores` | `RingBuffer`: size 3 (the default branch of the constructor), 3 events, 2 readers; `Router`: 4 prefixes (root, one, one below it, its sibling), 2 paths, 1 target, 2 versions of a node, 1 reader | 187 k |
| `health` | 2 targets, threshold 3 as in the code, 1 undelivered asynchronous notice per target | 1.14 M |
| `docker` | 2 containers, one of which is renamed and moves port, 3 prefixes, 1 unread event, 2 overlapping log goroutines, outages, cancellation | 866 k |
| `engine` | 2 concurrent calls, 1 path (its stripped form has the same rules here), 2 targets (one strips), a rule of each mode, threshold 2 | 2.5 M |
| `hub` | 2 emitters, 2 events, 1 client, every channel and the ring of size 1, policy block | 497 k |
| `tunnel` | 2 connections, 2 frames on each | 142 k |
| `replay` | 3 calls, 1 restart, 2 seconds, 3 kinds of client headers (two with spans that are drawn here too), Slack and detected signers | 3.1 M |
| `dashboard` | `Tickets`: 3 tickets, 2 sockets, room for 2, good for 2 of 4 moments; `MockRules`: 4 spellings of prefixes and paths, 3 rule objects, 2 toggles, 1 request | 3.8 M |
| `engine_events`, `engine_success` | 1 call, 1 path and a stripped form with rules of its own, 2 targets (one strips), 1 rule | until the counterexample |
| `waterfall`, `hub_shutdown` | as `replay`; as `hub` | until the counterexample |

`stores` and `dashboard` each run two components that share no variable: which of
them acts is chosen at the start, as no step of one changes what the other may do,
and the invariants, action properties and refinements checked there speak of one
of them each.

Why these bounds are enough for the questions: the ring wraps more than once,
and fills partly and exactly. Two health targets let the prober be at one while
the other changes; the threshold is the code's. One event per channel makes
every "full" branch happen, and two events from two emitters make every order
of push, count, offer and broadcast happen; each client's channel is its own,
so one client sees all that a client can see. In the router, two versions of a
node allow a lookup of the old trie while the new one is built and published (a
writer waits only if a version is still in use, which the bound `Version`
decides, not the code). Two calls are enough in `Engine` because calls only meet
in the breaker and in variables that other processes change arbitrarily anyway.
A `CircuitBreaker` trips at `Threshold`; `engine` uses 2 for size and its
properties do not depend on the number. Two connections let an answer of the
first come while the second is up, and two frames let one answer wait for
another's write. Three calls are a parent, its child and the child's replay, or
two siblings and a child, on either side of a restart. Slack is the one provider
with a timestamp header of its own; the other providers come in through
detection, which is nondeterministic where the code takes the first of a map.
Two tickets fill the table, the third is refused or follows a pruning; two
sockets race for one ticket; two moments of four let a clock that was read early
be stale by more than a ticket's life. One request is enough in `MockRules`:
requests share nothing but the read lock. Its four prefixes are the root, a
string prefix of both others that ends inside a segment of one of them, and
slashes to trim at either end.

A run checks deadlock unless the bounds or the program end its behaviours:
`hub` (after `Shutdown` nothing is left to do), `tunnel` (after the
cancellation), `replay` and `dashboard` (their bounds run out).

### Fairness

Safety runs need none. `HealthMonitor`: weak fairness of the prober goroutine
(its ticker fires and a call with a timeout returns); nothing of requests or
upstreams. `Hub`: weak fairness per goroutine of the program (emitters, worker,
run loop, handlers, writers, main once it shuts down), because Go schedules a
goroutine that can run; nothing of requests, browsers, or the user. The select
of `run` is unfair on purpose: which ready case it takes is free, and no
liveness property here needs one to be taken. `DockerWatcher`: weak fairness of
the watcher goroutine, and of a log goroutine whose container is down or whose
context is cancelled, as only then its read must return; nothing of the daemon.
`Tunnel`: weak fairness of the loop and of the goroutines; strong fairness for
taking the mutex, which Go hands to the goroutine that waits longest, and for a
write to a relay that reads again and again; a relay that pauses goes on or
fails, for without that a write without a deadline may block for ever. Nothing
makes a connection fail or a dial succeed.

## 4. Properties

`stores`, the ring: `ImplementsTraceLog` (every push, clear and read is one of the abstract
log), `CopyIsPrefixOfLog` (slot-by-slot readers see one state),
`WindowHoldsTheEvents` (no event outlives the window, no zero event inside).

`health`: `ImplementsBreaker` (probes and requests act together as one
breaker), `BreakerConsistent` (the three fields agree),
`OpenMeansThreeFailures` (unhealthy exactly when the last three recorded
outcomes are failures), `EveryFlipAnnouncedOnce`, `BreakerRecloses` (liveness:
an upstream that answers for good does not stay unhealthy).

`stores`, the router: `ImplementsRouteTable` (lookups answer for the table at the load of
the root; each update changes one prefix at one moment),
`PublishedIsFrozen` (nobody changes a node a reader can reach),
`NoDeadBranch` (pruning is complete).

`engine`: `EventTellsTheAnswer` (a call that returns leaves one event with the
status the client got, except in the ways the formula names and in no other: an
informational status logged for the final one; 200 logged for a 101 that
`ReverseProxy` wrote through `Hijack`, and an answer logged that a hijacked
connection never got; no event of a body that breaks off, of a tunnel that could
not be set up, or of a forwarded URL that does not parse again),
`OnlyAdmittedRequestsCount` (of the calls, only one that the reverse proxy served
changes a breaker, that of the target its path was matched with first, as a
failure exactly when it logs a 5xx; under enforcement only if it found this
breaker closed). Both say what the code does. What the repository says of the
exceptions is stated beside them, `ExactlyOneTerminalEvent` and
`SuccessIsAResponse`, and each is a run that fails (section 5).

`docker`: `RouterAgrees` (no request goes to a container the watcher dropped,
and what it has registered is mounted; the second half needs prefixes that
nobody shares, which the instance has), `LogEntryIsLive`, `ListingReconciles`
(if listing keeps succeeding, lost events and signals are made good).

`tunnel`: `AnsweredOnItsConnection` (a late answer never reaches a later
connection, which uses the same stream ids), `OneConnectionUntilLost` (one at a
time, given up only when the network lost it or the relay ended it, by a close
frame or against the WebSocket protocol; no malformed message costs it),
`TunnelGoesOn` (liveness: a connection that is lost or ended leads to another
dial, and a request read is answered unless its connection is, whoever holds the
mutex).

`replay`: `OneTrace` (the parts of the context that a service may pass on, each
with a header that bears the trace, and any replay stay in its trace, across
restarts too), `ParentIsTheCaller` (an event that stamped calls led to names as its
parent a span of the last of them, and no other event of that one's process
records this span, whatever spans clients send and across restarts),
`SignedAnew` (the new signature wins; Slack's timestamp may be a later one, and
recorded signatures of other providers stay).

`dashboard`, the tickets: `AdmitsOnceInTime` (of all sockets that show a ticket in time exactly
one gets in, and pruning by a stale clock never takes a good one); its `TypeOK`
has the bound of the table.

`dashboard`, the mock rules: `MockedByTheRuleInForce` (the answer is of a rule that was the longest
enabled one at some moment of the request).

`hub`: `NoSilentGap` (a connected client was offered every event that the run loop
aired, live or as history; an event that a full `hub.broadcast` drops is not aired,
and one that finds the client's channel full was offered), `StatsAddUp`,
`RegisteredIsOpen`, `EmitterNeverStuck` (under the block policy every wait of a
request ends, for which it may take the 100 ms of app.go:190; that is less than
"never block", which `invariants_test.go:108` says and tests with a callback that
drops), `ReleasedIsClosed`.

Every property is also run against a wrong variant of one definition
(`mutants` in `PROJECT.json`), which it must reject.

## 5. Where the code departs from its documentation

Four are runs that TLC ends with a counterexample.

* `engine_events`: CONNECT and WebSocket requests whose connection cannot be
  hijacked, and some failed handshakes, leave no event (engine.go:553-563, 605-615,
  693-697, 739-741), against P1 of `invariants_test.go:23`; a body whose copy fails
  leaves none either (364), nor a report to the health monitor.
* `engine_success`: a mock rule with a status below 500 that answers for a failed
  round trip makes `RecordSuccess` count for the upstream (engine.go:369-374), which
  `health.go:127` says of a successful response from it. So does an informational
  response before the failure.
* `waterfall`: `BuildWaterfall` looks headers up as `X-DevHub-Span-ID` and
  `X-DevHub-Parent-Span-ID` (waterfall.go:39-40); the recorded ones have the
  canonical spelling `X-Devhub-Span-Id` (engine.go:888-899), so that every event
  of a real trace is a root. The tests write the map by hand in the other spelling.
* `hub_shutdown`: a `/ws` handler that passed the check of `closed` waits at
  `register` for a run loop that has ended (app.go:507-511); a client added
  after `Close` (85-90) is never closed either.

The others are behaviours of the models that no passing property forbids. They
were found while the properties were stated, and shaped them:

* Two containers with one prefix: when one dies, `unregisterContainer` removes
  the prefix (watcher.go:234) although the other still has it, and every later
  listing skips the other as unchanged (195-197).
* A container dies after the listing and before the event stream is connected
  (74 and 297): nobody sees it go until some container starts or the stream
  breaks (README.md:24 promises teardown).
* Two flips of one target, of which a passive report announces one on a goroutine of
  its own (health.go:143) and the prober the other after its unlock, may reach the
  dashboard in the other order: the last announcement is stale until the next flip.
* The answer to an Upgrade to another protocol than WebSocket is written by
  `ReverseProxy` through `Hijack` (engine.go:854): the client gets 101, while 200 is
  logged and counted.
* After an informational response, the 502 of a failed round trip is neither logged
  nor counted as a failure (engine.go:816-822), against `README.md:30`.
* On a route that strips its prefix, `ErrorHandler` looks the rule up by the
  stripped path (engine.go:176) and does not find that of the route.
* The breaker is checked for the target of the first lookup and `Rewrite` dials that
  of a second one (engine.go:285, 155). When the route moves in between, a request may
  reach a service that was known to be unhealthy (`cmd/main.go:30`), and its outcome
  counts for the one found first (366-375). WebSocket requests are not checked at
  all (279-282).
* A log goroutine of a container that died and came back may end late and delete the
  newer one's entry (watcher.go:256-260), so that nobody can cancel the newer one;
  `LogEntryIsLive` only says that an entry names a goroutine that lives.
* A replay of a request that was answered before it was stamped (a mock, no
  route, an open breaker) is answered with the id it carried, while its event has
  the padded one (replay.go:96-125, context.go:92-94).
* Spans count from 1 in every process (context.go:33-34), and nothing in a header says
  of which. An event whose parent was drawn before a restart, or that a client with a
  span of its own sent, may name the span of an unrelated event of its trace, or its
  own; `BuildWaterfall` would hang it there once it finds the headers.
* The span that an ingress request's upstream gets is drawn in `Rewrite`
  (engine.go:164) and never recorded, so a child of the upstream names a parent
  that no event has.
* Slack's timestamp header is of a second look at the clock and may be later than
  the signed one (signer.go:28, 95). `BypassHeaders` and `DetectProvider` do not
  know `X-Signature-256`, which `ResignHeaders` writes.
* A rule that is toggled off between `GetRule` and its use (engine.go:227) also
  skips the shorter rule that would have matched.
* `forwardToLocal` ignores the error of reading the body: an answer that breaks
  off is passed on as complete (client.go:166).

## 6. Proofs

`RingBufferProofs`, for every capacity, event set and reader set, from
`RingAssumption`: `TypeCorrect`; `SnapshotIsConsistent`, from the invariant
itself, because a push needs `reading = {}`; `RingImplementsTraceLog`, whose
core is `PushRecords`: after a push the slot `SlotOf(i)` of the new head is
`SlotOf(i - 1)` of the old one; `WindowIsExact`, whose core is that the window
shifts by one slot and the overwritten slot is the one that enters.

`HealthMonitorProofs`, for any targets, threshold and bounds, from
`HealthAssumption`: `TypeCorrect`, through `Inv`, which adds to `TypeOK` that the
prober has a target when it is at work on one (without it the step that applies
an answer writes to no target); `FieldsAgree`, inductive with `Inv`; and
`MonitorIsBreaker`, a refinement proof: each locked section of the monitor is a
`Success` or `Failure` of the breaker (lemma `BreakerStep`), using `FieldsAgree`
for the case of a failure that does not trip, where the code leaves `Healthy`
alone and the breaker recomputes `open`. `OpenAfterRun` proves
`OpenMeansThreeFailures`: the strengthening `RecentCounted` says that the newest
entries of the history are exactly the failures `fails` counts, and that the
entry before them is the success that ended the run before; a failure makes that
prefix one longer (`CountedAfterFailure`), a success empties it, and
`FieldsAgree` turns the count into `healthy`.

`DashboardProofs`, for any limit, lifetime and number of calls, from
`TicketsAssumption`: `TypeCorrect`, which includes that the table never holds more
than `Limit` tickets (lemmas `Smaller` for what pruning leaves, `OneMore` for what
is added); and `AdmittedOnce`, for `AdmitsOnceInTime`. The property speaks of
sockets only, so it is not inductive: `Inv` adds what ties them to the table. A
ticket that is still good is in the table unless it was used (`GoodUnlessUsed`:
an issuer prunes by a clock that is never ahead of the real one); a used ticket
was given, is gone from the table and has one user (`UsedIsGone`); a socket shows
only what was given (`ShownWasGiven`); and what was shown in time was used
(`InTimeWasUsed`). Steps that touch one socket or none share the lemmas `Moves`
and `Keeps`; `Redeems` is the step that takes a ticket out of the table.

The same module proves `MockRules`, for any paths, prefixes and numbers of rules and
toggles, from `MockAssumption`: `MocksTyped`, and `AnsweredInForce`, for
`MockedByTheRuleInForce`. The invariant `RulesInv` says that clean prefixes lead to rules made for them
(`TableSound`), and of each request (`RequestSound`): while it loops nobody writes,
so what it holds is the longest enabled rule that covers its path among the
prefixes it has seen (`Found`), and at the end of the loop the best one of the
table; later the set `force` of the best rules since then keeps it. It reads the
rule without the lock, so the rule may be disabled in between (`AnsweredRight`).
Two prefixes of a path of one length are the same (`CoversIs`), so the order in which
the map is walked does not matter. `LeastElement`, that a set of naturals has
a least element, is got from the library's fact that finite sets are well-founded
under inclusion, by way of intervals: it stands in for induction, here and in
`RoutingProofs`.

`FlipsAreAnnounced` (`HealthMonitorProofs`) proves `EveryFlipAnnouncedOnce`, in
whatever order the goroutines that announce a flip deliver it.

`TunnelProofs`, for any number of connections and frames, from
`TunnelAssumption`. Connections reuse stream ids, so `AnswersComeBack` rests on
where requests are: `Inv` says that each request whose goroutine is at work was
read from its connection (`TaskWasRead`), that only finished ones are among the
answers (`AnswersAreDone`), each once (`AnsweredOnce`). `OneConnectionAtATime`
adds which connection the loop has at each place (`LoopHasConn`: at "deactivate"
and "close" it is down, or ended and read to the end) and that all earlier ones
are lost or ended (`OthersAreLost`).

`EngineProofs`, for any number of concurrent calls, paths, targets and rules,
from `EngineAssumption`. Calls share only the breaker, the routes and the rules, so
`Inv` speaks of one call at a time. It is in a handler of its kind
(`InItsHandler`). Until it returns, what was captured is what the client got, but
for the three departures of a reverse-proxied call (`Agrees` and `Departs`), and
when it returns its event says just that, or it left none from one of the places
that may (`TellsTheAnswer`, for `EventsTellAnswers`). Past the check of the breaker,
the call found it closed, if it is enforced (`Admitted`, for `AdmittedCallsCount`,
an action property), and the only step of a call that touches a breaker is
`Report` (`OnlyReportsCount`), for one target (`OneBreaker`).

`HubProofs`, for any emitters and clients, any positive capacities and both
policies, from `HubAssumption` (finitely many emitters: the counters count them).
`CountersAddUp` needs that every event begun is counted or on its way to be
(`EventsAddUp`); `TableIsOpen` that the run loop holds a client until it is in the
table and that nothing knows of it before (`Table`), because `Close` may empty the
table at any moment; `NothingIsMissedSilently` that only what was pushed into the
ring is broadcast (`OnlyPushed`, with one event per busy emitter) and that what
was aired before a client was told of it is still in its history (`Told`).

`RoutingProofs`, for any containers, prefixes, ports and discovery mode,
from `WatcherAssumption`. The watcher's table and the router are kept under
different locks, so `TablesAgree` depends on the route in hand between the two
(`InHand`): one being added is registered already, one being removed is not any
more. `NoOrphanRoute` holds without a condition. `RegisteredIsMounted` has the
condition `PrefixesDisjoint`, and needs that every route the watcher knows or is
about to mount was asked for by its own container (`OwnRoutes`), so that no other
container's update names its prefix. `EntriesAreLive` is inductive with its typing.

The same module proves `Router`, for any segments, prefixes, paths, targets, readers
and number of nodes, from `RouterAssumption`: `TrieTypeCorrect`; `PrunedForGood`, for
`NoDeadBranch`; `FrozenOncePublished`, for the action property `PublishedIsFrozen`; and
`RouterIsTable`, the refinement `ImplementsRouteTable`. They rest on one invariant,
`TrieInv`:

* a child is made for one segment more than its parent (`HeapOK`), so that all that is
  below a node is found by walking fragments of prefixes (`BelowIs`), and the nodes of
  the writer's path differ;
* the writer's path is of nodes that neither the root nor a lookup reaches
  (`PathSound`), each a copy of what the root has there but for the next node of the
  path (`CopyAt`);
* a lookup on its way is at the node of the segments it has passed, sees below it what
  the table had below them when it loaded the root, and holds the longest match so far
  (`LookSound`); the table it loaded need not be the current one;
* no node below the root is dead (`Alive`).

A step of the writer before the store changes only its own nodes (`Rebuilt`); the
store, and each step of a lookup, gives back what nobody reaches (`Released`), which
changes nothing that somebody does (`StaysFrozen`). What a store publishes leads to the
writer's nodes along the prefix and to the old ones elsewhere (`CopyLeads`), so it is
the change of one route (`CopyTable`); the cut of the dead end loses none (`CutTable`)
and leaves nothing dead (`StoredAlive`). At the end of a walk no longer beginning of
the path can match (`NoneBeyond`), so the best match is the table's longest prefix
(`BestIsLongest`). What walks do takes induction over sequences: the prover cannot use
the library's, which have an operator as parameter, so `SequencesAreBuilt` says it of a
set (one that has the empty sequence and what one element makes longer has all), and
follows from `LeastElement`, for the set of lengths.

`ReplayProofs`, for any number of calls, restarts and seconds and any client
headers, from `ReplayAssumption`. `TraceStaysOne` rests on `AllTraced`: both the
headers a stamped call recorded and those its upstream got lead to its trace,
whichever part of them is passed on, and what a replay has before it is served
does too. `ParentsAreTheCallers` rests on `Spans`: whoever reads the headers that a
call recorded, or that its upstream got, takes for its caller's a span of the last
stamped call of its line, itself included (`FromLast`), whichever parts services
and replays keep; and two calls of one life drew different spans. Nothing is assumed
of the spans that clients send: a stamped call overwrites the two headers that a
span is read from (engine.go:339-341), and of calls before the first stamped one
the property says nothing.
`ReplaysAreSignedAnew` rests on `AllSigned`: the second of
the signature is known before the call is served. `TypeCorrect` has the exact
bound of the span counter, two for each call, from `Counted`: what was drawn, and
what the calls that still have to be served or rewritten will draw, is at most
that.

Only model-checked:

* Liveness (`BreakerRecloses`, `EmitterNeverStuck`, `ReleasedIsClosed`,
  `ListingReconciles`, `TunnelGoesOn`): it needs fairness and `ENABLED`.

Every other property of the runs that pass is stated by a theorem.

Each inductive invariant was checked by TLC on its run's instance before it was
proved.

## 7. Not modelled

The embedded page, configuration parsing, the Docker client's HTTP, the frame
demuxer, the egress predicates and the redactor are pure I/O or pure functions
without shared state. Bodies, times and latencies are left out everywhere, and
headers but for the trace context and the signatures; a MAC is a record of who
signed what. In `Hub`, health and log messages share the broadcast channel with
events and are left out. In `Engine`, a tunnel's two copying goroutines are one
step, and the buffer pools are left out. In `Replay`, the header spellings are
the canonical ones the ring records: a replay composed by hand may carry a
signature under another spelling beside the new one, and which of both is sent
is the order of a map (replay.go:91). Of the dashboard API, what only reads
and the token middleware are left out; of the App, the
shutdown of its two HTTP servers.

## 8. Plan

In this order, the most important behaviour first; steps 1 to 11 are done.

1. `RingBuffer` over `TraceLog`, with proofs.
2. `HealthMonitor` over `CircuitBreaker`, with proofs.
3. `DockerWatcher`.
4. `Engine` on `CircuitBreaker`.
5. `Hub` on `TraceLog`.
6. `Router` over `RouteTable`.
7. `Tickets`: issue, prune, use once, expiry, stale clocks.
8. `MockRules`: longest prefix, rules toggled in place under a request.
9. `Tunnel`: reconnecting, late answers, the mutex held during writes.
10. `Replay` on `TraceContext` and `Webhook`: one trace through services, replays
    and restarts; new signatures.
11. Proofs of the safety properties of `Tickets`, `Tunnel`, `HealthMonitor`,
    `Engine`, `Hub`, `DockerWatcher`, `Replay`, `MockRules` and `Router`, the last with
    its refinement of `RouteTable`.
12. `CapturePool`: a buffer that is returned (engine.go:380, 501) while the
    transport may still read the body through it; who may write to a buffer that
    another request now owns.
13. Tunnel pipes of CONNECT and WebSocket as two goroutines, with the closing
    order of the deferred calls.

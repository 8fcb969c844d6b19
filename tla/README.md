# A TLA+ model of minecraft-relay-server

The program (`mcrelay`) accepts Minecraft clients, finds out which server they
ask for, looks that server's address up in the DNS and relays the connection.
Its listener is one thread around one `epoll_wait`. It never blocks on the DNS:
queries run in helper processes that a *supervisor* owns, answers live in a
shared cache, and every connection or route generation that wants an answer
holds an *interest* in the query. Status requests are served inside that loop; a
login gets a *worker* process of its own. This directory models the parts of the
program where several actors share state and the order of events decides, and the
codecs those parts lean on.

Paths below are relative to `src/src/`.

## Inventory

| Part | Source | Module | State |
|---|---|---|---|
| Resolver supervisor | `resolver/supervisor.c` | `Supervisor` | core modelled, proved |
| Its contract | `resolver/supervisor.h` | `InterestLedger` | modelled, refined by `Supervisor` |
| Listener loop and resolver | `listener.c` | `RouteService` | order of a turn, waits, reloads, shutdown; proved |
| Listener loop and sockets | `listener.c` | `Listener` | batches, connections, timers, limits, short exchanges; proved in part |
| Route waiters | `route/waiter.c` | `RouteService` | address routes |
| Endpoint selection | `route/endpoint.c` | `RouteService` | the verdict on address routes |
| Generations, registry | `route/generation.c`, `generation_registry.c` | `RouteService` | publish, retire, collect |
| Route resolution, prewarmer | `route/resolution.c`, `prewarmer.c` | `RouteService` | background interests; no SRV |
| DNS lookup | `resolver/dns.c` | `DnsLookup` | decisions on a reply; not its bytes |
| Helper process | `resolver/helper.c` | `Lookup` | one query to its last packet |
| Packets, assembly | `resolver/ipc.c`, `ipc_assembly.c` | `Ipc`, `Lookup` | modelled |
| DNS cache | `resolver/cache.c` | `CacheResult` | what makes a result fit to publish |
| Worker process | `listener.c`, `connection/setup_long.c` | `Worker` | modelled, proved |
| Relay | `network.c` | `Relay` | modelled, proved in `Worker` |
| Connection set-up | `connection/*.c` | `ConnectionSetup` | modelled |
| Codecs | `protocol/*.c`, `basic.c` | `Protocol` | modelled; not the PROXY header |
| Metrics | `listener_metrics.c`, `metrics.c` | `Listener` | the counters of a route request |
| Hosts table and watch | `resolver/hosts.c`, `hosts_watch.c` | none | see "Not modelled" |
| Route table, bindings | `route/table.c`, `bindings.c` | none | see "Not modelled" |
| Configuration, log, start-up | `config.c`, `log.c`, `main.c`, `timeutil.c` | none | see "Not modelled" |

How the parts interact: `listener_loop` calls `resolver_supervisor_events_process`,
takes the completions and hands each to both generations and to the waiters;
waiters and generations call `entry_schedule*` and `entry_release` in turn. Every
call is made by the same thread, so the interleavings that matter are those of
*calls* with what helpers, sockets, clocks and clients do in between.

A connection passes through these parts: the listener assembles its first packet
(`Protocol`), waits for its route (`RouteService`), and then either answers a status
request or carries it to the upstream by itself, without a process (`Listener`), or
forks a worker that connects and relays until both ends are done (`Worker`). A name
is looked up by a helper process, whose answer comes back as packets (`Lookup`).

## Modules

**`Queues`** holds the lists of jobs as sequences (`Without`, `Lists`); **`Seqs`** has
the operators on sequences that the other modules share.

**`Supervisor`** is `resolver/supervisor.c`. A job is the state of its cache entry
(`jobState`, `interest`, `priority`, `orphaned`), helpers are numbered as in the
array, the intrusive lists are sequences. Calls (`Schedule`, `Release`,
`CompletionTake`, `Shutdown`, `EventsByTimer`, `EventsByHelper`) start only when
`pc = "ready"`. The loops of `events_process`, `timers_process` and `dispatch` run
step by step with `pc` and `cursor`, because each turn of them meets an outcome
the environment chooses. A deadline is a flag that the clock sets (`jobDue`,
`helperDue`). `armedJobs` and `armedHelpers` record what `timer_rearm` looked at.
`Faults` selects which failures of the operating system can occur.

**`InterestLedger`** is what `supervisor.h` promises: at most one query per entry,
counted interests, a completion exactly for a wanted query, completions in order.
`Supervisor` implements it (property `KeepsContract`, theorem `ContractKept`), and
`RouteService` is built on it.

**`RouteService`** composes a turn of `listener_loop` with the waiters of the
connections, the registry and prewarming. The supervisor is `InterestLedger`,
instantiated. `pc` walks through the loop body in the order of the code:
cancellation, resolver events, completions, signals, progress of waiters,
collection, reload, second collection, prewarming, sockets, timers, destruction of
closed connections, late collection, and the re-arming of the route timer. Each
call of the supervisor is a step of its own.

**`DnsLookup`, `CacheResult`, `Ipc`, `Lookup`** follow an answer from the name servers
to the cache. `DnsLookup` has the decisions of `dns.c` on a reply as functions over
records: which aliases form a chain, which records belong to its end, what a negative
answer may be cached for, when to ask again. `CacheResult` is the cache's own
validation and byte count, `Ipc` the packet codec. `Lookup` runs helpers (`Ask`, one
step per DNS query; then one packet at a time into a bounded socket) beside the
supervisor's assemblies, which share one byte budget. A name server may cut an alias
chain anywhere and return its pieces in any order and spelling.

**`Protocol`** reads and writes first packets as sequences of bytes: varints,
identification, framing, the modern handshake with its second frame, the legacy login
and ping. Field sizes are constants, so that short packets meet the limits.

**`ConnectionSetup`** is the pair of decisions on a packet whose route is known:
`connection_setup_long_prepared_run` for a worker (refuse, or connect and say this
seed) and `connection_setup_short_prepare` for the listener.

**`Relay`** is `net_relay`: a queue per direction, the events asked of `poll`, reads,
writes, the passing on of half closes, the idle timeout. A socket is the bytes that
arrived, the bytes its send buffer still holds and what its peer has read.

**`Worker`** composes `Relay` and `ConnectionSetup` into the life of a process from
`fork` to `exit`, beside a listener that may die at any moment.

**`Listener`** is a turn of `listener_loop` seen from the connections: `epoll_wait`
delivers a batch that is arbitrary but stale once taken; `pc` goes through
cancellation, signals and reaping, route progress, the socket pass, the timer pass,
the destruction of closed connections, and accepting. A connection is one record that
the functions of the code transform; what the code sends, receives and registers is
kept per socket. It uses `ConnectionSetup` for what a packet means.

The MC modules instantiate them for TLC. Operators commented as seeded faults are
not used by the specifications: they are the variants that show each property can
fail.

## Runs

| Run | Instance | Distinct states | Checks |
|---|---|---|---|
| `supervisor_faults` | 1 helper, 2 entries, every fault | 228,748 | lists, helpers, interests, cache, timer, shutdown, the contract |
| `supervisor_pool` | 2 helpers, 2 entries, blocked and failing sends | 2,818,758 | no idle helper beside a queued job, interactive jobs first |
| `supervisor_live` | 1 helper, 2 entries, helpers hang or die | 115,779 | queries, retries, back-off, shutdown end; interactive jobs served |
| `route_service` | 2 connections, 2 entries, unsendable jobs, reloads, `ClosingTold` | 3,335,553 | books agree, waiters have a query |
| `route_service_live` | 2 connections, 1 entry, refusals | 203,945 | types, generations kept while used, waits end, deferred reloads happen |
| `stale_interest` | 3 connections, 1 entry | violation | no release is refused after a completion |
| `lookup` | 1 query, every alias graph over 4 names, error replies | 20,552 | the answer is the zone's, all parts accept it, lookups end |
| `lookup_faults` | an SRV and an address query, lost, altered and foreign packets, deaths, deadlines passed or not to be set, orphans, no memory | 983,907 | published results are coherent, the byte budget is exact, a working helper's answer is the zone's |
| `worker` | 6 relayed and 10 refused packets, resets, failing calls | 728,944 | streams, half closes, poll, descriptors, orphans, termination |
| `worker_rewrite` | an old login without a signature, rewriting on | violation | a rewritten packet changes only in address and port |
| `listener_exchange` | 1 connection of 9 kinds, late loop, resets, shutdown | 602,592 | exchanges, interests, metrics, idle timer, cancellation in a batch, connections end |
| `listener_capacity` | 3 clients for 2 places and 1 worker, failing forks | 1,204,606 | limits, list of workers |

Bounds. Two entries are needed for queue order and promotion; two helpers for work
left beside an idle one; `JobLimit` 2 with a reserve of 1 lets background admission
hit its limit; `InterestLimit` 2 lets the interest count hit its limit;
`FailureLimit` 2 and `ResetSuccesses` 2 let both counters saturate. In
`RouteService` two connections share entries and two entries stand for IPv4 and
IPv6; there is one active and one retired generation, as in the registry. Its
`InterestLimit` is above what two connections can hold, so the limit shows up only
as a refusal. `route_service` has no refusals (`Refusals` is FALSE: with them two
entries take more than twice the states); refusals are explored by
`route_service_live`, with one entry and not against the two invariants of
`route_service`. For those invariants refusals are covered by the theorems of
`RouteServiceProofs`, which hold for either value of `Refusals`.

`lookup` allows aliases to depth 2 with four names, so chains below, at and over the
limit and every loop occur; the byte limits are such that one record more does not
fit and two assemblies cannot both be full. `worker` has an upstream that sends more
than a queue of the relay holds, a seed that is exactly as long as its bound allows,
and names at, below and over the field sizes. In `listener_exchange` the client's
socket takes 2 bytes, a buffer and the longest answer of the listener itself 3, and
the client may send more than the first buffer holds, so answers, relayed bytes and the
seed are sent and received in parts; a connect may never be answered, and then ends by
its timer; each timeout is the shortest
that keeps its order to the others (grace < assembly < lifetime; idle < lifetime), and
the loop may be one tick late. `listener_capacity` needs the third client to find
the places taken, in part by a worker.

Deadlock is not checked: the supervisor and the listener may have nothing to do, and
workers, lookups and the listener stop.

Symmetry of entries and connections is used in the safety runs only.

### Fairness

`Supervisor`: the thread finishes the call it is in; deadlines are reached; an
expired timer is processed even though other calls come in between (the nested
epoll descriptor is level-triggered and looked at in every turn). Nothing is
assumed of helpers, so the liveness results hold when they hang.

`RouteService`: the thread finishes its turn; timers run out; an expired connection
timer or the armed route timer wakes the loop. Nothing is assumed of clients,
signals or the resolver.

`Lookup`: a helper whose query is under way gets some reply (`res_nsend` gives up by
itself) and the supervisor visits every readable socket. Nothing is assumed of the
order in which several helpers are served.

`Worker`: the process runs, a pending unblocked signal is delivered, and the clocks
of the connect deadline and of the idle timeout advance while it waits. Calls that
fail are possible and never fair, so a worker does not end by luck. Nothing is assumed
of the peers.

`Listener`: the loop runs whenever there is something to do (`LoopRuns` is weak
fairness of the loop, written with the states in which it has nothing to do) and the
clock advances. Nothing is assumed of clients, upstreams, workers or verdicts.

### The disagreements found

`supervisor.h:271` says of the release of an interest: "Completion releases every
remaining interest implicitly", and `route/waiter.h:70` that "SATISFIED release outcomes
are normal". `stale_interest` shows a release after a completion that is refused and ends
the listener. A connection hangs up in the epoll batch in which its query completes
without a cacheable answer. It is marked closing first (`listener.c:3032`), so the
broadcast of the completion passes it over (`listener.c:2707`) and its waiter keeps
`interest = true`. In the same turn a reload publishes a generation whose prewarming
starts the query again, with a background interest only. At the end of the turn the
closed connection is destroyed and gives back an interactive interest the new job does
not have: the release is `BAD_ARGUMENT` (`resolver/supervisor.c:1180`) and
`listener_loop` is left with `EXITCODE_INTERNAL` (`listener.c:3321`). Two connections
that hang up and a third that starts the query again lead there too. With one hang-up
and one new waiter the release is accepted and takes the new waiter's interest, against
`supervisor.h:277` ("retains one interactive interest until release or completion"); that
one then waits for a query nobody wants, up to its deadline.

After such a pass-over the books are wrong, so `route_service` checks them with the
constraint `ClosingTold` (no completion has been taken while a closing connection holds
an interest in it); hang-ups and completions do meet in one batch there, as long as the
connection had no interest in the query that completed. `route_service_live` has no such
constraint.

`doc/configuration/mcrelay/config.jsonc:83` says that with `rewrite` "the server will
rewrite the address and port fields in the outgoing handshake packet".
`worker_rewrite` shows a login that changes elsewhere too. For protocol versions up to
1.20.1, `packet_read` drops a leading 1 of what follows the name, if there is one
(`protocol/handshake.c:285`), while `packet_write` puts a 1 there always
(`protocol/handshake.c:353`). A login of such a version whose rest begins with another
byte (one without a signature or without a UUID, in the versions where that is a
flag) reaches the upstream one byte longer. `worker` has such logins only with the
leading 1.

## Proofs

TLAPS proves the following for every value of the constants that the named
assumptions of the modules allow: any number of entries, helpers, connections, any
packets, buffer sizes, limits and faults. The properties are those that the runs check,
but for `InterestKept` and `ListenerSurvives`, which hold only under `ClosingTold`: TLC
refutes the second without it.

| Theorem | Module | Property |
|---|---|---|
| `TypeCorrect` | `SupervisorProofs` | `TypeOK` |
| `ListsAreRight` | `SupervisorProofs` | `ListsMatchStates` |
| `HelpersAreRight` | `SupervisorProofs` | `HelpersHoldJobs` |
| `InterestsAreRight` | `SupervisorProofs` | `InterestsRuleJobs` |
| `CacheIsUsed` | `SupervisorProofs` | `NoQueryWhileCached` |
| `ShutdownHolds` | `SupervisorProofs` | `ShutdownIsQuiet` |
| `NoIdleHelper` | `SupervisorProofs` | `WorkConserving` |
| `NoDeadlineMissed` | `SupervisorProofs` | `TimerCoversDeadlines` |
| `InteractiveGoesFirst` | `SupervisorProofs` | `InteractiveFirst` (of steps) |
| `ContractKept` | `SupervisorProofs` | `KeepsContract` (refinement) |
| `RouteServiceTypes` | `RouteServiceProofs` | `TypeOK` |
| `RetiredKept` | `RouteServiceProofs` | `RetiredKeptWhileUsed` |
| `BooksBalance` | `RouteServiceProofs` | `BooksAgree`, given `[]ClosingTold` |
| `LoopSurvives` | `RouteServiceProofs` | `ListenerSurvives`, given `[]ClosingTold` |
| `InterestRetained` | `RouteServiceProofs` | `InterestKept`, given `[]ClosingTold` |
| `WaitersHaveQueries` | `RouteServiceProofs` | `PendingHasQuery`, given `[]ClosingTold` |
| `OrphansAreTold` | `WorkerProofs` | `OrphanIsTold` |
| `EachClosedOnce` | `WorkerProofs` | `DescriptorsClosedOnce` |
| `PollIsComplete` | `WorkerProofs` | `PollMissesNothing` |
| `StreamsIntact` | `WorkerProofs` | `StreamIntact`, given `SeedsAreExpected` |
| `EofIsComplete` | `WorkerProofs` | `EofMeansComplete`, given `SeedsAreExpected` |
| `PlainStreamsIntact` | `WorkerProofs` | both, when no route rewrites |
| `LoopKeepsInvariant` | `ListenerProofs` | `LoopInv` (inductive) |
| `RoutesSettledOnce` | `ListenerProofs` | `SettledOnce` |
| `ClientCancellationWins` | `ListenerProofs` | `CancellationWins` (of steps) |
| `LimitsAreKept` | `ListenerCapacity` | `CapacityKept` |
| `BudgetIsExact` | `LookupProofs` | `BudgetExact` |
| `ResultsAreSound` | `LookupProofs` | `CompleteIsSound` |

### The supervisor

None of the first six is inductive alone. That a queue loses exactly the job which a
helper takes needs that the job was listed once; that a failing helper puts its job back
in the right queue needs to know who holds it and with what interest; that a new
query never starts beside an answer needs the cache. `Inductive` proves that their
conjunction `IInv` is preserved by every action. The argument is split:

- `SupervisorLemmas`: what appending, prepending, taking the head and removing do to a
  list that holds a set once each (`WithoutLists` and others); one lemma per shared
  effect (a job enters, leaves or moves between queues, a helper takes or lets go of a
  job, an attempt ends, a respawn); one lemma per call of the interface;
- `SupervisorProofs`: one lemma per step of the event loops, then dispatch, the clock,
  `Next`, and the temporal theorems;
- `SupervisorProofs`, second half: a call returns through one of few steps (`Returned`), and each
  of them leaves no work beside an idle helper and a timer that covers every deadline.
  Only dispatch gives a queued job to a helper (`OnlyDispatchTakes`), and which queue
  a job is on agrees with its interests (`QueuedPriority`), so a background job is
  taken only when the interactive queue is empty. Then one lemma per action says which
  step of `InterestLedger` it is, or that it changes nothing the ledger speaks of. A job
  is active in the ledger wherever it is between its start and its end. That an orphan
  ends without a completion, and that nothing else does, uses the invariant.

`ContractKept` is what lets `RouteService` stand for the listener with the real
supervisor: whatever the supervisor does, for any number of entries and helpers, is
something `InterestLedger` allows.

### The routes

`RouteServiceProofs` first splits the actions at their alternatives (`Step`, lemma
`Cases`), so that each case either moves one interest or none. `Shape` is inductive by
itself: types, and which connections and generations may hold anything at which point
of the loop's turn. It gives `RouteServiceTypes` and `RetiredKept`.

`Books` says that the interests the supervisor counts for an entry are as many as the
listener's owners that believe to hold one, for connections and for generations, and
that the loop has not been left by a refused release. It is inductive only while
`ClosingTold` holds: no completion is taken while a closing connection still holds an
interest in it. This is the one event the code has no answer to, the one that
`stale_interest` exhibits, and so it is a hypothesis and not a lemma. The theorems say
that there is no other: every behaviour that avoids it keeps the books, loses no
interest and never leaves the loop. `Asked` (a pending waiter has asked for
whatever it lacks) is what `WaitersHaveQueries` needs besides.

### The worker

`OrphansAreTold` rests on `Watching`: past its first call the worker has asked for the
signal, so a death after that call is signalled, and one before it is seen by
`getppid`. `EachClosedOnce` rests on `Owning`: nothing is closed and no error decided
before the worker ends, and it waits or relays only with an upstream's socket.

`WorkerProofs` proves `StreamTypes`, `Decided`, `Flows` and `Ends` of the streams together. `Flows` is
the heart of it: what an end has heard, what the relay and its socket hold for it and
what has arrived for it make up exactly what is owed to it (a prefix of it once the
source has reset). `Ends` orders the flags of a half close: a shutdown is passed on only behind
an end of file and an empty queue, an end of file is seen only after the last byte. The
variable `said` collects what each end has said so far, so that the invariant speaks of
a sequence and not of a recursive sum over the chunks. One lemma per kind of step says
what it does to these sequences.

What an upstream should hear first is part of a case (`expect`), and that setup
produces it is the work of the recursive codec, which the prover cannot follow. So
`SeedsAreExpected` is a hypothesis of `StreamsIntact` and `EofIsComplete`. It is not an
assumption of the module, because `worker_rewrite` is a case in which it fails; TLC
evaluates it for the packets of `worker` (`SeedsOfCases` in `MCWorker`).
`PlainStreamsIntact` needs no such hypothesis: without rewriting the seed is the packet
itself, behind the PROXY header if there is one, and that is proved.

### The listener's loop

`LoopInv` has four parts. `Lives`: every connection that is not gone is sound (its
counters agree with where its request stands, it has dialled nothing while its route is
open, and a wait for a route has a waiter and a timer that ends it) and every one that
is gone is settled. `Children`: only a
connection that forked has a worker. `Queue`: the backlog lists clients that no
connection was made for, once each. `Batch`: the phases of a turn have done what the next one
relies on; in particular, a client that left while it waited is closing, without a
worker, as long as its event is in the batch. The cancellation property is not a consequence of the handlers alone; it
needs the order of the passes, which is what `Batch` records.

`ListenerHandlers` has the lemmas on single connections, from the timers up to a whole
event: what each handler leaves of a connection it is given. `ListenerProofs` lifts them
to the passes over all connections.

`ListenerCapacity` is about the counters. `CapacityKept` bounds connections and workers
together when the loop goes to sleep, and that is not inductive: within a turn a client
that a worker has taken over counts twice, as a worker and as a connection that is
closing. `Room` keeps the bound up to these clients (`Handed`), and the pass that destroys
closed connections takes them away. `Workers` says that the list holds each child once;
`Deaths`, that a dead one is announced. `listener_workers_reap` runs over a list it
changes as it goes (the last entry moves into the place of one that is removed); `Reaping`
is the invariant of that loop, and `ReapTakes` what the whole of it does. The assumption
`Limits` says that both limits are natural numbers.

### The lookup

`LookupProofs` proves two properties together, for any packets at all. `AssemblyOK` says
what an assembly is between two packets: its aliases lead from the question on, none comes
back to a name already passed, and its running TTL is below each of theirs. There is
one lemma per kind of packet (`BeginConsumed`, `CnameConsumed`, `RecordCommitted`,
`EndConsumed`), and `PublishedIsSound` adds what the cache's own validation asks. The
budget is a sum over the assemblies and over the results that were handed on;
`ChargesMove` says that a step that changes the charge of one query changes the sum by as
much, and `Uncharge` never meets its guard because each charge is below the sum.

### Induction

`NatSetInduction` states induction over the naturals for a set, in which form the
provers can use it. `SumSolves` and `ReapSolves` show first that a recursive function
with the equations of the definition exists; only then do the equations follow from
the definition.

### What is only model-checked

- All liveness, which is out of reach of the prover.
- `AnswerMatchesZone` and `PartsAgree` of `Lookup`: they speak of every reply a name
  server can give, through the recursive walk along its aliases.
- `ExchangeIntact`, `EventsMissNothing`, `IdleMeansIdle` of `Listener`: the bytes and
  registrations of an exchange need an invariant of every handler over the socket
  records, beyond what `ListenerHandlers` says so far.
- `Protocol`'s round trips, checked by the runs through `Worker` and `Listener`.

## Abstractions

`Supervisor`: delays, jitter and their arithmetic are left out (a deadline is
reached at some time); the status codes that make the listener give up (epoll or
clock failure of the supervisor itself) are left out; so are the observation ring
and the statistics. Two facts of the code the model makes visible and states no
property about: a job in `SENDING` has no deadline until the request is written,
and a completion that `dispatch` produces inside a schedule or release call is only
taken at the next resolver event.

`RouteService`: routes are address routes; the order of preference of the families
does not change the verdict, only the address chosen. `FRESH` cannot answer an
interactive request, because the waiter saw an empty view at the same instant. The
references of a generation are the set of connections that pin it. A connection
leaves the model once it needs no route any more. Failures of system calls that end
the listener at once are left out; a refused release is not.

`Lookup`: a DNS reply is a record of its sections, a name a sequence of labels with a
spelling, a packet a record; the byte layouts are left out, the validity rules of each
codec are not. A helper serves one query and ends. That a result was completed after its
deadline, that a deadline cannot be set when the request is sent, and that nobody waits
for the result any more are choices of the environment; a retry is a new query, so a job
ends where the code would try it again.

`Protocol`: bytes are numbers and sizes are scaled. The fields a reader does not look
at in the legacy ping are those of the one client version that sends it. The texts of
refusals and status answers are names of a given length.

`Worker` and `Relay`: a socket accepts `SOCKET_BYTES` until its peer reads all of it;
`recv` returns all that has arrived, up to the room there is. `EINTR` only repeats a
call and is left out.

`Listener`: the order of the connection list and of a batch is arbitrary, which
covers every order the kernel and the list can produce. Reloads, the retained
generation and the route runtime are in `RouteService`; here a verdict comes at once,
later or never. Timers count ticks, and a handler may use a clock sample up to
`LATENESS` ticks old, as the loop does. Failing timer, epoll and memory calls are left
out, since each ends the connection or the listener at once.

## Not modelled

- **SRV destinations in routes** (`route/resolution.c`, the SRV part of `waiter.c` and
  `endpoint.c`): their requirements grow while a waiter waits. `RouteService` is at the
  size TLC can finish with address routes alone. The hazard of replaced targets is
  listed and has no property.
- **Hash table and references of the cache**: single-threaded bookkeeping of pointers;
  the owners' side of it (who holds which entry when) is what `RouteService` checks.
- **Hosts table and watch**: text parsing, and `inotify` descriptors whose only effect
  is a request to reload, which `RouteService` has as an input.
- **Route table and bindings, configuration, logging, start-up**: sequential and over
  text; nothing concurrent can change while they run.
- **The PROXY header and the text of messages**: formatting.
- **The metrics endpoint and the counters beside those of a route request**: each
  follows one event.
- **A request stuck in `SENDING`**: the model has the state, but no fairness of the
  code says that the socket of a stuck helper becomes writable.

## Possible next steps

1. `RouteResolution`: SRV destinations, expansion, replacement of targets that share
   entries, warm-up accounting.
2. Cache references in place of `answer` in `RouteService`.
3. Theorems: the exchange of `Listener` (`ExchangeIntact`, `EventsMissNothing`).

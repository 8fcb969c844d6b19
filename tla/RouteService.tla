---------------------------- MODULE RouteService ----------------------------
(***************************************************************************)
(* How connections, route generations and the resolver supervisor share    *)
(* DNS queries: one turn of the listener's event loop (listener_loop in    *)
(* src/listener.c) with the route waiters of the connections               *)
(* (src/route/waiter.c), the generation registry                           *)
(* (src/route/generation_registry.c) and the background prewarming of a    *)
(* generation (src/route/resolution.c).  The supervisor is represented by  *)
(* its contract, InterestLedger, which Supervisor.tla implements.          *)
(*                                                                         *)
(* pc names the part of the loop body the thread is in.  Every call of the *)
(* supervisor is a step of its own; cur is the connection whose waiter is  *)
(* progressing.  Routes here are address routes: a route needs any one of  *)
(* the answers to its address queries (IPv4 and IPv6).                     *)
(***************************************************************************)
EXTENDS Integers, FiniteSets, Sequences

CONSTANTS
    Conn,           \* slots for client connections
    Entry,          \* cache entries (address queries)
    None,           \* no connection
    Route,          \* the entries the route of a connection can use
    InterestLimit,  \* RESOLVER_SUPERVISOR_INTEREST_COUNT_LIMIT
    Refusals,       \* the supervisor may answer LIMIT or MEMORY
    Exhausted       \* dispatch may complete a job that it cannot send

ASSUME RouteServiceAssumption ==
    /\ IsFiniteSet(Conn)
    /\ None \notin Conn
    /\ Route \in [Conn -> SUBSET Entry]
    /\ InterestLimit \in Nat \ {0}
    /\ Refusals \in BOOLEAN /\ Exhausted \in BOOLEAN

Kind == {"INTERACTIVE", "BACKGROUND"}
Generation == {"active", "retired"}
Phase == {"wait", "events", "taking", "progress", "collect", "reload", "recollect",
          "schedule", "ready", "timeouts", "destroy", "collect_late", "stopping", "exit"}

VARIABLES
    phase, interest, completion, stopped,  \* the supervisor: see InterestLedger
    answer,         \* the view of a cache entry
    publication,    \* what became of the answer of a completed query
    conn,           \* connection->state up to the end of the route lookup
    pin,            \* connection->generation
    closing,        \* connections marked closing
    expired,        \* connections whose timer has run out
    has,            \* waiter->entries[].interest
    awaits,         \* waiter->entries[].completion_pending
    overlay,        \* waiter->entries[].overlay.status
    held,           \* background_interest of a generation's entries
    prewarm,        \* entries the active generation has still to schedule
    retired,        \* the registry keeps a retired generation
    runtime,        \* the initial warm-up goes on, is out of time, or is over
    reloadPending,
    routeTimer,     \* the route timer is armed to fire at once
    pc, todo, cur

ledgerVars == <<phase, interest, completion, stopped>>
cacheVars == <<answer, publication>>
waiterVars == <<has, awaits, overlay>>
connVars == <<conn, pin, closing, expired>>
generationVars == <<held, prewarm, retired, runtime>>
loopVars == <<reloadPending, routeTimer, pc, todo, cur>>
vars == <<ledgerVars, cacheVars, waiterVars, connVars, generationVars, loopVars>>

Fresh == [e \in Entry |-> answer[e] # "empty"]

Ledger == INSTANCE InterestLedger WITH fresh <- Fresh

TypeOK ==
    /\ phase \in [Entry -> {"none", "active", "complete"}]
    /\ interest \in [Entry -> [Kind -> 0..(Cardinality(Conn) + Cardinality(Generation))]]
    /\ completion \in Seq(Entry)
    /\ stopped \in BOOLEAN
    /\ answer \in [Entry -> {"empty", "positive", "nodata"}]
    /\ publication \in [Entry -> {"none", "stored", "transient", "failed"}]
    /\ conn \in [Conn -> {"NONE", "INITIAL", "ROUTE_WAITING"}]
    /\ pin \in [Conn -> Generation \cup {"none"}]
    /\ closing \subseteq Conn
    /\ expired \subseteq Conn
    /\ has \in [Conn -> SUBSET Entry]
    /\ awaits \in [Conn -> SUBSET Entry]
    /\ overlay \in [Conn -> [Entry -> {"none", "positive", "unavailable"}]]
    /\ held \in [Generation -> SUBSET Entry]
    /\ prewarm \subseteq Entry
    /\ runtime \in {"warming", "due", "ready"}
    /\ retired \in BOOLEAN /\ reloadPending \in BOOLEAN /\ routeTimer \in BOOLEAN
    /\ pc \in Phase
    /\ todo \subseteq Conn
    /\ cur \in Conn \cup {None}

NoOverlay == [e \in Entry |-> "none"]

Init ==
    /\ answer = [e \in Entry |-> "empty"]
    /\ Ledger!Init
    /\ publication = [e \in Entry |-> "none"]
    /\ conn = [c \in Conn |-> "NONE"]
    /\ pin = [c \in Conn |-> "none"]
    /\ closing = {}
    /\ expired = {}
    /\ has = [c \in Conn |-> {}]
    /\ awaits = [c \in Conn |-> {}]
    /\ overlay = [c \in Conn |-> NoOverlay]
    /\ held = [g \in Generation |-> {}]
    /\ prewarm = Entry
    /\ retired = FALSE
    /\ runtime = "warming"
    /\ reloadPending = FALSE
    /\ routeTimer = FALSE
    /\ pc = "schedule"
    /\ todo = {}
    /\ cur = None

-----------------------------------------------------------------------------
(* Connections and their waiters *)

\* The connections the loops over waiting connections do not pass over.
Waiting == {c \in Conn : conn[c] = "ROUTE_WAITING" /\ c \notin closing}

\* route_endpoint_entry_view: an overlay hides the cache.
Seen(c, e) ==
    CASE overlay[c][e] = "none" -> answer[e]
      [] overlay[c][e] = "positive" -> "positive"
      [] overlay[c][e] = "unavailable" -> "nodata"

\* route_endpoint_evaluate for an address route, in either order of families,
\* and then the deadline: an answer that is there wins over the timeout (the
\* seeded fault has no deadline).
VerdictNoDeadline(c) ==
    IF \E e \in Route[c] : Seen(c, e) = "positive" THEN "READY"
    ELSE IF \A e \in Route[c] : Seen(c, e) # "empty" THEN "UNAVAILABLE"
    ELSE "PENDING"
Verdict(c) ==
    IF \E e \in Route[c] : Seen(c, e) = "positive" THEN "READY"
    ELSE IF \A e \in Route[c] : Seen(c, e) # "empty" THEN "UNAVAILABLE"
    ELSE IF c \in expired THEN "TIMEOUT"
    ELSE "PENDING"

\* The waiter, if any, is freed and the generation is unpinned.
Forget(c) ==
    /\ conn' = [conn EXCEPT ![c] = "NONE"]
    /\ pin' = [pin EXCEPT ![c] = "none"]
    /\ closing' = closing \ {c}
    /\ expired' = expired \ {c}
    /\ awaits' = [awaits EXCEPT ![c] = {}]
    /\ overlay' = [overlay EXCEPT ![c] = NoOverlay]

\* The loop is left with EXITCODE_INTERNAL: cleanup disposes of every
\* connection without calling the supervisor, then destroys the supervisor.
Fail ==
    /\ pc' = "exit"
    /\ cur' = None
    /\ todo' = {}
    /\ conn' = [c \in Conn |-> "NONE"]
    /\ pin' = [c \in Conn |-> "none"]
    /\ closing' = {}
    /\ expired' = {}
    /\ has' = [c \in Conn |-> {}]
    /\ awaits' = [c \in Conn |-> {}]
    /\ overlay' = [c \in Conn |-> NoOverlay]
    /\ UNCHANGED <<ledgerVars, generationVars, reloadPending, routeTimer>>

\* route_waiter_entry_interest_release: SATISFIED when there is no job or it
\* is complete, BAD_ARGUMENT when the job has no interactive interest.
ClearFlag(c, e) == has' = [has EXCEPT ![c] = @ \ {e}]

GiveBack(c, e) ==
    /\ e \in has[c]
    /\ UNCHANGED cacheVars
    /\ \/ /\ Ledger!Release(e, "INTERACTIVE")
          /\ ClearFlag(c, e)
          /\ UNCHANGED <<awaits, overlay, connVars, generationVars, loopVars>>
       \/ /\ phase[e] # "active"
          /\ ClearFlag(c, e)
          /\ UNCHANGED <<ledgerVars, awaits, overlay, connVars, generationVars, loopVars>>
       \/ /\ phase[e] = "active"
          /\ interest[e]["INTERACTIVE"] = 0
          /\ Fail

-----------------------------------------------------------------------------
(* The batch of events and the clock *)

\* A connection is accepted at the end of a turn, once the listener is ready,
\* and pins the active generation (listener_connection_create).
Accept(c) ==
    /\ pc = "wait"
    /\ runtime = "ready"
    /\ conn[c] = "NONE"
    /\ conn' = [conn EXCEPT ![c] = "INITIAL"]
    /\ pin' = [pin EXCEPT ![c] = "active"]
    /\ UNCHANGED <<ledgerVars, cacheVars, waiterVars, closing, expired, generationVars, loopVars>>

TimerExpires(c) ==
    /\ pc = "wait"
    /\ conn[c] # "NONE"
    /\ c \notin expired
    /\ expired' = expired \cup {c}
    /\ UNCHANGED <<ledgerVars, cacheVars, waiterVars, conn, pin, closing, generationVars, loopVars>>

\* The deadline of the initial warm-up passes.
WarmupDeadline ==
    /\ pc = "wait"
    /\ runtime = "warming"
    /\ runtime' = "due"
    /\ UNCHANGED <<ledgerVars, cacheVars, waiterVars, connVars, held, prewarm, retired, loopVars>>

\* The clock is read anew when the loop wakes, before prewarming and before
\* the connections' timers.
AnswerExpires(e) ==
    /\ pc \in {"wait", "taking", "schedule", "timeouts"}
    /\ cur = None
    /\ answer[e] # "empty"
    /\ answer' = [answer EXCEPT ![e] = "empty"]
    /\ UNCHANGED <<ledgerVars, publication, waiterVars, connVars, generationVars, loopVars>>

\* SIGTERM is handled before the rest of the turn, a reload is remembered.
Signals(next) ==
    \/ pc' = "stopping" /\ UNCHANGED reloadPending
    \/ pc' = next /\ reloadPending' \in {reloadPending, TRUE}

\* Client cancellation comes first: every waiting connection whose peer hung
\* up is marked closing before the resolver's events are processed.
Wake(hungUp, resolverReady) ==
    /\ pc = "wait"
    /\ hungUp \subseteq Waiting
    /\ closing' = closing \cup hungUp
    /\ routeTimer' = FALSE
    /\ IF resolverReady
       THEN pc' = "events" /\ UNCHANGED reloadPending
       ELSE Signals("collect")
    /\ UNCHANGED <<ledgerVars, cacheVars, waiterVars, conn, pin, expired, generationVars, todo, cur>>

-----------------------------------------------------------------------------
(* listener_resolver_events_process *)

\* What a finished query leaves: an answer in the cache, an answer for those
\* who wait only, or nothing.
Published == {<<"stored", "positive">>, <<"stored", "nodata">>,
              <<"transient", "empty">>, <<"failed", "empty">>}

QueryCompletes(e) ==
    /\ pc = "events"
    /\ \E p \in Published :
          /\ publication' = [publication EXCEPT ![e] = p[1]]
          /\ answer' = [answer EXCEPT ![e] = p[2]]
    /\ Ledger!Complete(e)
    /\ UNCHANGED <<waiterVars, connVars, generationVars, loopVars>>

\* An orphan ends; only its cache entry remembers it.
QueryDropped(e) ==
    /\ pc = "events"
    /\ \E a \in {"empty", "positive", "nodata"} : answer' = [answer EXCEPT ![e] = a]
    /\ Ledger!Drop(e)
    /\ UNCHANGED <<publication, waiterVars, connVars, generationVars, loopVars>>

EventsDone ==
    /\ pc = "events"
    /\ pc' = "taking"
    /\ UNCHANGED <<ledgerVars, cacheVars, waiterVars, connVars, generationVars,
                   reloadPending, routeTimer, todo, cur>>

\* route_waiter_completion_observe: the overlay a waiter is left with.  After
\* the waiter's deadline an answer counts only if it was completed in time.
Observed(c, e) ==
    LET inTime == CASE publication[e] = "stored" -> "none"
                    [] publication[e] = "transient" -> "positive"
                    [] OTHER -> "unavailable"
    IN  {inTime} \cup (IF c \in expired THEN {"unavailable"} ELSE {})

\* The waiters that are told of a completion (the seeded fault tells none).
NoObservers(e) == {}
Observers(e) == {c \in Waiting : e \in Route[c]}

\* One turn of the loop around completion_take: both generations clear their
\* marks, then every waiter that is not closing does.
TakeCompletion ==
    LET e == Head(completion) IN
    /\ pc = "taking"
    /\ UNCHANGED answer
    /\ Ledger!Take
    /\ publication' = [publication EXCEPT ![e] = "none"]
    /\ held' = [g \in Generation |-> held[g] \ {e}]
    /\ prewarm' = prewarm \ {e}
    /\ has' = [c \in Conn |-> IF c \in Observers(e) THEN has[c] \ {e} ELSE has[c]]
    /\ awaits' = [c \in Conn |-> IF c \in Observers(e) THEN awaits[c] \ {e} ELSE awaits[c]]
    /\ \E seen \in [Observers(e) -> {"none", "positive", "unavailable"}] :
          /\ \A c \in Observers(e) : seen[c] \in Observed(c, e)
          /\ overlay' = [c \in Conn |-> IF c \in Observers(e)
                                        THEN [overlay[c] EXCEPT ![e] = seen[c]]
                                        ELSE overlay[c]]
    /\ UNCHANGED <<connVars, retired, runtime, loopVars>>

TakingDone ==
    /\ pc = "taking"
    /\ completion = <<>>
    /\ Signals("progress")
    /\ todo' = IF pc' = "progress" THEN Waiting ELSE {}
    /\ UNCHANGED <<ledgerVars, cacheVars, waiterVars, connVars, generationVars, routeTimer, cur>>

-----------------------------------------------------------------------------
(* route_waiter_progress of the connection cur *)

ProgressBegin(c) ==
    /\ pc = "progress"
    /\ cur = None
    /\ c \in todo
    /\ cur' = c
    /\ todo' = todo \ {c}
    /\ UNCHANGED <<ledgerVars, cacheVars, waiterVars, connVars, generationVars,
                   reloadPending, routeTimer, pc>>

ProgressDone ==
    /\ pc = "progress"
    /\ cur = None
    /\ todo = {}
    /\ pc' = "collect"
    /\ UNCHANGED <<ledgerVars, cacheVars, waiterVars, connVars, generationVars,
                   reloadPending, routeTimer, todo, cur>>

\* route_waiter_terminal_set releases every interest that is left ...
TerminalRelease(e) ==
    /\ cur # None
    /\ Verdict(cur) # "PENDING"
    /\ GiveBack(cur, e)

\* ... and the connection goes on without its waiter, or is closed because
\* the hand-over failed.
TerminalDone ==
    /\ cur # None
    /\ Verdict(cur) # "PENDING"
    /\ has[cur] = {}
    /\ cur' = None
    /\ \/ Forget(cur)
       \/ closing' = closing \cup {cur} /\ UNCHANGED <<conn, pin, expired, awaits, overlay>>
    /\ UNCHANGED <<ledgerVars, cacheVars, has, generationVars, reloadPending, routeTimer, pc, todo>>

\* The entries the waiter still has to ask for; the seeded fault asks again
\* for what it already has.
NeededAgain(c) == {e \in Route[c] : Seen(c, e) = "empty" /\ e \notin awaits[c]}
Needed(c) == {e \in Route[c] : Seen(c, e) = "empty" /\ e \notin has[c] /\ e \notin awaits[c]}

\* The outcomes of entry_schedule_interactive; FRESH cannot be one of them,
\* because the view was empty at the same instant.
Ask(e) ==
    /\ cur # None
    /\ Verdict(cur) = "PENDING"
    /\ e \in Needed(cur)
    /\ UNCHANGED cacheVars
    /\ \/ /\ Ledger!Schedule(e, "INTERACTIVE")
          /\ has' = [has EXCEPT ![cur] = @ \cup {e}]
          /\ UNCHANGED <<awaits, overlay>>
       \/ /\ phase[e] = "complete"
          /\ awaits' = [awaits EXCEPT ![cur] = @ \cup {e}]
          /\ UNCHANGED <<ledgerVars, has, overlay>>
       \/ /\ phase[e] # "complete"
          /\ Refusals
          /\ overlay' = [overlay EXCEPT ![cur][e] = "unavailable"]
          /\ UNCHANGED <<ledgerVars, has, awaits>>
    /\ UNCHANGED <<connVars, generationVars, loopVars>>

\* The waiter stays pending.  A client whose data and hang-up came in the
\* same event is closed now that it waits.
AskDone ==
    /\ cur # None
    /\ Verdict(cur) = "PENDING"
    /\ Needed(cur) = {}
    /\ cur' = None
    /\ closing' \in {closing} \cup (IF pc = "ready" THEN {closing \cup {cur}} ELSE {})
    /\ UNCHANGED <<ledgerVars, cacheVars, waiterVars, conn, pin, expired, generationVars,
                   reloadPending, routeTimer, pc, todo>>

\* A job that dispatch cannot send, inside any call of the supervisor,
\* completes without an answer and waits for the next resolver event.
DispatchCompletes(e) ==
    /\ Exhausted
    /\ pc \in {"progress", "collect", "recollect", "schedule", "ready", "timeouts",
               "destroy", "collect_late"}
    /\ publication' = [publication EXCEPT ![e] = "failed"]
    /\ UNCHANGED answer
    /\ Ledger!Complete(e)
    /\ UNCHANGED <<waiterVars, connVars, generationVars, loopVars>>

-----------------------------------------------------------------------------
(* Generations *)

\* route_generation_reference_count(retired) == 1 (seeded fault: no look).
CollectPinned == retired
Collectable == retired /\ \A c \in Conn : pin[c] # "retired"

Collecting == pc \in {"collect", "recollect", "collect_late"}

\* route_resolution_background_release of the retired generation, entry by
\* entry, then the generation is freed.
CollectRelease(e) ==
    /\ Collecting
    /\ Collectable
    /\ e \in held["retired"]
    /\ UNCHANGED cacheVars
    /\ \/ /\ Ledger!Release(e, "BACKGROUND")
          /\ held' = [held EXCEPT !["retired"] = @ \ {e}]
          /\ UNCHANGED <<waiterVars, connVars, prewarm, retired, runtime, loopVars>>
       \/ /\ phase[e] # "active"
          /\ held' = [held EXCEPT !["retired"] = @ \ {e}]
          /\ UNCHANGED <<ledgerVars, waiterVars, connVars, prewarm, retired, runtime, loopVars>>
       \/ /\ phase[e] = "active"
          /\ interest[e]["BACKGROUND"] = 0
          /\ Fail

\* At the end of the turn a deferred reload that can go on now arms the route
\* timer, or nothing would wake the loop for it (the seeded fault).
NoRearm == FALSE
ReloadResumes == runtime = "ready" /\ reloadPending /\ ~retired'

CollectDone ==
    /\ Collecting
    /\ Collectable => held["retired"] = {}
    /\ retired' = (retired /\ ~Collectable)
    /\ pc' = IF pc = "collect" THEN "reload"
             ELSE IF pc = "recollect" THEN "schedule"
             ELSE "wait"
    /\ routeTimer' = (routeTimer \/ (pc = "collect_late" /\ ReloadResumes))
    /\ UNCHANGED <<ledgerVars, cacheVars, waiterVars, connVars, held, prewarm, runtime,
                   reloadPending, todo, cur>>

\* route_generation_registry_publish: what was active is retired, and the
\* prewarming of the new generation starts from its first entry.
Publish ==
    /\ held' = [g \in Generation |-> IF g = "active" THEN {} ELSE held["active"]]
    /\ prewarm' = Entry
    /\ retired' = TRUE
    /\ pin' = [c \in Conn |-> IF pin[c] = "active" THEN "retired" ELSE pin[c]]
    /\ pc' = "recollect"

\* The registry has room for one retired generation (seeded fault: no look).
AlwaysRoom == TRUE
RegistryFree == ~retired

CanReload == runtime = "ready" /\ reloadPending /\ RegistryFree

\* listener_reload and listener_hosts_reload publish, or keep what they have
\* because the configuration is not valid; a reload that cannot start waits.
Reload ==
    /\ pc = "reload"
    /\ \/ /\ CanReload
          /\ reloadPending' = FALSE
          /\ \/ Publish
             \/ pc' = "schedule" /\ UNCHANGED <<held, prewarm, retired, pin>>
       \/ /\ ~CanReload
          /\ pc' = "schedule"
          /\ UNCHANGED <<held, prewarm, retired, pin, reloadPending>>
    /\ UNCHANGED <<ledgerVars, cacheVars, waiterVars, conn, closing, expired,
                   runtime, routeTimer, todo, cur>>

\* route_resolution_schedule: one background interest per entry and
\* generation; an entry that has an answer or a completion is passed over.
Prewarm(e) ==
    /\ pc = "schedule"
    /\ e \in prewarm
    /\ prewarm' = prewarm \ {e}
    /\ UNCHANGED cacheVars
    /\ \/ /\ Ledger!Schedule(e, "BACKGROUND")
          /\ held' = [held EXCEPT !["active"] = @ \cup {e}]
       \/ /\ answer[e] # "empty" \/ phase[e] = "complete"
          /\ UNCHANGED <<ledgerVars, held>>
    /\ UNCHANGED <<waiterVars, connVars, retired, runtime, loopVars>>

\* The entries are all scheduled, or the supervisor refuses more for now: the
\* route timer is disarmed.  A full batch (LISTENER_ROUTE_PREWARM_BATCH_LIMIT)
\* arms it for the rest.  The warm-up is over when every destination has been
\* looked up, or at its deadline.
PrewarmDone ==
    /\ pc = "schedule"
    /\ \/ (prewarm = {} \/ Refusals) /\ routeTimer' = FALSE
       \/ prewarm # {} /\ routeTimer' = TRUE
    /\ runtime' \in IF runtime = "due" THEN {"ready"} ELSE {runtime, "ready"}
    /\ pc' = "ready"
    /\ UNCHANGED <<ledgerVars, cacheVars, waiterVars, connVars, held, prewarm, retired,
                   reloadPending, todo, cur>>

-----------------------------------------------------------------------------
(* Ready connections: sockets first, then timers *)

\* listener_connection_route_start: a new waiter with a new deadline.
RouteStart(c) ==
    /\ pc = "ready" \/ (pc = "timeouts" /\ c \in expired)
    /\ cur = None
    /\ conn[c] = "INITIAL"
    /\ c \notin closing
    /\ conn' = [conn EXCEPT ![c] = "ROUTE_WAITING"]
    /\ expired' = expired \ {c}
    /\ cur' = c
    /\ UNCHANGED <<ledgerVars, cacheVars, waiterVars, pin, closing, generationVars,
                   reloadPending, routeTimer, pc, todo>>

\* The client leaves, says nothing sensible in time, or needs no route.
InitialEnds(c) ==
    /\ pc = "ready" \/ (pc = "timeouts" /\ c \in expired)
    /\ cur = None
    /\ conn[c] = "INITIAL"
    /\ c \notin closing
    /\ \/ Forget(c)
       \/ closing' = closing \cup {c} /\ UNCHANGED <<conn, pin, expired, awaits, overlay>>
    /\ UNCHANGED <<ledgerVars, cacheVars, has, generationVars, loopVars>>

ReadyDone ==
    /\ pc = "ready"
    /\ cur = None
    /\ pc' = "timeouts"
    /\ UNCHANGED <<ledgerVars, cacheVars, waiterVars, connVars, generationVars,
                   reloadPending, routeTimer, todo, cur>>

\* listener_connection_timeout while the connection waits for its route.
WaiterTimeout(c) ==
    /\ pc = "timeouts"
    /\ cur = None
    /\ c \in Waiting \cap expired
    /\ cur' = c
    /\ UNCHANGED <<ledgerVars, cacheVars, waiterVars, connVars, generationVars,
                   reloadPending, routeTimer, pc, todo>>

TimeoutsDone ==
    /\ pc = "timeouts"
    /\ cur = None
    /\ \A c \in expired : conn[c] = "NONE" \/ c \in closing
    /\ pc' = "destroy"
    /\ UNCHANGED <<ledgerVars, cacheVars, waiterVars, connVars, generationVars,
                   reloadPending, routeTimer, todo, cur>>

\* listener_connections_destroy_closed, and on SIGTERM the destruction of
\* every connection.
Doomed == IF pc = "stopping" THEN {c \in Conn : conn[c] # "NONE"}
          ELSE IF pc = "destroy" THEN closing
          ELSE {}

DestroyRelease(c, e) == c \in Doomed /\ GiveBack(c, e)

Destroy(c) ==
    /\ c \in Doomed
    /\ has[c] = {}
    /\ Forget(c)
    /\ UNCHANGED <<ledgerVars, cacheVars, has, generationVars, loopVars>>

DestroyDone ==
    /\ pc = "destroy"
    /\ Doomed = {}
    /\ pc' = "collect_late"
    /\ UNCHANGED <<ledgerVars, cacheVars, waiterVars, connVars, generationVars,
                   reloadPending, routeTimer, todo, cur>>

\* With every connection gone the resolver shuts down and the loop only waits
\* for its helpers.
ShutDown ==
    /\ pc = "stopping"
    /\ Doomed = {}
    /\ UNCHANGED answer
    /\ Ledger!Shutdown
    /\ pc' = "exit"
    /\ publication' = [e \in Entry |-> "none"]
    /\ UNCHANGED <<waiterVars, connVars, generationVars, reloadPending, routeTimer, todo, cur>>

-----------------------------------------------------------------------------
Environment ==
    \/ \E c \in Conn : Accept(c) \/ TimerExpires(c)
    \/ WarmupDeadline
    \/ \E e \in Entry : AnswerExpires(e) \/ QueryCompletes(e) \/ QueryDropped(e) \/ DispatchCompletes(e)
    \/ \E hungUp \in SUBSET Conn, r \in BOOLEAN : Wake(hungUp, r)

\* The steps of the thread between two calls of epoll_wait.
Turn ==
    \/ EventsDone \/ TakeCompletion \/ TakingDone
    \/ ProgressDone \/ TerminalDone \/ AskDone
    \/ CollectDone \/ Reload \/ PrewarmDone
    \/ ReadyDone \/ TimeoutsDone \/ DestroyDone \/ ShutDown
    \/ \E c \in Conn : ProgressBegin(c) \/ RouteStart(c) \/ InitialEnds(c) \/ WaiterTimeout(c) \/ Destroy(c)
    \/ \E e \in Entry : TerminalRelease(e) \/ Ask(e) \/ CollectRelease(e) \/ Prewarm(e)
    \/ \E c \in Conn, e \in Entry : DestroyRelease(c, e)

Next == Environment \/ Turn

Spec == Init /\ [][Next]_vars

-----------------------------------------------------------------------------
(* Fairness: the thread goes on with its turn; an expired timer of a         *)
(* connection and the armed route timer wake it; timers do expire.  Nothing  *)
(* is assumed of clients, of signals or of the resolver.                     *)

TimerWake ==
    /\ routeTimer \/ runtime = "due" \/ \E c \in expired : conn[c] # "NONE"
    /\ \E hungUp \in SUBSET Conn, r \in BOOLEAN : Wake(hungUp, r)

Fairness ==
    /\ WF_vars(Turn)
    /\ WF_vars(TimerWake)
    /\ SF_vars(WarmupDeadline)
    /\ \A c \in Conn : SF_vars(TimerExpires(c))

FairSpec == Spec /\ Fairness

-----------------------------------------------------------------------------
(* Properties *)

\* The completion that is taken next concerns no connection that is closing:
\* closing connections are passed over when their waiters are told, so their
\* marks would outlive the query.  The two sides' books agree exactly as long
\* as this holds; ListenerSurvives is about what happens when it does not.
ClosingTold ==
    pc = "taking" /\ completion # <<>> => \A c \in closing : Head(completion) \notin has[c]

\* Both sides of the contract keep the same books: a running query has as
\* many interactive interests as connections that think they hold one, and as
\* many background interests as generations that do; without a query nobody
\* who is still served thinks so.  (While ClosingTold holds.)
BooksAgree ==
    pc # "exit" =>
        \A e \in Entry :
            /\ phase[e] = "active" =>
                  /\ interest[e]["INTERACTIVE"] = Cardinality({c \in Conn : e \in has[c]})
                  /\ interest[e]["BACKGROUND"] = Cardinality({g \in Generation : e \in held[g]})
            /\ phase[e] = "none" =>
                  /\ \A c \in Waiting : e \notin has[c] \cup awaits[c]
                  /\ \A g \in Generation : e \notin held[g]

\* "A STARTED or COALESCED result retains one interactive interest until
\* release or completion" (supervisor.h): while a connection that is not
\* closing holds an interest, the query it waits for is running with an
\* interactive interest, or is complete.
InterestKept ==
    \A c \in Waiting : \A e \in has[c] :
        \/ phase[e] = "complete"
        \/ phase[e] = "active" /\ interest[e]["INTERACTIVE"] > 0

\* When the thread goes to sleep every pending waiter has a query to wait
\* for, so only the network can make it wait for its deadline.  (While
\* ClosingTold holds.)
PendingHasQuery ==
    pc = "wait" =>
        \A c \in Waiting :
            \E e \in Route[c] : e \in has[c] \cup awaits[c] /\ phase[e] # "none"

\* Giving an interest back is never refused, whenever the holder comes to it:
\* "Completion releases every remaining interest implicitly" (supervisor.h),
\* and a release after it is SATISFIED.  So the listener does not leave its
\* loop with EXITCODE_INTERNAL over it (listener_connections_destroy_closed).
ListenerSurvives == pc = "exit" => stopped

\* A generation is kept while a connection uses it, and gives back all its
\* background interests before it is freed.
RetiredKeptWhileUsed ==
    ~retired => held["retired"] = {} /\ \A c \in Conn : pin[c] # "retired"

\* No connection waits for its route for ever, whatever the resolver does.
WaitEnds == \A c \in Conn : conn[c] = "ROUTE_WAITING" ~> conn[c] # "ROUTE_WAITING"

\* A reload that had to wait, for the warm-up or for a retired generation, is
\* not forgotten.
ReloadHappens == reloadPending ~> ~reloadPending \/ pc = "exit"
=============================================================================

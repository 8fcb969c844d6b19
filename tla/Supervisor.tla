----------------------------- MODULE Supervisor -----------------------------
(***************************************************************************)
(* The DNS resolver supervisor (src/resolver/supervisor.c): a pool of      *)
(* helper processes, at most one query job per cache entry, two FIFO       *)
(* queues (interactive before background), interest counts that decide     *)
(* whether a job is still wanted, retries, respawn back-off, a completion  *)
(* FIFO and an orderly shutdown.                                           *)
(*                                                                         *)
(* The listener calls the supervisor from one thread.  A call that the C   *)
(* code runs to its end is a sequence of steps here: pc names the loop the *)
(* call is in, cursor the helper the loop has reached, and no other call   *)
(* starts before pc is "ready" again.  What the helper processes, the      *)
(* sockets and the clock do is chosen by the environment at each step.     *)
(*                                                                         *)
(* Deadlines are abstracted to a flag: jobDue[e] and helperDue[h] say that *)
(* the instant stored in the job (deadline or retry_at) or in the helper   *)
(* (next_event_at) is not after now.                                       *)
(***************************************************************************)
EXTENDS Integers, FiniteSets, Queues

CONSTANTS
    Entry,               \* cache entries a query can be scheduled for
    None,                \* "no job": the NULL of helper->job
    HelperCount,         \* RESOLVER_SUPERVISOR_HELPER_COUNT
    JobLimit,            \* RESOLVER_SUPERVISOR_JOB_LIMIT
    InteractiveReserve,  \* RESOLVER_SUPERVISOR_INTERACTIVE_RESERVE
    InterestLimit,       \* RESOLVER_SUPERVISOR_INTEREST_COUNT_LIMIT
    FailureLimit,        \* where failure_count saturates (UINT64_MAX)
    ResetSuccesses,      \* RESOLVER_SUPERVISOR_RESPAWN_RESET_SUCCESS_COUNT
    Faults               \* the faults of the operating system that can occur

FaultKind == {"again", "io", "epoll", "assembly", "ids", "clock", "spawn"}

\* What resolver_supervisor_create requires of its compile-time parameters.
ASSUME SupervisorAssumption ==
    /\ None \notin Entry
    /\ HelperCount \in Nat \ {0}
    /\ JobLimit \in Nat \ {0}
    /\ InteractiveReserve \in 0..JobLimit
    /\ InterestLimit \in Nat \ {0}
    /\ FailureLimit \in Nat \ {0, 1}
    /\ ResetSuccesses \in Nat \ {0}
    /\ Faults \subseteq FaultKind

Helper == 1..HelperCount
Priority == {"INTERACTIVE", "BACKGROUND"}
JobState == {"NONE", "QUEUED", "SENDING", "DISPATCHED", "RETRY_WAIT", "COMPLETE"}
HelperState == {"IDLE", "SENDING", "BUSY", "BACKOFF", "SHUTTING_DOWN", "STOPPED"}
Phase == {"ready", "events", "timers", "draining", "retries", "dispatch"}

VARIABLES
    jobState,       \* job->state; "NONE" when the entry has no job
    interest,       \* the two interest counts of a job
    priority,       \* job->priority
    orphaned,       \* job->orphaned
    jobDue,         \* the job's deadline (or retry_at) has been reached
    queue,          \* interactive_queue and background_queue
    completion,     \* completion_head .. completion_tail
    cached,         \* the cache entry's view is not EMPTY
    helper,         \* helper->state
    helperJob,      \* helper->job
    helperDue,      \* helper->next_event_at has been reached
    failures,       \* helper->failure_count
    successes,      \* helper->consecutive_successes
    idsLeft,        \* next_query_id has not wrapped to 0
    shuttingDown,
    armedJobs,      \* the jobs and helpers whose deadlines the timer
    armedHelpers,   \*   was last armed for (timer_rearm)
    pc,             \* the loop the call in progress is in
    cursor          \* helper_index of that loop

jobVars == <<jobState, interest, priority, orphaned, jobDue, queue, completion, cached>>
helperVars == <<helper, helperJob, helperDue, failures, successes>>
timerVars == <<armedJobs, armedHelpers>>
callVars == <<pc, cursor>>
vars == <<jobVars, helperVars, timerVars, callVars, idsLeft, shuttingDown>>

NoInterest == [p \in Priority |-> 0]

TypeOK ==
    /\ jobState \in [Entry -> JobState]
    /\ interest \in [Entry -> [Priority -> 0..InterestLimit]]
    /\ priority \in [Entry -> Priority]
    /\ orphaned \in [Entry -> BOOLEAN]
    /\ jobDue \in [Entry -> BOOLEAN]
    /\ queue \in [Priority -> Seq(Entry)]
    /\ completion \in Seq(Entry)
    /\ cached \in [Entry -> BOOLEAN]
    /\ helper \in [Helper -> HelperState]
    /\ helperJob \in [Helper -> Entry \cup {None}]
    /\ helperDue \in [Helper -> BOOLEAN]
    /\ failures \in [Helper -> 0..FailureLimit]
    /\ successes \in [Helper -> 0..ResetSuccesses]
    /\ idsLeft \in BOOLEAN
    /\ shuttingDown \in BOOLEAN
    /\ armedJobs \in SUBSET Entry
    /\ armedHelpers \in SUBSET Helper
    /\ pc \in Phase
    /\ cursor \in Helper

-----------------------------------------------------------------------------
(* Jobs and queues *)

Live(e) == jobState[e] \notin {"NONE", "COMPLETE"}

JobCount == Cardinality({e \in Entry : jobState[e] # "NONE"})

QueueEmpty == queue["INTERACTIVE"] = <<>> /\ queue["BACKGROUND"] = <<>>

\* The queue that job_queue_first reads: interactive jobs go first
\* (BackgroundFirst is the seeded fault).
BackgroundFirst == IF queue["BACKGROUND"] = <<>> THEN "INTERACTIVE" ELSE "BACKGROUND"
FirstQueue == IF queue["INTERACTIVE"] = <<>> THEN "BACKGROUND" ELSE "INTERACTIVE"

\* job_destroy, but for the links of the queue and of the completion list:
\* the job leaves the hash table and its memory is freed.
JobFree(e) ==
    /\ jobState' = [jobState EXCEPT ![e] = "NONE"]
    /\ interest' = [interest EXCEPT ![e] = NoInterest]
    /\ priority' = [priority EXCEPT ![e] = "BACKGROUND"]
    /\ orphaned' = [orphaned EXCEPT ![e] = FALSE]
    /\ jobDue' = [jobDue EXCEPT ![e] = FALSE]

\* job_complete: every remaining interest is released and the job waits in
\* the completion list.  The caller says what becomes of queue and cached.
JobComplete(e) ==
    /\ jobState' = [jobState EXCEPT ![e] = "COMPLETE"]
    /\ interest' = [interest EXCEPT ![e] = NoInterest]
    /\ jobDue' = [jobDue EXCEPT ![e] = FALSE]
    /\ completion' = Append(completion, e)
    /\ UNCHANGED <<priority, orphaned>>

\* job_retry of a job that is on no queue: an orphan is destroyed, any other
\* job waits for retry_at, or completes when retry_at cannot be represented.
JobRetry(e) ==
    \/ /\ orphaned[e]
       /\ JobFree(e)
       /\ UNCHANGED completion
    \/ /\ ~orphaned[e]
       /\ jobState' = [jobState EXCEPT ![e] = "RETRY_WAIT"]
       /\ jobDue' = [jobDue EXCEPT ![e] = FALSE]
       /\ UNCHANGED <<interest, priority, orphaned, completion>>
    \/ /\ ~orphaned[e]
       /\ "clock" \in Faults
       /\ JobComplete(e)

-----------------------------------------------------------------------------
(* Helpers *)

HelperOpen(h) == helper[h] \in {"IDLE", "SENDING", "BUSY", "SHUTTING_DOWN"}
HelperLive(h) == helper[h] \in {"IDLE", "SENDING", "BUSY"}

\* helper->job = NULL; the seeded fault forgets it.
JobNotDetached(h) == UNCHANGED helperJob
JobDetach(h) == helperJob' = [helperJob EXCEPT ![h] = None]

\* An instant in the future is not due, unless adding the delay overflowed
\* and the code fell back to now.
DueAfterDelay == {FALSE} \cup (IF "clock" \in Faults THEN {TRUE} ELSE {})

\* failure_count saturates; the seeded fault lets it run over.
UnboundedFailures(n) == n + 1
OneMoreFailure(n) == IF n < FailureLimit THEN n + 1 ELSE n

\* helper_respawn_schedule outside a shutdown: the helper backs off, for no
\* time at all after a first failure.
HelperBackoff(h) ==
    /\ helper' = [helper EXCEPT ![h] = "BACKOFF"]
    /\ \E due \in DueAfterDelay :
          helperDue' = [helperDue EXCEPT ![h] = due \/ failures[h] = 0]
    /\ failures' = [failures EXCEPT ![h] = OneMoreFailure(@)]
    /\ successes' = [successes EXCEPT ![h] = 0]

\* process_close and helper_respawn_schedule: during a shutdown the helper
\* stops instead (the seeded fault does not look).
RespawnAnyway(h) == HelperBackoff(h)
RespawnSchedule(h) ==
    IF shuttingDown
    THEN /\ helper' = [helper EXCEPT ![h] = "STOPPED"]
         /\ helperDue' = [helperDue EXCEPT ![h] = FALSE]
         /\ successes' = [successes EXCEPT ![h] = 0]
         /\ UNCHANGED failures
    ELSE HelperBackoff(h)

\* helper_stop: the process is gone, or is killed now.
HelperStop(h) ==
    /\ helper' = [helper EXCEPT ![h] = "STOPPED"]
    /\ helperDue' = [helperDue EXCEPT ![h] = FALSE]
    /\ UNCHANGED <<helperJob, failures, successes>>

\* helper_fail: the helper loses its job.  A dispatched job is retried, a
\* job whose request was not sent yet goes back to the head of its queue.
HelperFail(h) ==
    LET e == helperJob[h] IN
    /\ JobDetach(h)
    /\ RespawnSchedule(h)
    /\ \/ /\ e = None
          /\ UNCHANGED jobVars
       \/ /\ e # None
          /\ jobState[e] = "DISPATCHED"
          /\ JobRetry(e)
          /\ UNCHANGED <<queue, cached>>
       \/ /\ e # None
          /\ jobState[e] # "DISPATCHED"
          /\ jobState' = [jobState EXCEPT ![e] = "QUEUED"]
          /\ queue' = [queue EXCEPT ![priority[e]] = Cons(e, @)]
          /\ UNCHANGED <<interest, priority, orphaned, jobDue, completion, cached>>

\* helper_success and helper_recover: enough answers in a row clear the
\* failure count of a helper that failed before.
HelperSuccess(h) ==
    /\ helper' = [helper EXCEPT ![h] = "IDLE"]
    /\ JobDetach(h)
    /\ \/ /\ failures[h] = 0
          /\ UNCHANGED <<successes, failures, helperDue>>
       \/ /\ failures[h] > 0
          /\ successes[h] + 1 < ResetSuccesses
          /\ successes' = [successes EXCEPT ![h] = @ + 1]
          /\ UNCHANGED <<failures, helperDue>>
       \/ /\ failures[h] > 0
          /\ successes[h] + 1 >= ResetSuccesses
          /\ successes' = [successes EXCEPT ![h] = 0]
          /\ failures' = [failures EXCEPT ![h] = 0]
          /\ helperDue' = [helperDue EXCEPT ![h] = FALSE]

\* The jobs and the helpers timer_rearm looks at; the seeded faults overlook
\* the retries, the back-offs and the helpers being stopped.
TimedJobsNoRetry == {e \in Entry : jobState[e] = "DISPATCHED"}
TimedJobs == {e \in Entry : jobState[e] \in {"DISPATCHED", "RETRY_WAIT"}}
TimedHelpersNoBackoff ==
    {h \in Helper : helper[h] = "SHUTTING_DOWN" \/ (HelperLive(h) /\ failures[h] > 0)}
TimedHelpersNoStop ==
    {h \in Helper : helper[h] = "BACKOFF" \/ (HelperLive(h) /\ failures[h] > 0)}
TimedHelpers ==
    {h \in Helper : \/ helper[h] \in {"BACKOFF", "SHUTTING_DOWN"}
                    \/ HelperLive(h) /\ failures[h] > 0}

-----------------------------------------------------------------------------
(* Calls of the listener *)

\* resolver_supervisor_create has spawned every helper; a spawn that failed
\* has already scheduled a respawn without delay.
Init ==
    /\ jobState = [e \in Entry |-> "NONE"]
    /\ interest = [e \in Entry |-> NoInterest]
    /\ priority = [e \in Entry |-> "BACKGROUND"]
    /\ orphaned = [e \in Entry |-> FALSE]
    /\ jobDue = [e \in Entry |-> FALSE]
    /\ queue = [p \in Priority |-> <<>>]
    /\ completion = <<>>
    /\ cached = [e \in Entry |-> FALSE]
    /\ \E down \in SUBSET Helper :
          /\ down # {} => "spawn" \in Faults
          /\ helper = [h \in Helper |-> IF h \in down THEN "BACKOFF" ELSE "IDLE"]
          /\ helperDue = [h \in Helper |-> h \in down]
          /\ failures = [h \in Helper |-> IF h \in down THEN 1 ELSE 0]
          /\ armedHelpers = down
    /\ helperJob = [h \in Helper |-> None]
    /\ successes = [h \in Helper |-> 0]
    /\ idsLeft = TRUE
    /\ shuttingDown = FALSE
    /\ armedJobs = {}
    /\ pc = "ready"
    /\ cursor = 1

\* What background scheduling leaves free for interactive jobs.
AdmissionLimit(p) ==
    IF p = "INTERACTIVE" THEN JobLimit ELSE JobLimit - InteractiveReserve

\* entry_schedule_priority without a job for the entry: STARTED.
Start(e, p) ==
    /\ jobState[e] = "NONE"
    /\ JobCount < AdmissionLimit(p)
    /\ jobState' = [jobState EXCEPT ![e] = "QUEUED"]
    /\ interest' = [interest EXCEPT ![e][p] = 1]
    /\ priority' = [priority EXCEPT ![e] = p]
    /\ queue' = [queue EXCEPT ![p] = Append(@, e)]
    /\ pc' = "dispatch"
    /\ UNCHANGED <<orphaned, jobDue>>

\* existing->orphaned = false; the seeded fault forgets it.
StillOrphaned(e) == UNCHANGED orphaned
Adopt(e) == orphaned' = [orphaned EXCEPT ![e] = FALSE]

\* entry_schedule_priority with a job that is not complete: COALESCED.  An
\* orphan is wanted again; an interactive caller promotes the job, which
\* moves it to the tail of the interactive queue if it is queued.
Coalesce(e, p) ==
    /\ Live(e)
    /\ interest[e][p] < InterestLimit
    /\ interest' = [interest EXCEPT ![e][p] = @ + 1]
    /\ Adopt(e)
    /\ IF p = "INTERACTIVE" /\ priority[e] = "BACKGROUND"
       THEN /\ priority' = [priority EXCEPT ![e] = "INTERACTIVE"]
            /\ queue' = IF jobState[e] = "QUEUED"
                        THEN [queue EXCEPT !["BACKGROUND"] = Without(@, e),
                                           !["INTERACTIVE"] = Append(@, e)]
                        ELSE queue
       ELSE UNCHANGED <<priority, queue>>
    /\ UNCHANGED <<jobState, jobDue, pc>>

\* The view of the entry is EMPTY; the seeded fault does not look at it.
AnyView(e) == TRUE
ViewEmpty(e) == ~cached[e]

\* The other outcomes of entry_schedule_priority (FRESH, COMPLETE, LIMIT,
\* MEMORY, BAD_ARGUMENT, TIME) change nothing.
Schedule(e, p) ==
    /\ pc = "ready"
    /\ ~shuttingDown
    /\ ViewEmpty(e)
    /\ Start(e, p) \/ Coalesce(e, p)
    /\ UNCHANGED <<completion, cached, cursor, idsLeft, shuttingDown, helperVars, timerVars>>

\* entry_release, the last interest of the job: a dispatched job becomes an
\* orphan, any other job is destroyed and a helper that was still sending its
\* request is free again.
ReleaseLast(e) ==
    IF jobState[e] = "DISPATCHED"
    THEN /\ interest' = [interest EXCEPT ![e] = NoInterest]
         /\ orphaned' = [orphaned EXCEPT ![e] = TRUE]
         /\ priority' = [priority EXCEPT ![e] = "BACKGROUND"]
         /\ UNCHANGED <<jobState, jobDue, queue, helper, helperJob>>
    ELSE /\ JobFree(e)
         /\ queue' = IF jobState[e] = "QUEUED"
                     THEN [queue EXCEPT ![priority[e]] = Without(@, e)]
                     ELSE queue
         /\ helper' = [h \in Helper |-> IF helperJob[h] = e THEN "IDLE" ELSE helper[h]]
         /\ helperJob' = [h \in Helper |-> IF helperJob[h] = e THEN None ELSE helperJob[h]]

\* entry_release with interests left: without an interactive interest the
\* job is downgraded to the tail of the background queue.
ReleaseOne(e, p) ==
    /\ interest' = [interest EXCEPT ![e][p] = @ - 1]
    /\ IF priority[e] = "INTERACTIVE" /\ interest'[e]["INTERACTIVE"] = 0
       THEN /\ priority' = [priority EXCEPT ![e] = "BACKGROUND"]
            /\ queue' = IF jobState[e] = "QUEUED"
                        THEN [queue EXCEPT !["INTERACTIVE"] = Without(@, e),
                                           !["BACKGROUND"] = Append(@, e)]
                        ELSE queue
       ELSE UNCHANGED <<priority, queue>>
    /\ UNCHANGED <<jobState, orphaned, jobDue, helper, helperJob>>

\* entry_release; SATISFIED and BAD_ARGUMENT change nothing.
Release(e, p) ==
    /\ pc = "ready"
    /\ ~shuttingDown
    /\ Live(e)
    /\ interest[e][p] > 0
    /\ IF interest[e]["INTERACTIVE"] + interest[e]["BACKGROUND"] = 1
       THEN ReleaseLast(e)
       ELSE ReleaseOne(e, p)
    /\ pc' = "dispatch"
    /\ UNCHANGED <<completion, cached, cursor, idsLeft, shuttingDown, timerVars,
                   helperDue, failures, successes>>

\* completion_take: the oldest completion leaves with the job it belongs to.
CompletionTake ==
    /\ pc = "ready"
    /\ completion # <<>>
    /\ JobFree(Head(completion))
    /\ completion' = Tail(completion)
    /\ UNCHANGED <<queue, cached, helperVars, timerVars, callVars, idsLeft, shuttingDown>>

\* resolver_supervisor_shutdown: every job is destroyed, every helper with a
\* process is told to stop and gets a grace period.
Shutdown ==
    /\ pc = "ready"
    /\ ~shuttingDown
    /\ shuttingDown' = TRUE
    /\ jobState' = [e \in Entry |-> "NONE"]
    /\ interest' = [e \in Entry |-> NoInterest]
    /\ priority' = [e \in Entry |-> "BACKGROUND"]
    /\ orphaned' = [e \in Entry |-> FALSE]
    /\ jobDue' = [e \in Entry |-> FALSE]
    /\ queue' = [p \in Priority |-> <<>>]
    /\ completion' = <<>>
    /\ helperJob' = [h \in Helper |-> None]
    /\ helper' = [h \in Helper |-> IF HelperOpen(h) THEN "SHUTTING_DOWN" ELSE "STOPPED"]
    /\ \E due \in DueAfterDelay :
          helperDue' = [h \in Helper |-> IF HelperOpen(h) THEN due ELSE helperDue[h]]
    /\ armedJobs' = TimedJobs'
    /\ armedHelpers' = TimedHelpers'
    /\ UNCHANGED <<cached, failures, successes, callVars, idsLeft>>

-----------------------------------------------------------------------------
(* resolver_supervisor_events_process *)

\* The nested epoll descriptor is readable: the timer has expired, or a
\* helper's socket has something to say.
TimerReady ==
    \/ \E e \in armedJobs : jobDue[e]
    \/ \E h \in armedHelpers : helperDue[h]

EventsBegin ==
    /\ pc = "ready"
    /\ pc' = "events"
    /\ UNCHANGED <<jobVars, helperVars, timerVars, cursor, idsLeft, shuttingDown>>

EventsByTimer == TimerReady /\ EventsBegin
EventsByHelper == (\E h \in Helper : HelperOpen(h)) /\ EventsBegin

\* EPOLLOUT: the request of a SENDING helper is sent at last.  If epoll then
\* refuses the new event mask the helper fails with its job dispatched.
HelperWritable(h) ==
    LET e == helperJob[h] IN
    /\ pc = "events"
    /\ cursor = h
    /\ helper[h] = "SENDING"
    /\ \/ /\ jobState' = [jobState EXCEPT ![e] = "DISPATCHED"]
          /\ jobDue' = [jobDue EXCEPT ![e] = FALSE]
          /\ helper' = [helper EXCEPT ![h] = "BUSY"]
          /\ UNCHANGED <<interest, priority, orphaned, completion,
                         helperJob, helperDue, failures, successes>>
       \/ /\ "epoll" \in Faults
          /\ JobRetry(e)
          /\ JobDetach(h)
          /\ RespawnSchedule(h)
       \/ /\ "clock" \in Faults
          /\ JobComplete(e)
          /\ helper' = [helper EXCEPT ![h] = "IDLE"]
          /\ JobDetach(h)
          /\ UNCHANGED <<helperDue, failures, successes>>
    /\ UNCHANGED <<queue, cached, timerVars, callVars, idsLeft, shuttingDown>>

\* helper_drain sees a whole answer with a valid timestamp: result_finish.
\* A temporary error is retried; anything else is published (STORED makes the
\* view non-empty, TRANSIENT clears it, a refused publication leaves it) and
\* completes the job, or destroys it if it is an orphan.
HelperResult(h) ==
    LET e == helperJob[h] IN
    /\ pc \in {"events", "draining"}
    /\ cursor = h
    /\ helper[h] = "BUSY"
    /\ HelperSuccess(h)
    /\ \/ /\ JobRetry(e)
          /\ UNCHANGED cached
       \/ /\ cached' \in {cached, [cached EXCEPT ![e] = TRUE], [cached EXCEPT ![e] = FALSE]}
          /\ \/ orphaned[e] /\ JobFree(e) /\ UNCHANGED completion
             \/ ~orphaned[e] /\ JobComplete(e)
    /\ UNCHANGED <<queue, timerVars, callVars, idsLeft, shuttingDown>>

\* Everything else a helper's socket can say ends the helper: a packet that
\* is not expected or not valid, an answer with an invalid timestamp, the end
\* of the stream, a receive or send error, a hang-up.  A helper that ends
\* while it shuts down is stopped for good.
HelperFault(h) ==
    /\ pc \in {"events", "draining"}
    /\ cursor = h
    /\ HelperOpen(h)
    /\ \/ HelperFail(h)
       \/ helper[h] = "SHUTTING_DOWN" /\ HelperStop(h) /\ UNCHANGED jobVars
    /\ UNCHANGED <<timerVars, callVars, idsLeft, shuttingDown>>

\* The loop over the helpers' events moves on, then the deadlines are applied.
EventsNext ==
    /\ pc = "events"
    /\ IF cursor < HelperCount
       THEN cursor' = cursor + 1 /\ UNCHANGED pc
       ELSE cursor' = 1 /\ pc' = "timers"
    /\ UNCHANGED <<jobVars, helperVars, timerVars, idsLeft, shuttingDown>>

-----------------------------------------------------------------------------
(* timers_process_helpers, one iteration per helper *)

\* The deadline of the query (the seeded fault reads the helper's instead),
\* and the end of a stable minute.
HelperExpired(h) == helper[h] = "BUSY" /\ helperJob[h] # None /\ helperDue[h]
QueryExpired(h) == helper[h] = "BUSY" /\ helperJob[h] # None /\ jobDue[helperJob[h]]
StableUptime(h) == HelperLive(h) /\ failures[h] > 0 /\ helperDue[h]

\* The deadline of the helper's query has passed: drain once more ...
TimerDrain(h) ==
    /\ pc = "timers"
    /\ cursor = h
    /\ QueryExpired(h)
    /\ pc' = "draining"
    /\ UNCHANGED <<jobVars, helperVars, timerVars, cursor, idsLeft, shuttingDown>>

\* ... and fail the helper if the answer still has not come.
TimerTimeout(h) ==
    /\ pc = "draining"
    /\ cursor = h
    /\ IF helper[h] = "BUSY" /\ helperJob[h] # None
       THEN HelperFail(h)
       ELSE UNCHANGED <<jobVars, helperVars>>
    /\ pc' = "timers"
    /\ UNCHANGED <<timerVars, cursor, idsLeft, shuttingDown>>

\* helper_recover after RESET_STABLE_SEC without a failure.
TimerRecover(h) ==
    /\ pc = "timers"
    /\ cursor = h
    /\ ~QueryExpired(h)
    /\ StableUptime(h)
    /\ successes' = [successes EXCEPT ![h] = 0]
    /\ failures' = [failures EXCEPT ![h] = 0]
    /\ helperDue' = [helperDue EXCEPT ![h] = FALSE]
    /\ UNCHANGED <<helper, helperJob, jobVars, timerVars, callVars, idsLeft, shuttingDown>>

\* helper_spawn: a new process, or one more failure.
Spawn(h) ==
    \/ /\ helper' = [helper EXCEPT ![h] = "IDLE"]
       /\ \E due \in DueAfterDelay : helperDue' = [helperDue EXCEPT ![h] = due]
       /\ UNCHANGED <<helperJob, failures, successes>>
    \/ /\ "spawn" \in Faults
       /\ RespawnSchedule(h)
       /\ UNCHANGED helperJob

\* The end of the iteration: respawn, force the stop, or nothing to do.
TimerNext(h) ==
    /\ pc = "timers"
    /\ cursor = h
    /\ ~QueryExpired(h)
    /\ ~StableUptime(h)
    /\ \/ /\ helper[h] = "BACKOFF" /\ helperDue[h]
          /\ Spawn(h)
       \/ /\ helper[h] = "SHUTTING_DOWN" /\ helperDue[h]
          /\ HelperStop(h)
       \/ /\ ~(helper[h] \in {"BACKOFF", "SHUTTING_DOWN"} /\ helperDue[h])
          /\ UNCHANGED helperVars
    /\ IF h < HelperCount
       THEN cursor' = h + 1 /\ UNCHANGED pc
       ELSE cursor' = 1 /\ pc' = "retries"
    /\ UNCHANGED <<jobVars, timerVars, idsLeft, shuttingDown>>

\* timers_process_jobs appends every job whose retry_at has come, in the
\* order of the hash table, which is any order.
RetryDue(e) ==
    /\ pc = "retries"
    /\ jobState[e] = "RETRY_WAIT"
    /\ jobDue[e]
    /\ jobState' = [jobState EXCEPT ![e] = "QUEUED"]
    /\ jobDue' = [jobDue EXCEPT ![e] = FALSE]
    /\ queue' = [queue EXCEPT ![priority[e]] = Append(@, e)]
    /\ UNCHANGED <<interest, priority, orphaned, completion, cached,
                   helperVars, timerVars, callVars, idsLeft, shuttingDown>>

NoDispatchAfterRetries ==   \* seeded fault: the call ends without dispatch
    /\ pc = "retries"
    /\ pc' = "ready"
    /\ armedJobs' = TimedJobs
    /\ armedHelpers' = TimedHelpers
    /\ UNCHANGED <<jobVars, helperVars, cursor, idsLeft, shuttingDown>>
RetriesDone ==
    /\ pc = "retries"
    /\ ~\E e \in Entry : jobState[e] = "RETRY_WAIT" /\ jobDue[e]
    /\ pc' = "dispatch"
    /\ UNCHANGED <<jobVars, helperVars, timerVars, cursor, idsLeft, shuttingDown>>

-----------------------------------------------------------------------------
(* resolver_supervisor_dispatch and timer_rearm end most calls *)

\* The loop walks the helpers in order and only ever takes them out of IDLE,
\* so it always serves the first idle helper.
CanAssign == ~shuttingDown /\ ~QueueEmpty /\ \E h \in Helper : helper[h] = "IDLE"
FirstIdle(h) == helper[h] = "IDLE" /\ \A g \in Helper : g < h => helper[g] # "IDLE"

\* query_id_allocate: the counter wraps to 0 once, and then stays there.
QueryIdAllocate ==
    /\ idsLeft
    /\ idsLeft' \in {TRUE} \cup (IF "ids" \in Faults THEN {FALSE} ELSE {})

\* helper_job_assign and request_send: the request is sent, or the socket is
\* full and the helper keeps the job until it is writable.
AssignOk(h, e) ==
    /\ QueryIdAllocate
    /\ helperJob' = [helperJob EXCEPT ![h] = e]
    /\ \/ /\ jobState' = [jobState EXCEPT ![e] = "DISPATCHED"]
          /\ jobDue' = [jobDue EXCEPT ![e] = FALSE]
          /\ helper' = [helper EXCEPT ![h] = "BUSY"]
       \/ /\ "again" \in Faults
          /\ jobState' = [jobState EXCEPT ![e] = "SENDING"]
          /\ helper' = [helper EXCEPT ![h] = "SENDING"]
          /\ UNCHANGED jobDue
    /\ queue' = [queue EXCEPT ![FirstQueue] = Tail(@)]
    /\ UNCHANGED <<interest, priority, orphaned, completion, helperDue, failures, successes>>

\* ASSIGN_RETRY: the response assembly cannot be allocated.
AssignRetry(e) ==
    /\ "assembly" \in Faults
    /\ QueryIdAllocate
    /\ JobRetry(e)
    /\ queue' = [queue EXCEPT ![FirstQueue] = Tail(@)]
    /\ UNCHANGED helperVars

\* ASSIGN_LIMIT and ASSIGN_TIME: no query id is left, or the deadline cannot
\* be represented.  The job completes without having been sent.
AssignComplete(e) ==
    /\ ~idsLeft \/ "clock" \in Faults
    /\ JobComplete(e)
    /\ queue' = [queue EXCEPT ![FirstQueue] = Tail(@)]
    /\ UNCHANGED <<helperVars, idsLeft>>

\* ASSIGN_IO: helper_fail puts a request that was not sent back to the head
\* of the queue it came from, and retries one that was sent before epoll
\* refused the new event mask.
AssignIo(h, e) ==
    /\ QueryIdAllocate
    /\ JobDetach(h)
    /\ RespawnSchedule(h)
    /\ \/ /\ {"io", "epoll"} \cap Faults # {}
          /\ UNCHANGED <<jobState, interest, priority, orphaned, jobDue, queue, completion>>
       \/ /\ "epoll" \in Faults
          /\ JobRetry(e)
          /\ queue' = [queue EXCEPT ![FirstQueue] = Tail(@)]

Dispatch(h) ==
    LET e == Head(queue[FirstQueue]) IN
    /\ pc = "dispatch"
    /\ CanAssign
    /\ FirstIdle(h)
    /\ AssignOk(h, e) \/ AssignRetry(e) \/ AssignComplete(e) \/ AssignIo(h, e)
    /\ UNCHANGED <<cached, timerVars, callVars, shuttingDown>>

\* Nothing more to assign: the timer is armed for the earliest deadline and
\* the call returns.
DispatchDone ==
    /\ pc = "dispatch"
    /\ ~CanAssign
    /\ armedJobs' = TimedJobs
    /\ armedHelpers' = TimedHelpers
    /\ pc' = "ready"
    /\ UNCHANGED <<jobVars, helperVars, cursor, idsLeft, shuttingDown>>

-----------------------------------------------------------------------------
(* Time *)

\* A deadline of a job or of a helper is reached between two calls.
JobDeadline(e) ==
    /\ pc = "ready"
    /\ jobState[e] \in {"DISPATCHED", "RETRY_WAIT"}
    /\ ~jobDue[e]
    /\ jobDue' = [jobDue EXCEPT ![e] = TRUE]
    /\ UNCHANGED <<jobState, interest, priority, orphaned, queue, completion, cached,
                   helperVars, timerVars, callVars, idsLeft, shuttingDown>>

HelperDeadline(h) ==
    /\ pc = "ready"
    /\ helper[h] # "STOPPED"
    /\ failures[h] > 0 \/ helper[h] = "SHUTTING_DOWN"
    /\ ~helperDue[h]
    /\ helperDue' = [helperDue EXCEPT ![h] = TRUE]
    /\ UNCHANGED <<helper, helperJob, failures, successes,
                   jobVars, timerVars, callVars, idsLeft, shuttingDown>>

\* The time-to-live of a cached answer runs out.
CacheExpire(e) ==
    /\ pc = "ready"
    /\ cached[e]
    /\ cached' = [cached EXCEPT ![e] = FALSE]
    /\ UNCHANGED <<jobState, interest, priority, orphaned, jobDue, queue, completion,
                   helperVars, timerVars, callVars, idsLeft, shuttingDown>>

-----------------------------------------------------------------------------
Call == \/ \E e \in Entry, p \in Priority : Schedule(e, p) \/ Release(e, p)
        \/ CompletionTake
        \/ Shutdown
        \/ EventsByTimer
        \/ EventsByHelper

HelperStep(h) == HelperWritable(h) \/ HelperResult(h) \/ HelperFault(h)

\* The steps of a call in progress that do not depend on the helpers.
Running == \/ EventsNext
           \/ \E h \in Helper : TimerDrain(h) \/ TimerTimeout(h) \/ TimerRecover(h) \/ TimerNext(h)
           \/ \E e \in Entry : RetryDue(e)
           \/ RetriesDone
           \/ \E h \in Helper : Dispatch(h)
           \/ DispatchDone

Clock == \/ \E e \in Entry : JobDeadline(e) \/ CacheExpire(e)
         \/ \E h \in Helper : HelperDeadline(h)

Next == Call \/ (\E h \in Helper : HelperStep(h)) \/ Running \/ Clock

Spec == Init /\ [][Next]_vars

-----------------------------------------------------------------------------
(* Fairness: the thread finishes the call it is in; time goes on; the nested *)
(* epoll descriptor is level-triggered and the listener looks at it in every *)
(* turn of its loop, so calls in between cannot keep an expired timer from   *)
(* being processed for ever.  Nothing is assumed of the helpers.             *)

Fairness ==
    /\ WF_vars(Running)
    /\ SF_vars(EventsByTimer)
    /\ \A e \in Entry : SF_vars(JobDeadline(e))
    /\ \A h \in Helper : SF_vars(HelperDeadline(h))

FairSpec == Spec /\ Fairness

-----------------------------------------------------------------------------
(* Safety *)

Queued(p) == {e \in Entry : jobState[e] = "QUEUED" /\ priority[e] = p}
Finished == {e \in Entry : jobState[e] = "COMPLETE"}

\* The intrusive lists agree with the states: a queue holds exactly the QUEUED
\* jobs of its priority, the completion list exactly the COMPLETE jobs, each
\* job once.  A job linked twice, or left linked after job_destroy, is what
\* job_queue_remove and job_queue_prepend must never produce.
ListsMatchStates ==
    /\ \A p \in Priority : Lists(queue[p], Queued(p))
    /\ Lists(completion, Finished)

\* helper->job and the job's state tell the same story: exactly the BUSY and
\* SENDING helpers hold a job, in the matching state, every such job is held,
\* and no two helpers hold the same one.
HelpersHoldJobs ==
    /\ \A h \in Helper :
          /\ helper[h] \in {"BUSY", "SENDING"} <=> helperJob[h] # None
          /\ helper[h] = "BUSY" => jobState[helperJob[h]] = "DISPATCHED"
          /\ helper[h] = "SENDING" => jobState[helperJob[h]] = "SENDING"
    /\ \A e \in Entry :
          jobState[e] \in {"DISPATCHED", "SENDING"} => \E h \in Helper : helperJob[h] = e
    /\ \A g, h \in Helper : helperJob[g] = helperJob[h] /\ g # h => helperJob[g] = None

\* Interests decide what becomes of a job: an unfinished job without interest
\* is an orphan and orphans are DISPATCHED (so job_retry in dispatch never
\* destroys a job it has just taken off its queue); the priority is
\* interactive exactly while an interactive interest remains; a complete job
\* keeps no interest.
InterestsRuleJobs ==
    \A e \in Entry :
        /\ orphaned[e] => jobState[e] = "DISPATCHED"
        /\ Live(e) => (orphaned[e] <=> interest[e] = NoInterest)
        /\ Live(e) => (priority[e] = "INTERACTIVE" <=> interest[e]["INTERACTIVE"] > 0)
        /\ ~Live(e) => interest[e] = NoInterest

\* Nothing is queried whose answer is in the cache: an unfinished job's entry
\* has an empty view.
NoQueryWhileCached == \A e \in Entry : Live(e) => ~cached[e]

\* When a call returns no helper is idle while a job is queued.
WorkConserving == pc = "ready" => ~CanAssign

\* When a call returns the timer is armed for every deadline that matters, so
\* no timeout, retry, respawn or forced stop can be missed.
TimerCoversDeadlines ==
    pc = "ready" =>
        /\ \A e \in Entry : jobState[e] \in {"DISPATCHED", "RETRY_WAIT"} => e \in armedJobs
        /\ \A h \in Helper :
              \/ helper[h] \in {"BACKOFF", "SHUTTING_DOWN"}
              \/ HelperLive(h) /\ failures[h] > 0
              => h \in armedHelpers

\* After resolver_supervisor_shutdown there are no jobs and no helper ever
\* comes back, whatever the helpers do while they stop.
ShutdownIsQuiet ==
    shuttingDown =>
        /\ \A e \in Entry : jobState[e] = "NONE"
        /\ \A h \in Helper : helper[h] \in {"SHUTTING_DOWN", "STOPPED"}

-----------------------------------------------------------------------------
(* Steps *)

\* A helper takes a job nobody waits for interactively only when no queued
\* job has an interactive interest (promotion, downgrade and the return of an
\* unsent job to its queue keep the queues in line with the interests).
InteractiveFirstStep ==
    \A e \in Entry :
        /\ jobState[e] = "QUEUED"
        /\ jobState'[e] \in {"SENDING", "DISPATCHED"}
        /\ interest[e]["INTERACTIVE"] = 0
        => \A f \in Entry : jobState[f] = "QUEUED" => interest[f]["INTERACTIVE"] = 0
InteractiveFirst == [][InteractiveFirstStep]_vars

-----------------------------------------------------------------------------
(* The contract of supervisor.h *)

LedgerPhase ==
    [e \in Entry |-> CASE jobState[e] = "NONE" -> "none"
                       [] jobState[e] = "COMPLETE" -> "complete"
                       [] OTHER -> "active"]

Ledger == INSTANCE InterestLedger
    WITH phase <- LedgerPhase, fresh <- cached, stopped <- shuttingDown

\* Behind all the queues, retries, respawns and timers the supervisor keeps
\* its contract: one query per entry, counted interests, a query that ends
\* with a completion exactly when it is still wanted, completions in order.
KeepsContract == Ledger!Spec

-----------------------------------------------------------------------------
(* Liveness *)

\* A dispatched query does not stay dispatched for ever, whatever its helper
\* does: it is answered, retried, completed or destroyed.
QueriesEnd == \A e \in Entry : jobState[e] = "DISPATCHED" ~> jobState[e] # "DISPATCHED"

\* A job waiting for its retry gets it.
RetriesHappen == \A e \in Entry : jobState[e] = "RETRY_WAIT" ~> jobState[e] # "RETRY_WAIT"

\* A helper that backs off is spawned again or stopped.
BackoffEnds == \A h \in Helper : helper[h] = "BACKOFF" ~> helper[h] # "BACKOFF"

\* Once the supervisor shuts down every helper stops, even one that ignores
\* SIGTERM (resolver_supervisor_shutdown_complete).
ShutdownCompletes == shuttingDown ~> \A h \in Helper : helper[h] = "STOPPED"

\* An interactive job is not starved: it leaves the queue (or loses its
\* interactive interest) even when every helper hangs or dies again and again.
InteractiveServed ==
    \A e \in Entry :
        jobState[e] = "QUEUED" /\ priority[e] = "INTERACTIVE"
            ~> ~(jobState[e] = "QUEUED" /\ priority[e] = "INTERACTIVE")
=============================================================================

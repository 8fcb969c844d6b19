-------------------------- MODULE SupervisorProofs --------------------------
(***************************************************************************)
(* Proofs about Supervisor.tla, for any number of entries and helpers and  *)
(* any limits: what resolver_supervisor_events_process does with the       *)
(* helpers, the deadlines and the queues keeps the invariant.  The         *)
(* invariants that relate lists, helpers, interests and states are         *)
(* inductive only together: IInv is their conjunction.                     *)
(*                                                                         *)
(* The last part is what the supervisor promises its caller.  Between      *)
(* calls no helper idles while a job waits, no deadline is past and no     *)
(* interactive job is passed over.  And Supervisor.tla implements          *)
(* InterestLedger.tla: every step of the supervisor is a step of its       *)
(* contract or changes nothing the contract speaks of.  A job is active in *)
(* the ledger while it is live, whatever queue, helper or retry it is in.  *)
(***************************************************************************)
EXTENDS SupervisorLemmas

-----------------------------------------------------------------------------
(* The events of the helpers *)

\* EPOLLOUT of a helper whose request could not be sent at once.
LEMMA HelperWritableInv ==
    ASSUME IInv, NEW h \in Helper, HelperWritable(h)
    PROVE  IInv'
<1> USE DEF IInv
<1>0. helper[h] = "SENDING" /\ helperJob[h] # None
  BY DEF HelperWritable, HelpersHoldJobs
<1> PICK e \in Entry : e = helperJob[h]
  BY <1>0 DEF TypeOK
<1>1. /\ jobState[e] = "SENDING" /\ Live(e) /\ ~orphaned[e] /\ ~shuttingDown
      /\ UNCHANGED <<queue, cached, timerVars, callVars, idsLeft, shuttingDown>>
  BY <1>0 DEF HelperWritable, HelpersHoldJobs, InterestsRuleJobs, Live, ShutdownIsQuiet
<1>2. CASE /\ jobState' = [jobState EXCEPT ![e] = "DISPATCHED"]
           /\ jobDue' = [jobDue EXCEPT ![e] = FALSE]
           /\ helper' = [helper EXCEPT ![h] = "BUSY"]
           /\ UNCHANGED <<interest, priority, orphaned, completion,
                          helperJob, helperDue, failures, successes>>
  <2>1. /\ jobState'[e] = "DISPATCHED"
        /\ \A f \in Entry \ {e} : jobState'[f] = jobState[f]
    BY <1>2 DEF TypeOK
  <2>2. ListsMatchStates'
    <3>1. \A f \in Entry : /\ jobState'[f] = "QUEUED" <=> jobState[f] = "QUEUED"
                           /\ jobState'[f] = "COMPLETE" <=> jobState[f] = "COMPLETE"
      BY <1>1, <2>1
    <3> QED
      BY <1>1, <1>2, <3>1, QueueFrame, CompletionFrame DEF ListsMatchStates
  <2>3. TypeOK'
    BY <1>1, <1>2, Zenon DEF TypeOK, JobState, HelperState, timerVars, callVars
  <2>4. HelpersHoldJobs'
    <3>1. helperJob' = [helperJob EXCEPT ![h] = e]
      BY <1>2 DEF TypeOK
    <3>2. \A g \in Helper \ {h} : helperJob[g] # e
      BY <1>0 DEF HelpersHoldJobs
    <3> QED
      BY <1>2, <2>1, <3>1, <3>2, HelperTakes, Zenon
  <2>5. InterestsRuleJobs'
    BY <1>1, <1>2 DEF InterestsRuleJobs, TypeOK, Live
  <2>6. NoQueryWhileCached' /\ ShutdownIsQuiet'
    BY <1>1, <2>1 DEF NoQueryWhileCached, ShutdownIsQuiet, Live
  <2> QED
    BY <2>2, <2>3, <2>4, <2>5, <2>6, Zenon
<1>3. CASE \/ JobRetry(e) /\ JobDetach(h) /\ RespawnSchedule(h)
           \/ /\ JobComplete(e)
              /\ helper' = [helper EXCEPT ![h] = "IDLE"]
              /\ JobDetach(h)
              /\ UNCHANGED <<helperDue, failures, successes>>
  <2>1. /\ jobState' \in [Entry -> JobState]
        /\ interest' \in [Entry -> [Priority -> 0..InterestLimit]]
        /\ priority' \in [Entry -> Priority]
        /\ orphaned' \in [Entry -> BOOLEAN]
        /\ jobDue' \in [Entry -> BOOLEAN]
        /\ completion' \in Seq(Entry)
        /\ \A f \in Entry \ {e} : jobState'[f] = jobState[f] /\ priority'[f] = priority[f]
        /\ jobState'[e] \in {"NONE", "COMPLETE", "RETRY_WAIT"}
        /\ Lists(completion', Finished')
        /\ InterestsRuleJobs'
    BY <1>1, <1>3, AttemptEnds
  <2>2. /\ \E x \in {"IDLE", "BACKOFF", "STOPPED"} : helper' = [helper EXCEPT ![h] = x]
        /\ helper' \in [Helper -> HelperState]
        /\ helperDue' \in [Helper -> BOOLEAN]
        /\ failures' \in [Helper -> 0..FailureLimit]
        /\ successes' \in [Helper -> 0..ResetSuccesses]
    BY <1>3, RespawnEffect, Zenon DEF TypeOK, HelperState
  <2>3. JobDetach(h)
    BY <1>3
  <2>4. HelpersHoldJobs' /\ helperJob' \in [Helper -> Entry \cup {None}]
    BY <2>1, <2>2, <2>3, HelperLetsGo, Zenon
  <2>5. \A p \in Priority : Lists(queue'[p], Queued(p)')
    <3>1. \A f \in Entry : /\ jobState'[f] = "QUEUED" <=> jobState[f] = "QUEUED"
                           /\ jobState[f] = "QUEUED" => priority'[f] = priority[f]
      BY <1>1, <2>1
    <3> QED
      BY <1>1, <3>1, QueueFrame DEF ListsMatchStates
  <2>6. TypeOK'
    BY <1>1, <2>1, <2>2, <2>4, Zenon DEF TypeOK, timerVars, callVars
  <2>7. NoQueryWhileCached' /\ ShutdownIsQuiet'
    BY <1>1, <2>1, Zenon DEF NoQueryWhileCached, ShutdownIsQuiet, Live
  <2> QED
    BY <2>1, <2>4, <2>5, <2>6, <2>7 DEF ListsMatchStates
<1> QED
  BY <1>2, <1>3 DEF HelperWritable

\* A helper's answer: result_finish and helper_success.
LEMMA HelperResultInv ==
    ASSUME IInv, NEW h \in Helper, HelperResult(h)
    PROVE  IInv'
<1> USE DEF IInv
<1>0. helper[h] = "BUSY" /\ helperJob[h] # None
  BY DEF HelperResult, HelpersHoldJobs
<1> PICK e \in Entry : e = helperJob[h]
  BY <1>0 DEF TypeOK
<1>1. /\ jobState[e] = "DISPATCHED" /\ Live(e) /\ ~shuttingDown
      /\ UNCHANGED <<queue, timerVars, callVars, idsLeft, shuttingDown>>
      /\ HelperSuccess(h)
  BY <1>0 DEF HelperResult, HelpersHoldJobs, Live, ShutdownIsQuiet
<1>2. /\ \/ JobFree(e) /\ UNCHANGED completion
         \/ JobComplete(e) /\ ~orphaned[e]
         \/ JobRetry(e)
      /\ \/ UNCHANGED cached
         \/ /\ cached' = [cached EXCEPT ![e] = TRUE] \/ cached' = [cached EXCEPT ![e] = FALSE]
            /\ JobFree(e) \/ JobComplete(e)
  BY DEF HelperResult
<1>3. /\ jobState' \in [Entry -> JobState]
      /\ interest' \in [Entry -> [Priority -> 0..InterestLimit]]
      /\ priority' \in [Entry -> Priority]
      /\ orphaned' \in [Entry -> BOOLEAN]
      /\ jobDue' \in [Entry -> BOOLEAN]
      /\ completion' \in Seq(Entry)
      /\ \A f \in Entry \ {e} : jobState'[f] = jobState[f] /\ priority'[f] = priority[f]
      /\ jobState'[e] \in {"NONE", "COMPLETE", "RETRY_WAIT"}
      /\ Lists(completion', Finished')
      /\ InterestsRuleJobs'
  BY <1>1, <1>2, AttemptEnds
<1>4. HelpersHoldJobs' /\ helperJob' \in [Helper -> Entry \cup {None}]
  BY <1>1, <1>3, HelperLetsGo, Zenon DEF HelperSuccess
<1>5. \A p \in Priority : Lists(queue'[p], Queued(p)')
  <2>1. \A f \in Entry : /\ jobState'[f] = "QUEUED" <=> jobState[f] = "QUEUED"
                         /\ jobState[f] = "QUEUED" => priority'[f] = priority[f]
    BY <1>1, <1>3, Zenon
  <2> QED
    BY <1>1, <2>1, QueueFrame, Zenon DEF ListsMatchStates
<1>6. /\ helper' \in [Helper -> HelperState]
      /\ helperDue' \in [Helper -> BOOLEAN]
      /\ failures' \in [Helper -> 0..FailureLimit]
      /\ successes' \in [Helper -> 0..ResetSuccesses]
  <2>1. successes[h] + 1 < ResetSuccesses => successes[h] + 1 \in 0..ResetSuccesses
    BY SupervisorAssumption DEF TypeOK
  <2> QED
    <3>1. helper' \in [Helper -> HelperState]
      BY <1>1 DEF HelperSuccess, TypeOK, HelperState
    <3>2. CASE failures[h] = 0 /\ UNCHANGED <<successes, failures, helperDue>>
      BY <3>1, <3>2 DEF TypeOK
    <3>3. CASE /\ successes[h] + 1 < ResetSuccesses
               /\ successes' = [successes EXCEPT ![h] = @ + 1]
               /\ UNCHANGED <<failures, helperDue>>
      BY <2>1, <3>1, <3>3, Zenon DEF TypeOK
    <3>4. CASE /\ successes' = [successes EXCEPT ![h] = 0]
               /\ failures' = [failures EXCEPT ![h] = 0]
               /\ helperDue' = [helperDue EXCEPT ![h] = FALSE]
      BY <3>1, <3>4, SupervisorAssumption DEF TypeOK
    <3> QED
      BY <1>1, <3>2, <3>3, <3>4, Zenon DEF HelperSuccess
<1>7. cached' \in [Entry -> BOOLEAN]
  BY <1>2, Zenon DEF TypeOK
<1>8. TypeOK'
  BY <1>1, <1>3, <1>4, <1>6, <1>7, Zenon DEF TypeOK, timerVars, callVars
<1>9. NoQueryWhileCached'
  <2>1. \A f \in Entry \ {e} : cached'[f] = cached[f]
    BY <1>2, Zenon DEF TypeOK
  <2>2. cached'[e] = cached[e] \/ jobState'[e] \in {"NONE", "COMPLETE"}
    BY <1>2 DEF JobFree, JobComplete, TypeOK
  <2> QED
    BY <1>1, <1>3, <2>1, <2>2, Zenon DEF NoQueryWhileCached, Live
<1>10. ShutdownIsQuiet'
  BY <1>1 DEF ShutdownIsQuiet
<1> QED
  BY <1>3, <1>4, <1>5, <1>8, <1>9, <1>10, Zenon DEF ListsMatchStates

\* helper_fail, wherever it is called.
LEMMA HelperFailInv ==
    ASSUME IInv, NEW h \in Helper, HelperFail(h),
           UNCHANGED <<timerVars, cursor, idsLeft, shuttingDown>>, pc' \in Phase
    PROVE  IInv'
<1> USE DEF IInv
<1>1. JobDetach(h) /\ RespawnSchedule(h)
  BY DEF HelperFail
<1>2. PICK x \in {"BACKOFF", "STOPPED"} : /\ helper' = [helper EXCEPT ![h] = x]
                                          /\ shuttingDown => x = "STOPPED"
  BY <1>1, RespawnEffect
<1>3. /\ helper' \in [Helper -> HelperState]
      /\ helperDue' \in [Helper -> BOOLEAN]
      /\ failures' \in [Helper -> 0..FailureLimit]
      /\ successes' \in [Helper -> 0..ResetSuccesses]
  BY <1>1, RespawnEffect
<1>4. CASE helperJob[h] = None
  <2>1. UNCHANGED jobVars
    BY <1>4 DEF HelperFail
  <2>2. HelpersHoldJobs' /\ helperJob' \in [Helper -> Entry \cup {None}]
    BY <1>1, <1>2, <1>4, <2>1, HelperLetsGo, Zenon DEF jobVars
  <2>3. ListsMatchStates'
    BY <2>1, QueueFrame, CompletionFrame, Zenon DEF ListsMatchStates, jobVars
  <2>4. TypeOK'
    BY <1>3, <2>1, <2>2, Zenon DEF TypeOK, jobVars, timerVars
  <2>5. InterestsRuleJobs' /\ NoQueryWhileCached'
    BY <2>1 DEF InterestsRuleJobs, NoQueryWhileCached, Live, NoInterest, jobVars
  <2>6. ShutdownIsQuiet'
    BY <1>2, <2>1, Zenon DEF ShutdownIsQuiet, TypeOK, jobVars
  <2> QED
    BY <2>2, <2>3, <2>4, <2>5, <2>6, Zenon
<1>5. CASE helperJob[h] # None
  <2> PICK e \in Entry : e = helperJob[h]
    BY <1>5 DEF TypeOK
  <2>1. jobState[e] \in {"DISPATCHED", "SENDING"} /\ Live(e) /\ ~shuttingDown
    BY <1>5 DEF HelpersHoldJobs, ShutdownIsQuiet, Live
  <2>2. CASE jobState[e] = "DISPATCHED"
    <3>1. JobRetry(e) /\ UNCHANGED <<queue, cached>>
      BY <1>5, <2>2, Zenon DEF HelperFail
    <3>2. /\ jobState' \in [Entry -> JobState]
          /\ interest' \in [Entry -> [Priority -> 0..InterestLimit]]
          /\ priority' \in [Entry -> Priority]
          /\ orphaned' \in [Entry -> BOOLEAN]
          /\ jobDue' \in [Entry -> BOOLEAN]
          /\ completion' \in Seq(Entry)
          /\ \A f \in Entry \ {e} : jobState'[f] = jobState[f] /\ priority'[f] = priority[f]
          /\ jobState'[e] \in {"NONE", "COMPLETE", "RETRY_WAIT"}
          /\ Lists(completion', Finished')
          /\ InterestsRuleJobs'
      BY <2>1, <3>1, AttemptEnds
    <3>3. HelpersHoldJobs' /\ helperJob' \in [Helper -> Entry \cup {None}]
      BY <1>1, <1>2, <3>2, HelperLetsGo, Zenon
    <3>4. \A p \in Priority : Lists(queue'[p], Queued(p)')
      <4>1. \A f \in Entry : /\ jobState'[f] = "QUEUED" <=> jobState[f] = "QUEUED"
                             /\ jobState[f] = "QUEUED" => priority'[f] = priority[f]
        BY <2>2, <3>2
      <4> QED
        BY <3>1, <4>1, QueueFrame, Zenon DEF ListsMatchStates
    <3>5. TypeOK'
      BY <1>3, <3>1, <3>2, <3>3, Zenon DEF TypeOK, timerVars
    <3>6. NoQueryWhileCached' /\ ShutdownIsQuiet'
      BY <2>1, <3>1, <3>2, Zenon DEF NoQueryWhileCached, ShutdownIsQuiet, Live
    <3> QED
      BY <3>2, <3>3, <3>4, <3>5, <3>6, Zenon DEF ListsMatchStates
  <2>3. CASE jobState[e] = "SENDING"
    <3> PICK r \in Priority : r = priority[e]
      BY Zenon DEF TypeOK
    <3>1. /\ jobState' = [jobState EXCEPT ![e] = "QUEUED"]
          /\ queue' = [queue EXCEPT ![r] = Cons(e, @)]
          /\ UNCHANGED <<interest, priority, orphaned, jobDue, completion, cached>>
      BY <1>5, <2>3 DEF HelperFail
    <3>2. /\ jobState' \in [Entry -> JobState]
          /\ jobState'[e] = "QUEUED"
          /\ \A f \in Entry \ {e} : jobState'[f] = jobState[f] /\ priority'[f] = priority[f]
      BY <3>1 DEF TypeOK, JobState
    <3>3. HelpersHoldJobs' /\ helperJob' \in [Helper -> Entry \cup {None}]
      BY <1>1, <1>2, <3>2, HelperLetsGo, Zenon
    <3>4. queue' \in [Priority -> Seq(Entry)] /\ \A p \in Priority : Lists(queue'[p], Queued(p)')
      BY <2>3, <3>1, <3>2, QueueEnter, Zenon DEF ListsMatchStates
    <3>5. Lists(completion', Finished')
      <4>1. \A f \in Entry : jobState'[f] = "COMPLETE" <=> jobState[f] = "COMPLETE"
        BY <2>3, <3>2, Zenon
      <4> QED
        BY <3>1, <4>1, CompletionFrame, Zenon DEF ListsMatchStates
    <3>6. TypeOK'
      BY <1>3, <3>1, <3>2, <3>3, <3>4, Zenon DEF TypeOK, timerVars
    <3>7. InterestsRuleJobs'
      BY <2>3, <3>1, Zenon DEF InterestsRuleJobs, TypeOK, Live
    <3>8. NoQueryWhileCached' /\ ShutdownIsQuiet'
      BY <2>1, <3>1, <3>2, Zenon DEF NoQueryWhileCached, ShutdownIsQuiet, Live
    <3> QED
      BY <3>3, <3>4, <3>5, <3>6, <3>7, <3>8, Zenon DEF ListsMatchStates
  <2> QED
    BY <2>1, <2>2, <2>3, Zenon
<1> QED
  BY <1>4, <1>5, Zenon

\* A step that changes no job and only moves a helper that holds none.
LEMMA IdleHelperInv ==
    ASSUME IInv, NEW h \in Helper, UNCHANGED <<jobVars, idsLeft, shuttingDown, helperJob>>,
           armedJobs' \in SUBSET Entry, armedHelpers' \in SUBSET Helper,
           pc' \in Phase, cursor' \in Helper,
           helperDue' \in [Helper -> BOOLEAN],
           failures' \in [Helper -> 0..FailureLimit],
           successes' \in [Helper -> 0..ResetSuccesses],
           \/ UNCHANGED helper
           \/ /\ helper[h] \notin {"BUSY", "SENDING"}
              /\ \E x \in {"IDLE", "BACKOFF", "STOPPED"} :
                    helper' = [helper EXCEPT ![h] = x] /\ (shuttingDown => x = "STOPPED")
    PROVE  IInv'
<1> USE DEF IInv
<1>1. ListsMatchStates'
  BY QueueFrame, CompletionFrame, Zenon DEF ListsMatchStates, jobVars
<1>2. InterestsRuleJobs' /\ NoQueryWhileCached'
  BY DEF InterestsRuleJobs, NoQueryWhileCached, Live, NoInterest, jobVars
<1>3. TypeOK' /\ HelpersHoldJobs' /\ ShutdownIsQuiet'
  <2>1. CASE UNCHANGED helper
    BY <2>1, Zenon DEF TypeOK, HelpersHoldJobs, ShutdownIsQuiet, jobVars
  <2>2. CASE /\ helper[h] \notin {"BUSY", "SENDING"}
             /\ \E x \in {"IDLE", "BACKOFF", "STOPPED"} :
                    helper' = [helper EXCEPT ![h] = x] /\ (shuttingDown => x = "STOPPED")
    <3> PICK x \in {"IDLE", "BACKOFF", "STOPPED"} :
                    helper' = [helper EXCEPT ![h] = x] /\ (shuttingDown => x = "STOPPED")
      BY <2>2, Zenon
    <3>1. helperJob[h] = None
      BY <2>2 DEF HelpersHoldJobs
    <3>2. JobDetach(h)
      BY <3>1 DEF JobDetach, TypeOK
    <3>3. HelpersHoldJobs'
      BY <3>1, <3>2, HelperLetsGo, Zenon DEF jobVars
    <3>4. TypeOK'
      BY Zenon DEF TypeOK, jobVars, HelperState
    <3>5. ShutdownIsQuiet'
      BY DEF ShutdownIsQuiet, TypeOK, jobVars
    <3> QED
      BY <3>3, <3>4, <3>5
  <2> QED
    BY <2>1, <2>2, Zenon
<1> QED
  BY <1>1, <1>2, <1>3, Zenon

-----------------------------------------------------------------------------
(* The rest of events_process *)

\* A helper that breaks, stops or hangs up.
LEMMA HelperFaultInv ==
    ASSUME IInv, NEW h \in Helper, HelperFault(h)
    PROVE  IInv'
<1> USE DEF IInv
<1>1. UNCHANGED <<timerVars, cursor, idsLeft, shuttingDown>> /\ pc' \in Phase
  BY DEF HelperFault, callVars, TypeOK
<1>2. CASE HelperFail(h)
  BY <1>1, <1>2, HelperFailInv
<1>3. CASE helper[h] = "SHUTTING_DOWN" /\ HelperStop(h) /\ UNCHANGED jobVars
  <2>1. helper[h] = "SHUTTING_DOWN" /\ helper' = [helper EXCEPT ![h] = "STOPPED"]
    BY <1>3, Zenon DEF HelperStop
  <2>2. /\ helperDue' \in [Helper -> BOOLEAN]
        /\ failures' \in [Helper -> 0..FailureLimit]
        /\ successes' \in [Helper -> 0..ResetSuccesses]
        /\ UNCHANGED helperJob
        /\ cursor' \in Helper
        /\ armedJobs' \in SUBSET Entry /\ armedHelpers' \in SUBSET Helper
    BY <1>1, <1>3 DEF HelperStop, TypeOK, timerVars
  <2> QED
    BY <1>1, <1>3, <2>1, <2>2, IdleHelperInv, Zenon
<1> QED
  BY <1>2, <1>3 DEF HelperFault

\* The end of the drain that an expired query gets.
LEMMA TimerTimeoutInv ==
    ASSUME IInv, NEW h \in Helper, TimerTimeout(h)
    PROVE  IInv'
<1> USE DEF IInv
<1>1. UNCHANGED <<timerVars, cursor, idsLeft, shuttingDown>> /\ pc' \in Phase
  BY DEF TimerTimeout, Phase
<1>2. CASE HelperFail(h)
  BY <1>1, <1>2, HelperFailInv
<1>3. CASE UNCHANGED <<jobVars, helperVars>>
  <2>1. /\ helperDue' \in [Helper -> BOOLEAN]
        /\ failures' \in [Helper -> 0..FailureLimit]
        /\ successes' \in [Helper -> 0..ResetSuccesses]
        /\ UNCHANGED <<helper, helperJob>>
        /\ cursor' \in Helper
        /\ armedJobs' \in SUBSET Entry /\ armedHelpers' \in SUBSET Helper
    BY <1>1, <1>3 DEF TypeOK, helperVars, timerVars
  <2> QED
    BY <1>1, <1>3, <2>1, IdleHelperInv
<1> QED
  BY <1>2, <1>3, Zenon DEF TimerTimeout

\* The helpers' own deadlines: recovery, respawn and forced stop.
LEMMA TimerHelperInv ==
    ASSUME IInv, NEW h \in Helper, TimerRecover(h) \/ TimerNext(h)
    PROVE  IInv'
<1> USE DEF IInv
<1>0. 0 \in 0..FailureLimit /\ 0 \in 0..ResetSuccesses
  BY SupervisorAssumption
<1>1. CASE TimerRecover(h)
  <2>1. /\ helperDue' \in [Helper -> BOOLEAN]
        /\ failures' \in [Helper -> 0..FailureLimit]
        /\ successes' \in [Helper -> 0..ResetSuccesses]
        /\ UNCHANGED <<helper, helperJob, jobVars, idsLeft, shuttingDown>>
        /\ cursor' \in Helper /\ pc' \in Phase
        /\ armedJobs' \in SUBSET Entry /\ armedHelpers' \in SUBSET Helper
    BY <1>0, <1>1, Zenon DEF TimerRecover, TypeOK, timerVars, callVars
  <2> QED
    BY <2>1, IdleHelperInv, Zenon
<1>2. CASE TimerNext(h)
  <2>1. UNCHANGED <<jobVars, timerVars, idsLeft, shuttingDown>>
    BY <1>2, Zenon DEF TimerNext
  <2>2. cursor' \in Helper /\ pc' \in Phase
    BY <1>2, SupervisorAssumption, SMTT(60) DEF TimerNext, TypeOK, Phase, Helper
  <2>3. armedJobs' \in SUBSET Entry /\ armedHelpers' \in SUBSET Helper
    BY <2>1 DEF TypeOK, timerVars
  <2>4. CASE helper[h] = "BACKOFF" /\ Spawn(h)
    <3>1. ~shuttingDown /\ UNCHANGED helperJob
      BY <2>4 DEF ShutdownIsQuiet, Spawn
    <3>2. /\ \E x \in {"IDLE", "BACKOFF", "STOPPED"} : helper' = [helper EXCEPT ![h] = x]
          /\ helperDue' \in [Helper -> BOOLEAN]
          /\ failures' \in [Helper -> 0..FailureLimit]
          /\ successes' \in [Helper -> 0..ResetSuccesses]
      <4>1. CASE RespawnSchedule(h)
        BY <4>1, RespawnEffect
      <4>2. CASE /\ helper' = [helper EXCEPT ![h] = "IDLE"]
                 /\ \E due \in DueAfterDelay : helperDue' = [helperDue EXCEPT ![h] = due]
                 /\ UNCHANGED <<helperJob, failures, successes>>
        BY <4>2, Zenon DEF DueAfterDelay, TypeOK
      <4> QED
        BY <2>4, <4>1, <4>2 DEF Spawn
    <3> QED
      BY <2>1, <2>2, <2>3, <2>4, <3>1, <3>2, IdleHelperInv, Zenon
  <2>5. CASE helper[h] = "SHUTTING_DOWN" /\ HelperStop(h)
    <3>1. /\ helper' = [helper EXCEPT ![h] = "STOPPED"]
          /\ helperDue' \in [Helper -> BOOLEAN]
          /\ failures' \in [Helper -> 0..FailureLimit]
          /\ successes' \in [Helper -> 0..ResetSuccesses]
          /\ UNCHANGED helperJob
      BY <2>5, Zenon DEF HelperStop, TypeOK
    <3> QED
      BY <2>1, <2>2, <2>3, <2>5, <3>1, IdleHelperInv, Zenon
  <2>6. CASE UNCHANGED helperVars
    <3>1. /\ helperDue' \in [Helper -> BOOLEAN]
          /\ failures' \in [Helper -> 0..FailureLimit]
          /\ successes' \in [Helper -> 0..ResetSuccesses]
          /\ UNCHANGED <<helper, helperJob>>
      BY <2>6, Zenon DEF helperVars, TypeOK
    <3> QED
      BY <2>1, <2>2, <2>3, <3>1, IdleHelperInv, Zenon
  <2> QED
    BY <1>2, <2>4, <2>5, <2>6, Zenon DEF TimerNext
<1> QED
  BY <1>1, <1>2

\* A retry joins the queue of its priority.
LEMMA RetryDueInv ==
    ASSUME IInv, NEW e \in Entry, RetryDue(e)
    PROVE  IInv'
<1> USE DEF IInv
<1> PICK r \in Priority : r = priority[e]
  BY Zenon DEF TypeOK
<1>1. /\ jobState[e] = "RETRY_WAIT"
      /\ jobState' = [jobState EXCEPT ![e] = "QUEUED"]
      /\ jobDue' = [jobDue EXCEPT ![e] = FALSE]
      /\ queue' = [queue EXCEPT ![r] = Append(@, e)]
      /\ UNCHANGED <<interest, priority, orphaned, completion, cached,
                     helperVars, timerVars, callVars, idsLeft, shuttingDown>>
  BY DEF RetryDue
<1>2. /\ jobState' \in [Entry -> JobState] /\ jobState'[e] = "QUEUED"
      /\ \A f \in Entry \ {e} : jobState'[f] = jobState[f] /\ priority'[f] = priority[f]
  BY <1>1 DEF TypeOK, JobState
<1>3. queue' \in [Priority -> Seq(Entry)] /\ \A p \in Priority : Lists(queue'[p], Queued(p)')
  BY <1>1, <1>2, QueueEnter, Zenon DEF ListsMatchStates
<1>4. Lists(completion', Finished')
  <2>1. \A f \in Entry : jobState'[f] = "COMPLETE" <=> jobState[f] = "COMPLETE"
    BY <1>1, <1>2, SMTT(30)
  <2> QED
    BY <1>1, <2>1, CompletionFrame, Zenon DEF ListsMatchStates
<1>5. TypeOK'
  BY <1>1, <1>2, <1>3, ZenonT(40) DEF TypeOK, helperVars, timerVars, callVars
<1>6. HelpersHoldJobs'
  <2>1. helper' = helper /\ helperJob' = helperJob /\ \A h \in Helper : helperJob[h] \in Entry \cup {None}
    BY <1>1 DEF TypeOK, helperVars
  <2>2. \A h \in Helper : helper[h] \in {"BUSY", "SENDING"} => helperJob[h] \in Entry \ {e}
    BY <1>1, <2>1, ZenonT(40) DEF HelpersHoldJobs
  <2>3. ASSUME NEW h \in Helper
        PROVE  /\ helper[h] = "BUSY" => jobState'[helperJob[h]] = "DISPATCHED"
               /\ helper[h] = "SENDING" => jobState'[helperJob[h]] = "SENDING"
    BY <1>2, <2>2 DEF HelpersHoldJobs
  <2>4. \A f \in Entry : jobState'[f] \in {"DISPATCHED", "SENDING"} => \E h \in Helper : helperJob[h] = f
    BY <1>2, SMTT(30) DEF HelpersHoldJobs
  <2>5. /\ \A h \in Helper : helper'[h] \in {"BUSY", "SENDING"} <=> helperJob'[h] # None
        /\ \A g, h \in Helper : helperJob'[g] = helperJob'[h] /\ g # h => helperJob'[g] = None
    BY <2>1, Zenon DEF HelpersHoldJobs
  <2> QED
    BY <2>1, <2>3, <2>4, <2>5, Zenon DEF HelpersHoldJobs
<1>7. InterestsRuleJobs'
  BY <1>1, Zenon DEF InterestsRuleJobs, TypeOK, Live
<1>8. NoQueryWhileCached' /\ ShutdownIsQuiet'
  BY <1>1, <1>2, Zenon DEF NoQueryWhileCached, ShutdownIsQuiet, Live, helperVars
<1> QED
  BY <1>3, <1>4, <1>5, <1>6, <1>7, <1>8, Zenon DEF ListsMatchStates

-----------------------------------------------------------------------------
(* Dispatch *)

\* The job dispatch takes is the head of a queue.
LEMMA DispatchHead ==
    ASSUME IInv, ~QueueEmpty
    PROVE  /\ FirstQueue \in Priority
           /\ Head(queue[FirstQueue]) \in Queued(FirstQueue)
           /\ Head(queue[FirstQueue]) \in Entry
           /\ Tail(queue[FirstQueue]) \in Seq(Entry)
           /\ Lists(Tail(queue[FirstQueue]), Queued(FirstQueue) \ {Head(queue[FirstQueue])})
<1> USE DEF IInv
<1>1. FirstQueue \in Priority /\ queue[FirstQueue] # <<>>
  BY DEF FirstQueue, Priority, QueueEmpty
<1> PICK r \in Priority : r = FirstQueue
  BY <1>1, Zenon
<1>2. queue[r] \in Seq(Entry) /\ queue[r] # <<>> /\ Lists(queue[r], Queued(r))
  BY <1>1 DEF TypeOK, ListsMatchStates
<1>3. /\ Head(queue[r]) \in Queued(r) /\ Head(queue[r]) \in Entry
      /\ Tail(queue[r]) \in Seq(Entry) /\ Lists(Tail(queue[r]), Queued(r) \ {Head(queue[r])})
  BY <1>2, TailLists
<1>4. Queued(FirstQueue) = Queued(r)
  BY Zenon DEF Queued
<1> QED
  BY <1>1, <1>3, <1>4, Zenon

\* The head of the queue is taken and its request sent or about to be.
LEMMA AssignOkInv ==
    ASSUME IInv, NEW h \in Helper, NEW e \in Entry, NEW r \in Priority, NEW q,
           jobState[e] = "QUEUED", priority[e] = r, q \in Seq(Entry), Lists(q, Queued(r) \ {e}),
           queue' = [queue EXCEPT ![r] = q],
           helper[h] = "IDLE", ~shuttingDown, idsLeft' \in BOOLEAN,
           helperJob' = [helperJob EXCEPT ![h] = e],
           jobDue' \in [Entry -> BOOLEAN],
           \/ /\ jobState' = [jobState EXCEPT ![e] = "DISPATCHED"]
              /\ helper' = [helper EXCEPT ![h] = "BUSY"]
           \/ /\ jobState' = [jobState EXCEPT ![e] = "SENDING"]
              /\ helper' = [helper EXCEPT ![h] = "SENDING"],
           UNCHANGED <<interest, priority, orphaned, completion, helperDue, failures, successes,
                       cached, timerVars, callVars, shuttingDown>>
    PROVE  IInv'
<1> USE DEF IInv
<1>1. /\ jobState' \in [Entry -> JobState] /\ helper' \in [Helper -> HelperState]
      /\ helperJob' \in [Helper -> Entry \cup {None}]
      /\ jobState'[e] \in {"DISPATCHED", "SENDING"}
      /\ \A f \in Entry \ {e} : jobState'[f] = jobState[f] /\ priority'[f] = priority[f]
  BY Zenon DEF TypeOK, JobState, HelperState
<1>2. queue' \in [Priority -> Seq(Entry)] /\ \A p \in Priority : Lists(queue'[p], Queued(p)')
  BY <1>1, QueueLeave, ZenonT(40) DEF ListsMatchStates
<1>3. Lists(completion', Finished')
  <2>1. \A f \in Entry : jobState'[f] = "COMPLETE" <=> jobState[f] = "COMPLETE"
    BY <1>1, Zenon
  <2> QED
    BY <2>1, CompletionFrame DEF ListsMatchStates
<1>4. TypeOK'
  BY <1>1, <1>2, Zenon DEF TypeOK, timerVars, callVars
<1>5. HelpersHoldJobs'
  <2>1. \A g \in Helper : helperJob[g] # e
    <3> SUFFICES ASSUME NEW g \in Helper, helperJob[g] = e PROVE FALSE
      BY Zenon
    <3>1. helperJob[g] # None
      BY SupervisorAssumption, Zenon
    <3> QED
      BY <3>1, Zenon DEF HelpersHoldJobs
  <2>2. helperJob[h] = None
    BY Zenon DEF HelpersHoldJobs
  <2>3. \/ helper' = [helper EXCEPT ![h] = "BUSY"] /\ jobState'[e] = "DISPATCHED"
        \/ helper' = [helper EXCEPT ![h] = "SENDING"] /\ jobState'[e] = "SENDING"
    BY Zenon DEF TypeOK
  <2>4. (\A g \in Helper \ {h} : helperJob[g] # e) /\ helperJob[h] \in {None, e}
    BY <2>1, <2>2, Zenon
  <2>5. \A f \in Entry \ {e} : jobState'[f] = jobState[f]
    BY <1>1, Zenon
  <2> HIDE DEF IInv
  <2> QED
    BY <2>3, <2>4, <2>5, HelperTakes, Zenon
<1>6. InterestsRuleJobs'
  BY Zenon DEF InterestsRuleJobs, TypeOK, Live
<1>7. NoQueryWhileCached' /\ ShutdownIsQuiet'
  BY <1>1 DEF NoQueryWhileCached, ShutdownIsQuiet, Live
<1> QED
  BY <1>2, <1>3, <1>4, <1>5, <1>6, <1>7 DEF ListsMatchStates

\* The head of the queue is taken but its attempt ends before it was sent
\* (or before epoll agreed); the helper stays as it was or fails.
LEMMA AssignEndsInv ==
    ASSUME IInv, NEW h \in Helper, NEW e \in Entry, NEW r \in Priority, NEW q,
           jobState[e] = "QUEUED", priority[e] = r, q \in Seq(Entry), Lists(q, Queued(r) \ {e}),
           queue' = [queue EXCEPT ![r] = q],
           helper[h] = "IDLE", ~shuttingDown, idsLeft' \in BOOLEAN,
           JobRetry(e) \/ JobComplete(e),
           UNCHANGED helperVars \/ (JobDetach(h) /\ RespawnSchedule(h)),
           UNCHANGED <<cached, timerVars, callVars, shuttingDown>>
    PROVE  IInv'
<1> USE DEF IInv
<1>1. Live(e) /\ ~orphaned[e]
  BY ZenonT(40) DEF Live, InterestsRuleJobs
<1>2. /\ jobState' \in [Entry -> JobState]
      /\ interest' \in [Entry -> [Priority -> 0..InterestLimit]]
      /\ priority' \in [Entry -> Priority]
      /\ orphaned' \in [Entry -> BOOLEAN]
      /\ jobDue' \in [Entry -> BOOLEAN]
      /\ completion' \in Seq(Entry)
      /\ \A f \in Entry \ {e} : jobState'[f] = jobState[f] /\ priority'[f] = priority[f]
      /\ jobState'[e] \in {"NONE", "COMPLETE", "RETRY_WAIT"}
      /\ Lists(completion', Finished')
      /\ InterestsRuleJobs'
  BY <1>1, AttemptEnds, Zenon
<1>3. queue' \in [Priority -> Seq(Entry)] /\ \A p \in Priority : Lists(queue'[p], Queued(p)')
  BY <1>2, QueueLeave, Zenon DEF ListsMatchStates
<1>4. helperJob[h] = None /\ \A g \in Helper : helperJob[g] # e
  <2>1. ASSUME NEW g \in Helper, helperJob[g] = e PROVE FALSE
    <3>1. helperJob[g] # None
      BY <2>1, SupervisorAssumption, Zenon
    <3> QED
      BY <2>1, <3>1, Zenon DEF HelpersHoldJobs
  <2> QED
    BY <2>1, Zenon DEF HelpersHoldJobs
<1>5. /\ HelpersHoldJobs'
      /\ helperJob' \in [Helper -> Entry \cup {None}]
      /\ helper' \in [Helper -> HelperState]
      /\ helperDue' \in [Helper -> BOOLEAN]
      /\ failures' \in [Helper -> 0..FailureLimit]
      /\ successes' \in [Helper -> 0..ResetSuccesses]
  <2>1. CASE UNCHANGED helperVars
    <3>1. \A g \in Helper : helperJob[g] # None => jobState'[helperJob[g]] = jobState[helperJob[g]]
      BY <1>2, <1>4 DEF TypeOK
    <3>2. HelpersHoldJobs'
      BY <1>2, <2>1, <3>1, ZenonT(40) DEF HelpersHoldJobs, helperVars
    <3> QED
      BY <2>1, <3>2, Zenon DEF TypeOK, helperVars
  <2>2. CASE JobDetach(h) /\ RespawnSchedule(h)
    <3>1. /\ \E x \in {"IDLE", "BACKOFF", "STOPPED"} : helper' = [helper EXCEPT ![h] = x]
          /\ helper' \in [Helper -> HelperState]
          /\ helperDue' \in [Helper -> BOOLEAN]
          /\ failures' \in [Helper -> 0..FailureLimit]
          /\ successes' \in [Helper -> 0..ResetSuccesses]
      BY <2>2, RespawnEffect, ZenonT(40)
    <3>2. HelpersHoldJobs' /\ helperJob' \in [Helper -> Entry \cup {None}]
      <4>1. /\ helperJob'[h] = None
            /\ \A g \in Helper \ {h} : helper'[g] = helper[g] /\ helperJob'[g] = helperJob[g]
            /\ helper'[h] \notin {"BUSY", "SENDING"}
            /\ helperJob' \in [Helper -> Entry \cup {None}]
        BY <2>2, <3>1, ZenonT(40) DEF JobDetach, TypeOK
      <4>2. \A g \in Helper : helperJob[g] # None => jobState'[helperJob[g]] = jobState[helperJob[g]]
        BY <1>2, <1>4 DEF TypeOK
      <4>3. ASSUME NEW g \in Helper
            PROVE  /\ helper'[g] \in {"BUSY", "SENDING"} <=> helperJob'[g] # None
                   /\ helper'[g] = "BUSY" => jobState'[helperJob'[g]] = "DISPATCHED"
                   /\ helper'[g] = "SENDING" => jobState'[helperJob'[g]] = "SENDING"
        <5>1. CASE g = h
          BY <4>1, <5>1, Zenon
        <5>2. CASE g # h
          <6>1. helper'[g] = helper[g] /\ helperJob'[g] = helperJob[g]
            BY <4>1, <5>2, ZenonT(40)
          <6>2. /\ helper[g] \in {"BUSY", "SENDING"} <=> helperJob[g] # None
                /\ helper[g] = "BUSY" => jobState[helperJob[g]] = "DISPATCHED"
                /\ helper[g] = "SENDING" => jobState[helperJob[g]] = "SENDING"
            BY ZenonT(40) DEF HelpersHoldJobs
          <6>3. helperJob[g] # None => jobState'[helperJob[g]] = jobState[helperJob[g]]
            BY <4>2, ZenonT(40)
          <6> QED
            BY <6>1, <6>2, <6>3, Zenon
        <5> QED
          BY <5>1, <5>2, Zenon
      <4>4. ASSUME NEW f \in Entry, jobState'[f] \in {"DISPATCHED", "SENDING"}
            PROVE  \E g \in Helper : helperJob'[g] = f
        <5>1. f # e /\ jobState[f] \in {"DISPATCHED", "SENDING"} /\ f # None
          BY <1>2, <4>4, SupervisorAssumption, ZenonT(40)
        <5>2. PICK g \in Helper : helperJob[g] = f
          BY <5>1, ZenonT(40) DEF HelpersHoldJobs
        <5> QED
          BY <1>4, <4>1, <5>1, <5>2, ZenonT(40)
      <4>5. ASSUME NEW f \in Helper, NEW g \in Helper, helperJob'[f] = helperJob'[g], f # g
            PROVE  helperJob'[f] = None
        <5>1. CASE f = h \/ g = h
          BY <4>1, <4>5, <5>1, ZenonT(40)
        <5>2. CASE f # h /\ g # h
          <6>1. helperJob'[f] = helperJob[f] /\ helperJob'[g] = helperJob[g]
            BY <4>1, <5>2
          <6>2. helperJob[f] = helperJob[g] /\ f # g => helperJob[f] = None
            BY Zenon DEF HelpersHoldJobs
          <6> QED
            BY <4>5, <6>1, <6>2, ZenonT(40)
        <5> QED
          BY <5>1, <5>2, ZenonT(40)
      <4>6. HelpersHoldJobs'
        <5>1. \A g \in Helper :
                  /\ helper'[g] \in {"BUSY", "SENDING"} <=> helperJob'[g] # None
                  /\ helper'[g] = "BUSY" => jobState'[helperJob'[g]] = "DISPATCHED"
                  /\ helper'[g] = "SENDING" => jobState'[helperJob'[g]] = "SENDING"
          BY <4>3, Zenon
        <5>2. \A f \in Entry :
                  jobState'[f] \in {"DISPATCHED", "SENDING"} => \E g \in Helper : helperJob'[g] = f
          BY <4>4, Zenon
        <5>3. \A f, g \in Helper : helperJob'[f] = helperJob'[g] /\ f # g => helperJob'[f] = None
          BY <4>5, Zenon
        <5> QED
          BY <5>1, <5>2, <5>3, Zenon DEF HelpersHoldJobs
      <4> QED
        BY <4>1, <4>6, Zenon
    <3> QED
      BY <3>1, <3>2, ZenonT(40)
  <2> QED
    BY <2>1, <2>2, Zenon
<1>6. TypeOK'
  BY <1>2, <1>3, <1>5, Zenon DEF TypeOK, timerVars, callVars
<1>7. NoQueryWhileCached' /\ ShutdownIsQuiet'
  BY <1>2, Zenon DEF NoQueryWhileCached, ShutdownIsQuiet, Live
<1> QED
  BY <1>2, <1>3, <1>5, <1>6, <1>7, ZenonT(40) DEF ListsMatchStates

\* One assignment of resolver_supervisor_dispatch.
LEMMA DispatchInv ==
    ASSUME IInv, NEW h \in Helper, Dispatch(h)
    PROVE  IInv'
<1> USE DEF IInv
<1>1. ~shuttingDown /\ ~QueueEmpty /\ helper[h] = "IDLE"
  BY DEF Dispatch, CanAssign, FirstIdle
<1> PICK r \in Priority : r = FirstQueue
  BY <1>1, DispatchHead, Zenon
<1> PICK e \in Entry : e = Head(queue[r])
  BY <1>1, DispatchHead
<1> PICK q : q = Tail(queue[r])
  BY ZenonT(40)
<1>2. e \in Queued(r) /\ q \in Seq(Entry) /\ Lists(q, Queued(r) \ {e})
  <2>1. Queued(FirstQueue) = Queued(r)
    BY Zenon DEF Queued
  <2> QED
    BY <1>1, <2>1, DispatchHead
<1>3. jobState[e] = "QUEUED" /\ priority[e] = r
  BY <1>2 DEF Queued
<1>4. UNCHANGED <<cached, timerVars, callVars, shuttingDown>>
  BY DEF Dispatch
<1>5. [queue EXCEPT ![FirstQueue] = Tail(@)] = [queue EXCEPT ![r] = q]
  BY DEF TypeOK
<1>6. CASE AssignOk(h, e)
  <2>1. /\ idsLeft' \in BOOLEAN
        /\ jobDue' \in [Entry -> BOOLEAN]
        /\ helperJob' = [helperJob EXCEPT ![h] = e]
        /\ UNCHANGED <<interest, priority, orphaned, completion, helperDue, failures, successes>>
        /\ queue' = [queue EXCEPT ![r] = q]
        /\ \/ /\ jobState' = [jobState EXCEPT ![e] = "DISPATCHED"]
              /\ helper' = [helper EXCEPT ![h] = "BUSY"]
           \/ /\ jobState' = [jobState EXCEPT ![e] = "SENDING"]
              /\ helper' = [helper EXCEPT ![h] = "SENDING"]
    BY <1>5, <1>6, Zenon DEF AssignOk, QueryIdAllocate, TypeOK
  <2> QED
    BY <1>1, <1>2, <1>3, <1>4, <2>1, AssignOkInv, ZenonT(40)
<1>7. CASE AssignRetry(e)
  <2>1. /\ idsLeft' \in BOOLEAN /\ JobRetry(e) /\ UNCHANGED helperVars
        /\ queue' = [queue EXCEPT ![r] = q]
    BY <1>5, <1>7, Zenon DEF AssignRetry, QueryIdAllocate
  <2> QED
    BY <1>1, <1>2, <1>3, <1>4, <2>1, AssignEndsInv, Zenon
<1>8. CASE AssignComplete(e)
  <2>1. /\ idsLeft' \in BOOLEAN /\ JobComplete(e) /\ UNCHANGED helperVars
        /\ queue' = [queue EXCEPT ![r] = q]
    BY <1>5, <1>8, Zenon DEF AssignComplete, TypeOK
  <2> QED
    BY <1>1, <1>2, <1>3, <1>4, <2>1, AssignEndsInv, Zenon
<1>9. CASE AssignIo(h, e)
  <2>1. idsLeft' \in BOOLEAN /\ JobDetach(h) /\ RespawnSchedule(h)
    BY <1>9, Zenon DEF AssignIo, QueryIdAllocate
  <2>2. CASE JobRetry(e) /\ queue' = [queue EXCEPT ![FirstQueue] = Tail(@)]
    BY <1>1, <1>2, <1>3, <1>4, <1>5, <2>1, <2>2, AssignEndsInv, Zenon
  <2>3. CASE UNCHANGED <<jobState, interest, priority, orphaned, jobDue, queue, completion>>
    <3>1. /\ \E x \in {"IDLE", "BACKOFF", "STOPPED"} : helper' = [helper EXCEPT ![h] = x]
          /\ helper' \in [Helper -> HelperState]
          /\ helperDue' \in [Helper -> BOOLEAN]
          /\ failures' \in [Helper -> 0..FailureLimit]
          /\ successes' \in [Helper -> 0..ResetSuccesses]
      BY <2>1, RespawnEffect, ZenonT(40)
    <3>2. helperJob[h] = None
      BY <1>1 DEF HelpersHoldJobs
    <3>3. HelpersHoldJobs' /\ helperJob' \in [Helper -> Entry \cup {None}]
      BY <2>1, <2>3, <3>1, <3>2, HelperLetsGo, ZenonT(40)
    <3>4. ListsMatchStates'
      BY <2>3, QueueFrame, CompletionFrame DEF ListsMatchStates
    <3>5. TypeOK'
      BY <1>4, <2>1, <2>3, <3>1, <3>3, ZenonT(40) DEF TypeOK, timerVars, callVars
    <3>6. InterestsRuleJobs' /\ NoQueryWhileCached' /\ ShutdownIsQuiet'
      BY <1>1, <1>4, <2>3
     , Zenon DEF InterestsRuleJobs, NoQueryWhileCached, ShutdownIsQuiet, Live, NoInterest
    <3> QED
      BY <3>3, <3>4, <3>5, <3>6, Zenon
  <2> QED
    BY <1>9, <2>2, <2>3 DEF AssignIo
<1> QED
  BY <1>6, <1>7, <1>8, <1>9, Zenon DEF Dispatch

-----------------------------------------------------------------------------
(* The steps that move neither a job nor a helper *)

\* The call in progress moves to its next phase, or the timer is armed.
LEMMA PhaseInv ==
    ASSUME IInv,
           \/ EventsByTimer \/ EventsByHelper \/ EventsNext
           \/ \E h \in Helper : TimerDrain(h)
           \/ RetriesDone \/ DispatchDone
    PROVE  IInv'
<1> USE DEF IInv
<1>1. UNCHANGED <<jobVars, helperVars, idsLeft, shuttingDown>>
  BY Zenon DEF EventsByTimer, EventsByHelper, EventsBegin, EventsNext, TimerDrain, RetriesDone, DispatchDone
<1>2. pc' \in Phase
  BY Zenon DEF EventsByTimer, EventsByHelper, EventsBegin, EventsNext, TimerDrain, RetriesDone,
         DispatchDone, Phase, TypeOK
<1>3. cursor' \in Helper
  BY SupervisorAssumption, SMTT(60)
  DEF EventsByTimer, EventsByHelper, EventsBegin, EventsNext, TimerDrain, RetriesDone,
      DispatchDone, TypeOK, Helper
<1>4. armedJobs' \in SUBSET Entry /\ armedHelpers' \in SUBSET Helper
  BY Zenon DEF EventsByTimer, EventsByHelper, EventsBegin, EventsNext, TimerDrain, RetriesDone,
         DispatchDone, TypeOK, timerVars, TimedJobs, TimedHelpers
<1>5. /\ helperDue' \in [Helper -> BOOLEAN]
      /\ failures' \in [Helper -> 0..FailureLimit]
      /\ successes' \in [Helper -> 0..ResetSuccesses]
      /\ UNCHANGED <<helper, helperJob>>
  BY <1>1 DEF TypeOK, helperVars
<1>6. PICK h \in Helper : TRUE
  BY Zenon DEF TypeOK
<1> QED
  BY <1>1, <1>2, <1>3, <1>4, <1>5, <1>6, IdleHelperInv, ZenonT(40)

\* Time: a deadline is reached or a cached answer expires.
LEMMA ClockInv ==
    ASSUME IInv, Clock
    PROVE  IInv'
<1> USE DEF IInv
<1>1. CASE \E e \in Entry : JobDeadline(e)
  <2>1. /\ jobDue' \in [Entry -> BOOLEAN]
        /\ UNCHANGED <<jobState, interest, priority, orphaned, queue, completion, cached,
                       helperVars, timerVars, callVars, idsLeft, shuttingDown>>
    BY <1>1 DEF JobDeadline, TypeOK
  <2>2. ListsMatchStates'
    BY <2>1, QueueFrame, CompletionFrame, Zenon DEF ListsMatchStates
  <2>3. TypeOK'
    BY <2>1, Zenon DEF TypeOK, helperVars, timerVars, callVars
  <2>4. HelpersHoldJobs' /\ ShutdownIsQuiet'
    BY <2>1, Zenon DEF HelpersHoldJobs, ShutdownIsQuiet, helperVars
  <2>5. InterestsRuleJobs'
    BY <2>1, Zenon DEF InterestsRuleJobs, Live, NoInterest
  <2>6. NoQueryWhileCached'
    BY <2>1, Zenon DEF NoQueryWhileCached, Live
  <2> QED
    BY <2>2, <2>3, <2>4, <2>5, <2>6, Zenon
<1>2. CASE \E e \in Entry : CacheExpire(e)
  <2>1. /\ cached' \in [Entry -> BOOLEAN]
        /\ \A f \in Entry : cached'[f] => cached[f]
        /\ UNCHANGED <<jobState, interest, priority, orphaned, jobDue, queue, completion,
                       helperVars, timerVars, callVars, idsLeft, shuttingDown>>
    BY <1>2 DEF CacheExpire, TypeOK
  <2>2. ListsMatchStates'
    BY <2>1, QueueFrame, CompletionFrame, Zenon DEF ListsMatchStates
  <2>3. TypeOK'
    BY <2>1, Zenon DEF TypeOK, helperVars, timerVars, callVars
  <2>4. HelpersHoldJobs' /\ ShutdownIsQuiet'
    BY <2>1, Zenon DEF HelpersHoldJobs, ShutdownIsQuiet, helperVars
  <2>5. InterestsRuleJobs'
    BY <2>1, Zenon DEF InterestsRuleJobs, Live, NoInterest
  <2>6. NoQueryWhileCached'
    BY <2>1, Zenon DEF NoQueryWhileCached, Live
  <2> QED
    BY <2>2, <2>3, <2>4, <2>5, <2>6
<1>3. CASE \E h \in Helper : HelperDeadline(h)
  <2> PICK h \in Helper : HelperDeadline(h)
    BY <1>3, Zenon
  <2>1. /\ helperDue' \in [Helper -> BOOLEAN]
        /\ failures' \in [Helper -> 0..FailureLimit]
        /\ successes' \in [Helper -> 0..ResetSuccesses]
        /\ UNCHANGED <<helper, helperJob, jobVars, idsLeft, shuttingDown>>
        /\ cursor' \in Helper /\ pc' \in Phase
        /\ armedJobs' \in SUBSET Entry /\ armedHelpers' \in SUBSET Helper
    BY DEF HelperDeadline, TypeOK, timerVars, callVars
  <2> QED
    BY <2>1, IdleHelperInv
<1> QED
  BY <1>1, <1>2, <1>3, Zenon DEF Clock

\* Stuttering.
LEMMA StutterInv ==
    ASSUME IInv, UNCHANGED vars
    PROVE  IInv'
<1> USE DEF IInv
<1>1. ListsMatchStates'
  BY QueueFrame, CompletionFrame, Zenon DEF ListsMatchStates, vars, jobVars
<1>2. TypeOK'
  BY Zenon DEF TypeOK, vars, jobVars, helperVars, timerVars, callVars
<1>3. HelpersHoldJobs' /\ ShutdownIsQuiet'
  BY Zenon DEF HelpersHoldJobs, ShutdownIsQuiet, vars, jobVars, helperVars
<1>4. InterestsRuleJobs'
  BY Zenon DEF InterestsRuleJobs, Live, NoInterest, vars, jobVars
<1>5. NoQueryWhileCached'
  BY DEF NoQueryWhileCached, Live, vars, jobVars
<1> QED
  BY <1>1, <1>2, <1>3, <1>4, <1>5, Zenon

-----------------------------------------------------------------------------
(* Theorems *)

\* Every step keeps the inductive invariant.
LEMMA NextInv ==
    ASSUME IInv, [Next]_vars
    PROVE  IInv'
<1>1. CASE Call
  <2>1. ASSUME NEW e \in Entry, NEW p \in Priority, Release(e, p) PROVE IInv'
    BY <2>1, ReleaseLastInv, ReleaseOneInv, Zenon
  <2> QED
    BY <1>1, <2>1, ScheduleInv, CompletionTakeInv, ShutdownInv, PhaseInv, Zenon DEF Call
<1>2. CASE \E h \in Helper : HelperStep(h)
  BY <1>2, HelperWritableInv, HelperResultInv, HelperFaultInv, Zenon DEF HelperStep
<1>3. CASE Running
  BY <1>3, PhaseInv, TimerTimeoutInv, TimerHelperInv, RetryDueInv, DispatchInv, Zenon DEF Running
<1>4. CASE Clock
  BY <1>4, ClockInv, Zenon
<1>5. CASE UNCHANGED vars
  BY <1>5, StutterInv
<1> QED
  BY <1>1, <1>2, <1>3, <1>4, <1>5, Zenon DEF Next

\* Whatever the supervisor, its helpers and its callers do, all the invariants
\* of IInv hold together.
THEOREM Inductive == Spec => []IInv
<1>1. Init => IInv
  BY InitInv
<1>2. IInv /\ [Next]_vars => IInv'
  BY NextInv
<1> QED
  BY <1>1, <1>2, PTL DEF Spec

\* The fields of jobs, helpers and the supervisor keep to their ranges: no
\* failure count, success count or interest count of supervisor.c runs over.
THEOREM TypeCorrect == Spec => []TypeOK
<1>1. IInv => TypeOK
  BY DEF IInv
<1> QED
  BY <1>1, Inductive, PTL

\* The two queues and the completion list of supervisor.c always hold exactly
\* the QUEUED and the COMPLETE jobs, each once.
THEOREM ListsAreRight == Spec => []ListsMatchStates
<1>1. IInv => ListsMatchStates
  BY Zenon DEF IInv
<1> QED
  BY <1>1, Inductive, PTL

\* A job in flight is held by exactly one helper, and helper->job never
\* refers to a job in another state or to a freed one.
THEOREM HelpersAreRight == Spec => []HelpersHoldJobs
<1>1. IInv => HelpersHoldJobs
  BY Zenon DEF IInv
<1> QED
  BY <1>1, Inductive, PTL

\* The interest counts decide the priority and the orphan flag of every job,
\* and no unwanted job is ever kept except one in flight.
THEOREM InterestsAreRight == Spec => []InterestsRuleJobs
<1>1. IInv => InterestsRuleJobs
  BY DEF IInv
<1> QED
  BY <1>1, Inductive, PTL

\* The supervisor never works on a question whose answer is cached.
THEOREM CacheIsUsed == Spec => []NoQueryWhileCached
<1>1. IInv => NoQueryWhileCached
  BY DEF IInv
<1> QED
  BY <1>1, Inductive, PTL

\* After resolver_supervisor_shutdown no job appears and no helper returns.
THEOREM ShutdownHolds == Spec => []ShutdownIsQuiet
<1>1. IInv => ShutdownIsQuiet
  BY Zenon DEF IInv
<1> QED
  BY <1>1, Inductive, PTL

-----------------------------------------------------------------------------
(* A call has returned when pc is "ready": it has just ended, or nothing   *)
(* but a call that needs no dispatch, or the clock, came since.            *)

\* The steps after which no call is under way.
LEMMA Returned ==
    ASSUME IInv, [Next]_vars, pc' = "ready"
    PROVE  \/ \E e \in Entry, p \in Priority : Schedule(e, p) /\ Coalesce(e, p)
           \/ CompletionTake
           \/ Shutdown
           \/ DispatchDone
           \/ Clock
           \/ UNCHANGED vars
<1>1. CASE Call
  BY <1>1, SMTT(30) DEF Call, Schedule, Start, Release, EventsByTimer, EventsByHelper, EventsBegin
<1>2. CASE \E h \in Helper : HelperStep(h)
  BY <1>2, ZenonT(40) DEF HelperStep, HelperWritable, HelperResult, HelperFault, callVars
<1>3. CASE Running
  BY <1>3 DEF Running, EventsNext, TimerDrain, TimerTimeout, TimerRecover, TimerNext, RetryDue, RetriesDone, Dispatch, callVars
<1> QED
  BY <1>1, <1>2, <1>3, Zenon DEF Next

\* An empty queue means that no job of its priority is queued.
LEMMA EmptyQueue ==
    ASSUME IInv, NEW p \in Priority, queue[p] = <<>>
    PROVE  Queued(p) = {}
<1>1. queue[p] \in Seq(Entry) /\ Lists(queue[p], Queued(p))
  BY DEF IInv, TypeOK, ListsMatchStates
<1> QED
  BY <1>1, ListsNothing, Zenon

\* A call that joins a query changes a queue only if the job is on one.
LEMMA CoalesceQueue ==
    ASSUME IInv, NEW e \in Entry, NEW p \in Priority, Coalesce(e, p), QueueEmpty
    PROVE  queue' = queue
<1>1. Queued("BACKGROUND") = {} /\ Queued("INTERACTIVE") = {}
  BY EmptyQueue, Zenon DEF QueueEmpty, Priority
<1>2. jobState[e] # "QUEUED"
  BY <1>1, Zenon DEF Queued, IInv, TypeOK, Priority
<1> QED
  BY <1>2, Zenon DEF Coalesce

\* Every step keeps helpers busy between calls.
LEMMA WorkConservingNext ==
    ASSUME IInv, WorkConserving, [Next]_vars
    PROVE  WorkConserving'
<1> SUFFICES ASSUME pc' = "ready" PROVE ~CanAssign'
  BY DEF WorkConserving
<1>1. ASSUME NEW e \in Entry, NEW p \in Priority, Schedule(e, p), Coalesce(e, p) PROVE ~CanAssign'
  <2>1. pc = "ready" /\ ~CanAssign
    BY <1>1, Zenon DEF Schedule, WorkConserving
  <2>2. UNCHANGED <<helper, shuttingDown>>
    BY <1>1, Zenon DEF Schedule, helperVars
  <2>3. QueueEmpty => QueueEmpty'
    BY <1>1, CoalesceQueue, Zenon DEF QueueEmpty
  <2> QED
    BY <2>1, <2>2, <2>3, Zenon DEF CanAssign
<1>2. CASE CompletionTake
  BY <1>2, Zenon DEF CompletionTake, WorkConserving, CanAssign, QueueEmpty, helperVars
<1>3. CASE Shutdown
  BY <1>3, Zenon DEF Shutdown, CanAssign
<1>4. CASE DispatchDone
  BY <1>4, SMTT(30) DEF DispatchDone, CanAssign, QueueEmpty, jobVars, helperVars
<1>5. CASE Clock
  BY <1>5, ZenonT(40) DEF Clock, JobDeadline, CacheExpire, HelperDeadline, WorkConserving, CanAssign, QueueEmpty, jobVars, helperVars, callVars
<1>6. CASE UNCHANGED vars
  BY <1>6, Zenon DEF WorkConserving, CanAssign, QueueEmpty, vars, jobVars, helperVars, callVars
<1> QED
  BY <1>1, <1>2, <1>3, <1>4, <1>5, <1>6, Returned, Zenon

\* Every step keeps the timer armed for all deadlines between calls.
LEMMA TimerCoversNext ==
    ASSUME IInv, TimerCoversDeadlines, [Next]_vars
    PROVE  TimerCoversDeadlines'
<1> SUFFICES ASSUME pc' = "ready"
             PROVE  TimedJobs' \subseteq armedJobs' /\ TimedHelpers' \subseteq armedHelpers'
  BY Zenon DEF TimerCoversDeadlines, TimedJobs, TimedHelpers, HelperLive
<1>0. pc = "ready" => TimedJobs \subseteq armedJobs /\ TimedHelpers \subseteq armedHelpers
  BY SMTT(30) DEF TimerCoversDeadlines, TimedJobs, TimedHelpers, HelperLive
<1>1. ASSUME NEW e \in Entry, NEW p \in Priority, Schedule(e, p), Coalesce(e, p)
      PROVE  TimedJobs' \subseteq armedJobs' /\ TimedHelpers' \subseteq armedHelpers'
  BY <1>0, <1>1, ZenonT(40) DEF Schedule, Coalesce, TimedJobs, TimedHelpers, HelperLive, helperVars, timerVars
<1>2. CASE CompletionTake
  BY <1>0, <1>2, ZenonT(40) DEF CompletionTake, JobFree, TimedJobs, TimedHelpers, HelperLive, helperVars, timerVars, IInv, TypeOK
<1>3. CASE Shutdown
  BY <1>3, Zenon DEF Shutdown
<1>4. CASE DispatchDone
  BY <1>4, SMTT(30) DEF DispatchDone, TimedJobs, TimedHelpers, HelperLive, jobVars, helperVars
<1>5. CASE Clock
  BY <1>0, <1>5, ZenonT(40) DEF Clock, JobDeadline, CacheExpire, HelperDeadline, TimedJobs, TimedHelpers, HelperLive, jobVars, helperVars, timerVars, callVars
<1>6. CASE UNCHANGED vars
  BY <1>0, <1>6, Zenon DEF vars, TimedJobs, TimedHelpers, HelperLive, jobVars, helperVars, timerVars, callVars
<1> QED
  BY <1>1, <1>2, <1>3, <1>4, <1>5, <1>6, Returned, Zenon

\* Whenever a call of the supervisor has returned, no helper is idle beside a
\* queued job, however helpers failed, answered or came back during the call
\* (resolver_supervisor_dispatch at the end of every call that could matter).
THEOREM NoIdleHelper == Spec => []WorkConserving
<1>1. Init => WorkConserving
  BY Zenon DEF Init, WorkConserving, CanAssign, QueueEmpty, Priority
<1> QED
  BY <1>1, WorkConservingNext, Inductive, PTL DEF Spec

\* Whenever a call has returned, resolver_supervisor_timer_rearm has seen every
\* deadline there is: of queries, retries, respawns, stable uptimes and stops.
THEOREM NoDeadlineMissed == Spec => []TimerCoversDeadlines
<1>1. Init => TimerCoversDeadlines
  BY SMTT(30) DEF Init, TimerCoversDeadlines, HelperLive
<1> QED
  BY <1>1, TimerCoversNext, Inductive, PTL DEF Spec

-----------------------------------------------------------------------------
(* The order of dispatch *)

\* A step in which a queued job goes to a helper.
Taken(e) == jobState[e] = "QUEUED" /\ jobState'[e] \in {"SENDING", "DISPATCHED"}

\* Only dispatch takes a queued job to a helper, and it takes the head of the
\* first queue.
LEMMA OnlyDispatchTakes ==
    ASSUME IInv, Next, NEW e \in Entry, Taken(e)
    PROVE  ~QueueEmpty /\ e = Head(queue[FirstQueue])
<1> USE DEF Taken
<1>1. CASE Call
  <2>1. ASSUME NEW f \in Entry, NEW p \in Priority, Schedule(f, p) PROVE FALSE
    BY <2>1, Zenon DEF Schedule, Start, Coalesce, IInv, TypeOK
  <2>2. ASSUME NEW f \in Entry, NEW p \in Priority, Release(f, p) PROVE FALSE
    BY <2>2, ZenonT(60) DEF Release, ReleaseLast, ReleaseOne, JobFree, IInv, TypeOK
  <2>3. CASE CompletionTake
    BY <2>3 DEF CompletionTake, JobFree, IInv, TypeOK
  <2>4. CASE Shutdown
    BY <2>4 DEF Shutdown
  <2>5. CASE EventsByTimer \/ EventsByHelper
    BY <2>5 DEF EventsByTimer, EventsByHelper, EventsBegin, jobVars
  <2> QED
    BY <1>1, <2>1, <2>2, <2>3, <2>4, <2>5 DEF Call
<1>2. CASE \E h \in Helper : HelperStep(h)
  <2> PICK h \in Helper : HelperStep(h)
    BY <1>2, Zenon
  <2>1. helper[h] \in {"SENDING", "BUSY"} => jobState[helperJob[h]] # "QUEUED"
    BY Zenon DEF IInv, HelpersHoldJobs
  <2>2. CASE HelperWritable(h)
    <3>1. jobState'[e] = jobState[e] \/ e = helperJob[h]
      BY <2>2 DEF HelperWritable, JobRetry, JobFree, JobComplete, IInv, TypeOK
    <3> QED
      BY <2>1, <2>2, <3>1, ZenonT(40) DEF HelperWritable
  <2>3. CASE HelperResult(h)
    BY <2>3, Zenon DEF HelperResult, JobRetry, JobFree, JobComplete, IInv, TypeOK
  <2>4. CASE HelperFault(h)
    BY <2>4, ZenonT(40) DEF HelperFault, HelperFail, JobRetry, JobFree, JobComplete, jobVars, IInv, TypeOK
  <2> QED
    BY <2>2, <2>3, <2>4 DEF HelperStep
<1>3. CASE Running
  <2>1. ASSUME NEW h \in Helper, TimerTimeout(h) PROVE FALSE
    BY <2>1, Zenon DEF TimerTimeout, HelperFail, JobRetry, JobFree, JobComplete, jobVars, IInv, TypeOK
  <2>2. ASSUME NEW h \in Helper, TimerDrain(h) \/ TimerRecover(h) \/ TimerNext(h) PROVE FALSE
    BY <2>2, Zenon DEF TimerDrain, TimerRecover, TimerNext, jobVars
  <2>3. ASSUME NEW f \in Entry, RetryDue(f) PROVE FALSE
    BY <2>3, SMTT(30) DEF RetryDue, IInv, TypeOK
  <2>4. CASE EventsNext \/ RetriesDone \/ DispatchDone
    BY <2>4, Zenon DEF EventsNext, RetriesDone, DispatchDone, jobVars
  <2>5. ASSUME NEW h \in Helper, Dispatch(h) PROVE ~QueueEmpty /\ e = Head(queue[FirstQueue])
    <3>1. ~QueueEmpty
      BY <2>5, Zenon DEF Dispatch, CanAssign
    <3>2. Head(queue[FirstQueue]) \in Entry
      BY <3>1, DispatchHead
    <3> QED
      BY <2>5, <3>1, <3>2, ZenonT(40) DEF Dispatch, AssignOk, AssignRetry, AssignComplete, AssignIo, JobRetry, JobFree, JobComplete, IInv, TypeOK
  <2> QED
    BY <1>3, <2>1, <2>2, <2>3, <2>4, <2>5, Zenon DEF Running
<1>4. CASE Clock
  BY <1>4, Zenon DEF Clock, JobDeadline, CacheExpire, HelperDeadline, jobVars
<1> QED
  BY <1>1, <1>2, <1>3, <1>4, Zenon DEF Next

\* The priority of a queued job says whether anyone waits for it interactively.
LEMMA QueuedPriority ==
    ASSUME IInv, NEW e \in Entry, jobState[e] = "QUEUED"
    PROVE  priority[e] = "BACKGROUND" <=> interest[e]["INTERACTIVE"] = 0
<1>1. interest[e]["INTERACTIVE"] \in Nat /\ priority[e] \in Priority
  BY SupervisorAssumption, SMTT(30) DEF IInv, TypeOK, Priority
<1>2. priority[e] = "INTERACTIVE" <=> interest[e]["INTERACTIVE"] > 0
  BY Zenon DEF IInv, InterestsRuleJobs, Live
<1> QED
  BY <1>1, <1>2 DEF Priority

\* A job that nobody waits for goes to a helper only when no one waits for any
\* queued job (job_queue_first, and the moves between the two queues).
THEOREM InteractiveGoesFirst == Spec => InteractiveFirst
<1>1. ASSUME IInv, [Next]_vars PROVE [InteractiveFirstStep]_vars
  <2> SUFFICES ASSUME Next, NEW e \in Entry, Taken(e), interest[e]["INTERACTIVE"] = 0,
                      NEW f \in Entry, jobState[f] = "QUEUED"
               PROVE  interest[f]["INTERACTIVE"] = 0
    BY <1>1 DEF InteractiveFirstStep, Taken
  <2>1. ~QueueEmpty /\ e = Head(queue[FirstQueue])
    BY <1>1, OnlyDispatchTakes, Zenon
  <2>2. e \in Queued(FirstQueue)
    BY <1>1, <2>1, DispatchHead, Zenon
  <2>3. FirstQueue = "BACKGROUND"
    BY <1>1, <2>2, QueuedPriority, Zenon DEF Queued, Taken
  <2>4. Queued("INTERACTIVE") = {}
    BY <1>1, <2>3, EmptyQueue, ZenonT(40) DEF FirstQueue, Priority
  <2>5. priority[f] = "BACKGROUND"
    BY <1>1, <2>4 DEF Queued, IInv, TypeOK, Priority
  <2> QED
    BY <1>1, <2>5, QueuedPriority, ZenonT(40)
<1> QED
  BY <1>1, Inductive, PTL DEF Spec, InteractiveFirst

-----------------------------------------------------------------------------
(* The ledger *)

LedgerStep == [Ledger!Next]_(Ledger!ledger)

-----------------------------------------------------------------------------
(* The refinement mapping *)

\* The two modules mean the same by no interest.
LEMMA SameNames == Ledger!Kind = Priority /\ Ledger!NoInterest = NoInterest
BY DEF Ledger!Kind, Ledger!NoInterest, Priority, NoInterest

\* The phase of an entry.
LEMMA PhaseOf ==
    ASSUME NEW e \in Entry
    PROVE  /\ jobState[e] = "NONE" => LedgerPhase[e] = "none"
           /\ jobState[e] = "COMPLETE" => LedgerPhase[e] = "complete"
           /\ Live(e) => LedgerPhase[e] = "active"
BY DEF LedgerPhase, Live

\* Moving a live job between queues, helpers and retries is no step of the
\* ledger.
LEMMA PhaseSame ==
    ASSUME \A e \in Entry : jobState'[e] = jobState[e] \/ (Live(e) /\ Live(e)')
    PROVE  LedgerPhase' = LedgerPhase
BY DEF LedgerPhase, Live

\* A step that changes the state of one job.
LEMMA PhaseChange ==
    ASSUME NEW e \in Entry, NEW ph,
           \A f \in Entry \ {e} : jobState'[f] = jobState[f],
           \/ jobState'[e] = "NONE" /\ ph = "none"
           \/ jobState'[e] = "COMPLETE" /\ ph = "complete"
           \/ Live(e)' /\ ph = "active"
    PROVE  LedgerPhase' = [LedgerPhase EXCEPT ![e] = ph]
BY Zenon DEF LedgerPhase, Live

\* Nothing the ledger speaks of changes.
LEMMA LedgerStutter ==
    ASSUME \A e \in Entry : jobState'[e] = jobState[e] \/ (Live(e) /\ Live(e)'),
           UNCHANGED <<interest, completion, cached, shuttingDown>>
    PROVE  LedgerStep
<1>1. LedgerPhase' = LedgerPhase
  BY PhaseSame
<1> QED
  BY <1>1, Zenon DEF LedgerStep, Ledger!ledger

-----------------------------------------------------------------------------
(* How queries end *)

\* An orphan is destroyed: nobody holds an interest in it.
LEMMA FreeDrops ==
    ASSUME IInv, NEW e \in Entry, orphaned[e], JobFree(e),
           NEW c \in BOOLEAN, cached' = [cached EXCEPT ![e] = c],
           UNCHANGED <<completion, shuttingDown>>
    PROVE  LedgerStep
<1>1. Live(e) /\ interest[e] = NoInterest
  BY ZenonT(40) DEF IInv, InterestsRuleJobs, Live
<1>2. LedgerPhase[e] = "active" /\ LedgerPhase' = [LedgerPhase EXCEPT ![e] = "none"]
  <2>1. jobState'[e] = "NONE" /\ \A f \in Entry \ {e} : jobState'[f] = jobState[f]
    BY Zenon DEF JobFree, IInv, TypeOK
  <2> QED
    BY <1>1, <2>1, PhaseOf, PhaseChange, ZenonT(40)
<1>3. interest' = interest
  BY <1>1 DEF JobFree, IInv, TypeOK
<1>4. Ledger!Drop(e)
  BY <1>1, <1>2, <1>3, SameNames, Zenon DEF Ledger!Drop, Ledger!Wanted
<1> QED
  BY <1>4, SMTT(30) DEF LedgerStep, Ledger!Next

\* A job somebody wants completes.
LEMMA CompleteCompletes ==
    ASSUME IInv, NEW e \in Entry, Live(e), ~orphaned[e], JobComplete(e),
           NEW c \in BOOLEAN, cached' = [cached EXCEPT ![e] = c],
           UNCHANGED shuttingDown
    PROVE  LedgerStep
<1>1. interest[e] # NoInterest
  BY SMTT(30) DEF IInv, InterestsRuleJobs
<1>2. LedgerPhase[e] = "active" /\ LedgerPhase' = [LedgerPhase EXCEPT ![e] = "complete"]
  <2>1. jobState'[e] = "COMPLETE" /\ \A f \in Entry \ {e} : jobState'[f] = jobState[f]
    BY DEF JobComplete, IInv, TypeOK
  <2> QED
    BY <2>1, PhaseOf, PhaseChange, ZenonT(40)
<1>3. Ledger!Complete(e)
  BY <1>1, <1>2, SameNames, Zenon DEF Ledger!Complete, Ledger!Wanted, JobComplete
<1> QED
  BY <1>3 DEF LedgerStep, Ledger!Next

\* An attempt fails: the job waits for its retry, completes, or was an orphan.
LEMMA RetrySteps ==
    ASSUME IInv, NEW e \in Entry, Live(e), JobRetry(e), UNCHANGED <<cached, shuttingDown>>
    PROVE  LedgerStep
<1>1. cached[e] \in BOOLEAN /\ cached' = [cached EXCEPT ![e] = cached[e]]
  BY DEF IInv, TypeOK
<1>2. CASE orphaned[e] /\ JobFree(e) /\ UNCHANGED completion
  BY <1>1, <1>2, FreeDrops, Zenon
<1>3. CASE /\ jobState' = [jobState EXCEPT ![e] = "RETRY_WAIT"]
           /\ UNCHANGED <<interest, priority, orphaned, completion>>
  <2>1. \A f \in Entry : jobState'[f] = jobState[f] \/ (Live(f) /\ Live(f)')
    BY <1>3 DEF Live, IInv, TypeOK
  <2> QED
    BY <1>3, <2>1, LedgerStutter, Zenon
<1>4. CASE ~orphaned[e] /\ JobComplete(e)
  BY <1>1, <1>4, CompleteCompletes, Zenon
<1> QED
  BY <1>2, <1>3, <1>4, SMTT(30) DEF JobRetry

-----------------------------------------------------------------------------
(* The calls *)

\* STARTED or COALESCED: one more interest in an active query.
LEMMA ScheduleSteps ==
    ASSUME IInv, NEW e \in Entry, NEW p \in Priority, Schedule(e, p)
    PROVE  LedgerStep
<1>1. /\ ~shuttingDown /\ ~cached[e]
      /\ UNCHANGED <<completion, cached, shuttingDown>>
  BY Zenon DEF Schedule, ViewEmpty
<1>2. /\ LedgerPhase[e] # "complete"
      /\ LedgerPhase' = [LedgerPhase EXCEPT ![e] = "active"]
  <2>1. /\ jobState[e] # "COMPLETE" /\ Live(e)'
        /\ \A f \in Entry \ {e} : jobState'[f] = jobState[f]
    BY ZenonT(40) DEF Schedule, Start, Coalesce, Live, IInv, TypeOK
  <2>2. LedgerPhase[e] # "complete"
    BY <2>1, Zenon DEF LedgerPhase
  <2> QED
    BY <2>1, <2>2, PhaseChange, Zenon
<1>3. /\ interest[e][p] < InterestLimit
      /\ interest' = [interest EXCEPT ![e][p] = @ + 1]
  <2>1. CASE Start(e, p)
    <3>1. interest[e] = NoInterest /\ interest[e][p] = 0
      BY <2>1 DEF Start, IInv, InterestsRuleJobs, Live, NoInterest
    <3>2. interest' = [interest EXCEPT ![e][p] = 1]
      BY <2>1, Zenon DEF Start
    <3> QED
      BY <3>1, <3>2, SupervisorAssumption, SMTT(30)
  <2>2. CASE Coalesce(e, p)
    BY <2>2, Zenon DEF Coalesce
  <2> QED
    BY <2>1, <2>2, Zenon DEF Schedule
<1>4. Ledger!Schedule(e, p)
  BY <1>1, <1>2, <1>3, Zenon DEF Ledger!Schedule
<1> QED
  BY <1>4, SameNames, Zenon DEF LedgerStep, Ledger!Next

\* One interest less; without any, a job that is not in flight is gone.
LEMMA ReleaseSteps ==
    ASSUME IInv, NEW e \in Entry, NEW p \in Priority, Release(e, p)
    PROVE  LedgerStep
<1> DEFINE left == [interest EXCEPT ![e][p] = @ - 1]
<1>1. /\ ~shuttingDown /\ interest[e][p] > 0 /\ Live(e)
      /\ UNCHANGED <<completion, cached, shuttingDown>>
  BY ZenonT(40) DEF Release
<1>2. LedgerPhase[e] = "active"
  BY <1>1, PhaseOf
<1>3. CASE interest[e]["INTERACTIVE"] + interest[e]["BACKGROUND"] = 1
  <2>1. ReleaseLast(e) /\ interest' = [interest EXCEPT ![e] = NoInterest]
    BY <1>3, Zenon DEF Release, ReleaseLast, JobFree
  <2>2. [interest[e] EXCEPT ![p] = @ - 1] = NoInterest
    <3>1. interest[e] \in [Priority -> Nat]
      BY SupervisorAssumption, SMTT(30) DEF IInv, TypeOK
    <3>2. \A k \in Priority : [interest[e] EXCEPT ![p] = @ - 1][k] = 0
      <4> DEFINE a == interest[e]["INTERACTIVE"]
                 b == interest[e]["BACKGROUND"]
      <4>1. a \in Nat /\ b \in Nat /\ a + b = 1 /\ (p = "INTERACTIVE" => a > 0) /\ (p = "BACKGROUND" => b > 0)
        BY <1>1, <1>3, <3>1, Zenon DEF Priority
      <4>2. p = "INTERACTIVE" \/ p = "BACKGROUND"
        BY Zenon DEF Priority
      <4> HIDE DEF a, b
      <4>3. (p = "INTERACTIVE" => a - 1 = 0 /\ b = 0) /\ (p = "BACKGROUND" => a = 0 /\ b - 1 = 0)
        BY <4>1
      <4>4. \A k \in Priority : [interest[e] EXCEPT ![p] = @ - 1][k] = IF k = p THEN interest[e][p] - 1 ELSE interest[e][k]
        BY <3>1, Zenon
      <4> QED
        BY <4>2, <4>3, <4>4, Zenon DEF a, b, Priority
    <3> QED
      BY <3>1, <3>2, SMTT(30) DEF NoInterest
  <2>3. interest' = left /\ interest'[e] = NoInterest
    BY <2>1, <2>2, Zenon DEF IInv, TypeOK
  <2>4. CASE jobState[e] = "DISPATCHED"
    <3>1. LedgerPhase' = LedgerPhase
      BY <2>1, <2>4, PhaseSame DEF ReleaseLast
    <3> QED
      BY <1>1, <1>2, <2>3, <3>1, SameNames, ZenonT(40) DEF LedgerStep, Ledger!Next, Ledger!Release
  <2>5. CASE jobState[e] # "DISPATCHED"
    <3>1. jobState'[e] = "NONE" /\ \A f \in Entry \ {e} : jobState'[f] = jobState[f]
      BY <2>1, <2>5, SMTT(30) DEF ReleaseLast, JobFree, IInv, TypeOK
    <3>2. LedgerPhase' = [LedgerPhase EXCEPT ![e] = "none"]
      BY <3>1, PhaseChange, Zenon
    <3> QED
      BY <1>1, <1>2, <2>3, <3>2, SameNames, ZenonT(40) DEF LedgerStep, Ledger!Next, Ledger!Release
  <2> QED
    BY <2>4, <2>5, Zenon
<1>4. CASE interest[e]["INTERACTIVE"] + interest[e]["BACKGROUND"] # 1
  <2>1. interest' = left /\ UNCHANGED jobState
    BY <1>4 DEF Release, ReleaseOne
  <2>2. LedgerPhase' = LedgerPhase
    BY <2>1, PhaseSame
  <2> QED
    BY <1>1, <1>2, <2>1, <2>2, SameNames, ZenonT(40) DEF LedgerStep, Ledger!Next, Ledger!Release
<1> QED
  BY <1>3, <1>4, SMTT(30)

\* The oldest completion is taken; its interests are gone already.
LEMMA TakeSteps ==
    ASSUME IInv, CompletionTake
    PROVE  LedgerStep
<1> DEFINE e == Head(completion)
<1>1. completion # <<>> /\ completion \in Seq(Entry) /\ Lists(completion, Finished)
  BY DEF CompletionTake, IInv, TypeOK, ListsMatchStates
<1>2. e \in Finished /\ e \in Entry
  BY <1>1, TailLists, Zenon
<1>3. JobFree(e) /\ completion' = Tail(completion) /\ UNCHANGED <<cached, shuttingDown>>
  BY Zenon DEF CompletionTake
<1> HIDE DEF e
<1>4. LedgerPhase' = [LedgerPhase EXCEPT ![e] = "none"]
  <2>1. jobState'[e] = "NONE" /\ \A f \in Entry \ {e} : jobState'[f] = jobState[f]
    BY <1>2, <1>3, Zenon DEF JobFree, IInv, TypeOK
  <2> QED
    BY <1>2, <2>1, PhaseChange, Zenon
<1>5. interest' = interest
  BY <1>2, <1>3, Zenon DEF JobFree, Finished, IInv, TypeOK, InterestsRuleJobs, Live
<1>6. Ledger!Take
  BY <1>1, <1>3, <1>4, <1>5 DEF Ledger!Take, e
<1> QED
  BY <1>6, Zenon DEF LedgerStep, Ledger!Next

\* Everything ends at a shutdown.
LEMMA ShutdownSteps ==
    ASSUME Shutdown
    PROVE  LedgerStep
<1>1. LedgerPhase' = [e \in Entry |-> "none"]
  BY DEF Shutdown, LedgerPhase
<1>2. Ledger!Shutdown
  BY <1>1, SameNames, Zenon DEF Ledger!Shutdown, Shutdown
<1> QED
  BY <1>2 DEF LedgerStep, Ledger!Next

-----------------------------------------------------------------------------
(* The helpers *)

\* A delayed request is sent, or its attempt ends.
LEMMA WritableSteps ==
    ASSUME IInv, NEW h \in Helper, HelperWritable(h)
    PROVE  LedgerStep
<1>0. helper[h] = "SENDING" /\ helperJob[h] # None
  BY DEF HelperWritable, IInv, HelpersHoldJobs
<1> PICK e \in Entry : e = helperJob[h]
  BY <1>0 DEF IInv, TypeOK
<1>1. Live(e) /\ ~orphaned[e] /\ UNCHANGED <<cached, shuttingDown>>
  BY <1>0, ZenonT(40) DEF HelperWritable, IInv, HelpersHoldJobs, InterestsRuleJobs, Live
<1>2. CASE /\ jobState' = [jobState EXCEPT ![e] = "DISPATCHED"]
           /\ UNCHANGED <<interest, completion>>
  <2>1. \A f \in Entry : jobState'[f] = jobState[f] \/ (Live(f) /\ Live(f)')
    BY <1>1, <1>2, SMTT(30) DEF Live, IInv, TypeOK
  <2> QED
    BY <1>1, <1>2, <2>1, LedgerStutter, ZenonT(40)
<1>3. CASE JobRetry(e)
  BY <1>1, <1>3, RetrySteps, Zenon
<1>4. CASE JobComplete(e)
  <2>1. cached[e] \in BOOLEAN /\ cached' = [cached EXCEPT ![e] = cached[e]]
    BY <1>1, SMTT(30) DEF IInv, TypeOK
  <2> QED
    BY <1>1, <1>4, <2>1, CompleteCompletes, Zenon
<1> QED
  BY <1>2, <1>3, <1>4, Zenon DEF HelperWritable

\* An answer completes the query, or is kept though nobody waits for it.
LEMMA ResultSteps ==
    ASSUME IInv, NEW h \in Helper, HelperResult(h)
    PROVE  LedgerStep
<1>0. helper[h] = "BUSY" /\ helperJob[h] # None
  BY DEF HelperResult, IInv, HelpersHoldJobs
<1> PICK e \in Entry : e = helperJob[h]
  BY <1>0 DEF IInv, TypeOK
<1>1. Live(e) /\ UNCHANGED shuttingDown
  BY <1>0, Zenon DEF HelperResult, IInv, HelpersHoldJobs, Live
<1>2. CASE JobRetry(e) /\ UNCHANGED cached
  BY <1>1, <1>2, RetrySteps, SMTT(30)
<1>3. CASE /\ cached' \in {cached, [cached EXCEPT ![e] = TRUE], [cached EXCEPT ![e] = FALSE]}
           /\ \/ orphaned[e] /\ JobFree(e) /\ UNCHANGED completion
              \/ ~orphaned[e] /\ JobComplete(e)
  <2>1. cached[e] \in BOOLEAN /\ cached = [cached EXCEPT ![e] = cached[e]]
    BY DEF IInv, TypeOK
  <2>2. PICK c \in BOOLEAN : cached' = [cached EXCEPT ![e] = c]
    BY <1>3, <2>1, Zenon
  <2>3. CASE orphaned[e] /\ JobFree(e) /\ UNCHANGED completion
    BY <1>1, <2>2, <2>3, FreeDrops, Zenon
  <2>4. CASE ~orphaned[e] /\ JobComplete(e)
    BY <1>1, <2>2, <2>4, CompleteCompletes, Zenon
  <2> QED
    BY <1>3, <2>3, <2>4, ZenonT(40)
<1> QED
  BY <1>2, <1>3, ZenonT(40) DEF HelperResult

\* A helper that fails costs its query at most this attempt.
LEMMA FailSteps ==
    ASSUME IInv, NEW h \in Helper, HelperFail(h), UNCHANGED shuttingDown
    PROVE  LedgerStep
<1>1. CASE helperJob[h] = None
  <2>1. UNCHANGED jobVars
    BY <1>1, ZenonT(40) DEF HelperFail
  <2> QED
    BY <2>1, LedgerStutter, SMTT(30) DEF jobVars
<1>2. CASE helperJob[h] # None
  <2> PICK e \in Entry : e = helperJob[h]
    BY <1>2, Zenon DEF IInv, TypeOK
  <2>1. Live(e)
    BY <1>2, Zenon DEF IInv, HelpersHoldJobs, Live
  <2>2. CASE JobRetry(e) /\ UNCHANGED cached
    BY <2>1, <2>2, RetrySteps, Zenon
  <2>3. CASE /\ jobState' = [jobState EXCEPT ![e] = "QUEUED"]
             /\ UNCHANGED <<interest, completion, cached>>
    <3>1. \A f \in Entry : jobState'[f] = jobState[f] \/ (Live(f) /\ Live(f)')
      BY <2>1, <2>3, Zenon DEF Live, IInv, TypeOK
    <3> QED
      BY <2>3, <3>1, LedgerStutter, Zenon
  <2> QED
    BY <1>2, <2>2, <2>3, Zenon DEF HelperFail
<1> QED
  BY <1>1, <1>2

\* The head of the queue is sent, put back, retried or given up.
LEMMA DispatchSteps ==
    ASSUME IInv, NEW h \in Helper, Dispatch(h)
    PROVE  LedgerStep
<1>0. ~QueueEmpty /\ UNCHANGED <<cached, shuttingDown>>
  BY DEF Dispatch, CanAssign
<1> PICK e \in Entry : e = Head(queue[FirstQueue])
  BY <1>0, DispatchHead, Zenon
<1>1. jobState[e] = "QUEUED" /\ Live(e) /\ ~orphaned[e]
  <2>1. jobState[e] = "QUEUED"
    BY <1>0, DispatchHead, Zenon DEF Queued
  <2> QED
    BY <2>1, Zenon DEF IInv, InterestsRuleJobs, Live
<1>2. CASE AssignOk(h, e)
  <2>1. /\ \E x \in {"DISPATCHED", "SENDING"} : jobState' = [jobState EXCEPT ![e] = x]
        /\ UNCHANGED <<interest, completion>>
    BY <1>2 DEF AssignOk
  <2>2. \A f \in Entry : jobState'[f] = jobState[f] \/ (Live(f) /\ Live(f)')
    BY <1>1, <2>1, ZenonT(40) DEF Live, IInv, TypeOK
  <2> QED
    BY <1>0, <2>1, <2>2, LedgerStutter, Zenon
<1>3. CASE JobRetry(e)
  BY <1>0, <1>1, <1>3, RetrySteps
<1>4. CASE JobComplete(e)
  <2>1. cached[e] \in BOOLEAN /\ cached' = [cached EXCEPT ![e] = cached[e]]
    BY <1>0 DEF IInv, TypeOK
  <2> QED
    BY <1>0, <1>1, <1>4, <2>1, CompleteCompletes, ZenonT(40)
<1>5. CASE UNCHANGED <<jobState, interest, completion>>
  BY <1>0, <1>5, LedgerStutter, Zenon
<1> QED
  BY <1>2, <1>3, <1>4, <1>5 DEF Dispatch, AssignRetry, AssignComplete, AssignIo

-----------------------------------------------------------------------------
(* Everything else *)

\* The phases of a call, the helpers' own timers and the deadlines are none of
\* the ledger's business.
LEMMA QuietSteps ==
    ASSUME \/ EventsByTimer \/ EventsByHelper \/ EventsNext
           \/ RetriesDone \/ DispatchDone
           \/ \E h \in Helper : TimerDrain(h) \/ TimerRecover(h) \/ TimerNext(h) \/ HelperDeadline(h)
           \/ \E e \in Entry : JobDeadline(e)
           \/ UNCHANGED vars
    PROVE  LedgerStep
<1>1. UNCHANGED <<jobState, interest, completion, cached, shuttingDown>>
  BY Zenon DEF EventsByTimer, EventsByHelper, EventsBegin, EventsNext, RetriesDone, DispatchDone,
         TimerDrain, TimerRecover, TimerNext, HelperDeadline, JobDeadline, vars, jobVars
<1> QED
  BY <1>1, LedgerStutter, SMTT(30)

\* A retry that is due goes back to its queue.
LEMMA RetryDueSteps ==
    ASSUME IInv, NEW e \in Entry, RetryDue(e)
    PROVE  LedgerStep
<1>1. \A f \in Entry : jobState'[f] = jobState[f] \/ (Live(f) /\ Live(f)')
  BY DEF RetryDue, Live, IInv, TypeOK
<1> QED
  BY <1>1, LedgerStutter, ZenonT(40) DEF RetryDue

\* A cached answer's time runs out.
LEMMA ExpireSteps ==
    ASSUME NEW e \in Entry, CacheExpire(e)
    PROVE  LedgerStep
<1>1. LedgerPhase' = LedgerPhase
  BY PhaseSame, ZenonT(40) DEF CacheExpire
<1>2. Ledger!Expire(e)
  BY <1>1 DEF CacheExpire, Ledger!Expire
<1> QED
  BY <1>2, SMTT(30) DEF LedgerStep, Ledger!Next

\* Every step of the supervisor is a step of its contract, or none.
LEMMA NextSteps ==
    ASSUME IInv, [Next]_vars
    PROVE  LedgerStep
<1>1. CASE Call
  BY <1>1, ScheduleSteps, ReleaseSteps, TakeSteps, ShutdownSteps, QuietSteps, Zenon DEF Call
<1>2. CASE \E h \in Helper : HelperStep(h)
  <2> PICK h \in Helper : HelperStep(h)
    BY <1>2
  <2>1. CASE HelperFault(h)
    <3>1. CASE HelperFail(h)
      BY <2>1, <3>1, FailSteps, Zenon DEF HelperFault
    <3>2. CASE UNCHANGED jobVars
      BY <2>1, <3>2, LedgerStutter, Zenon DEF HelperFault, jobVars
    <3> QED
      BY <2>1, <3>1, <3>2, Zenon DEF HelperFault
  <2> QED
    BY <2>1, WritableSteps, ResultSteps DEF HelperStep
<1>3. CASE Running
  <2>1. ASSUME NEW h \in Helper, TimerTimeout(h) PROVE LedgerStep
    <3>1. CASE HelperFail(h)
      BY <2>1, <3>1, FailSteps, Zenon DEF TimerTimeout
    <3>2. CASE UNCHANGED jobVars
      BY <2>1, <3>2, LedgerStutter, ZenonT(40) DEF TimerTimeout, jobVars
    <3> QED
      BY <2>1, <3>1, <3>2, Zenon DEF TimerTimeout
  <2> QED
    BY <1>3, <2>1, QuietSteps, RetryDueSteps, DispatchSteps, Zenon DEF Running
<1>4. CASE Clock
  BY <1>4, QuietSteps, ExpireSteps DEF Clock
<1>5. CASE UNCHANGED vars
  BY <1>5, QuietSteps
<1> QED
  BY <1>1, <1>2, <1>3, <1>4, <1>5, Zenon DEF Next

\* Behind its queues, helpers, retries, respawns and timers supervisor.c keeps
\* the contract of supervisor.h: one query per entry, counted interests, a
\* completion exactly when a wanted query ends, completions in order.
THEOREM ContractKept == Spec => KeepsContract
<1>1. Init => Ledger!Init
  BY SameNames DEF Init, Ledger!Init, LedgerPhase
<1>2. IInv /\ [Next]_vars => [Ledger!Next]_(Ledger!ledger)
  BY NextSteps DEF LedgerStep
<1> QED
  BY <1>1, <1>2, Inductive, PTL DEF Spec, KeepsContract, Ledger!Spec

=============================================================================

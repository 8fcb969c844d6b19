-------------------------- MODULE SupervisorLemmas --------------------------
(***************************************************************************)
(* The inductive invariant of Supervisor.tla; what its lists, jobs and     *)
(* helpers do in the steps that several calls share; and that the calls of *)
(* the listener (schedule, release, completion_take, shutdown) keep it.    *)
(***************************************************************************)
EXTENDS Supervisor, SequenceTheorems, TLAPS

-----------------------------------------------------------------------------
(* What the operations on the job lists do to the set of jobs listed *)

\* A list without jobs.
LEMMA EmptyLists ==
    ASSUME NEW T
    PROVE  <<>> \in Seq(T) /\ Lists(<<>>, {})
BY DEF Lists, IsInjective, Range

\* A list lists nothing only if it is empty (job_queue_first finds no head).
LEMMA ListsNothing ==
    ASSUME NEW T, NEW S, NEW q \in Seq(T), Lists(q, S)
    PROVE  /\ S \subseteq T
           /\ q = <<>> <=> S = {}
<1>1. S \subseteq T
  BY RangeOfSeq DEF Lists
<1>2. q = <<>> => S = {}
  BY DEF Lists, Range
<1>3. q # <<>> => S # {}
  <2> SUFFICES ASSUME q # <<>> PROVE q[1] \in S
    OBVIOUS
  <2>1. 1 \in DOMAIN q
    BY EmptySeq, LenProperties
  <2> QED
    BY <2>1 DEF Lists, Range
<1> QED
  BY <1>1, <1>2, <1>3

\* job_queue_append of a job that is not listed yet.
LEMMA AppendLists ==
    ASSUME NEW T, NEW S, NEW q \in Seq(T), NEW e \in T, Lists(q, S), e \notin S
    PROVE  /\ Append(q, e) \in Seq(T)
           /\ Append(q, e) # <<>>
           /\ Lists(Append(q, e), S \cup {e})
<1> DEFINE r == Append(q, e)
<1>1. /\ r \in Seq(T)
      /\ r # <<>>
      /\ Len(r) = Len(q) + 1
      /\ \A i \in 1..Len(q) : r[i] = q[i]
      /\ r[Len(q) + 1] = e
  BY AppendProperties
<1>2. /\ Len(q) \in Nat
      /\ DOMAIN q = 1..Len(q)
      /\ DOMAIN r = 1..(Len(q) + 1)
  BY <1>1, LenProperties
<1> HIDE DEF r
<1>3. Range(r) = S \cup {e}
  BY <1>1, <1>2 DEF Lists, Range
<1>4. IsInjective(r)
  BY <1>1, <1>2 DEF Lists, Range, IsInjective
<1> QED
  BY <1>1, <1>3, <1>4 DEF r, Lists

\* job_queue_prepend of a job that is not listed yet.
LEMMA ConsLists ==
    ASSUME NEW T, NEW S, NEW q \in Seq(T), NEW e \in T, Lists(q, S), e \notin S
    PROVE  /\ Cons(e, q) \in Seq(T)
           /\ Lists(Cons(e, q), S \cup {e})
<1> DEFINE r == Cons(e, q)
<1>1. /\ r \in Seq(T)
      /\ Len(r) = 1 + Len(q)
      /\ \A i \in 1..(1 + Len(q)) : r[i] = IF i <= 1 THEN e ELSE q[i - 1]
  <2>1. <<e>> \in Seq(T) /\ Len(<<e>>) = 1 /\ <<e>>[1] = e
    OBVIOUS
  <2> QED
    BY <2>1, ConcatProperties DEF Cons
<1>2. /\ Len(q) \in Nat
      /\ DOMAIN q = 1..Len(q)
      /\ DOMAIN r = 1..(1 + Len(q))
      /\ r[1] = e
  BY <1>1, LenProperties
<1>3. ASSUME NEW i \in DOMAIN r, i # 1 PROVE i - 1 \in DOMAIN q /\ r[i] = q[i - 1]
  BY <1>1, <1>2, <1>3
<1> HIDE DEF r
<1>4. Range(r) = S \cup {e}
  <2>1. ASSUME NEW i \in DOMAIN r PROVE r[i] \in S \cup {e}
    BY <1>2, <1>3 DEF Lists, Range
  <2>2. ASSUME NEW i \in DOMAIN q PROVE i + 1 \in DOMAIN r /\ r[i + 1] = q[i]
    BY <1>1, <1>2
  <2>3. 1 \in DOMAIN r
    BY <1>2
  <2> QED
    BY <1>2, <2>1, <2>2, <2>3 DEF Lists, Range
<1>5. IsInjective(r)
  <2> SUFFICES ASSUME NEW i \in DOMAIN r, NEW j \in DOMAIN r, r[i] = r[j] PROVE i = j
    BY DEF IsInjective
  <2>1. CASE i # 1 /\ j # 1
    <3>1. q[i - 1] = q[j - 1] /\ i - 1 \in DOMAIN q /\ j - 1 \in DOMAIN q
      BY <1>3, <2>1
    <3>2. i - 1 = j - 1
      BY <3>1 DEF Lists, IsInjective
    <3> QED
      BY <1>2, <3>2
  <2>2. CASE i = 1 \/ j = 1
    <3>1. ASSUME NEW k \in DOMAIN r, k # 1 PROVE r[k] # e
      BY <1>3, <3>1 DEF Lists, Range
    <3> QED
      BY <1>2, <2>2, <3>1
  <2> QED
    BY <2>1, <2>2
<1> QED
  BY <1>1, <1>4, <1>5 DEF r, Lists

\* job_queue_remove (or completion_take) of the head.
LEMMA TailLists ==
    ASSUME NEW T, NEW S, NEW q \in Seq(T), Lists(q, S), q # <<>>
    PROVE  /\ Head(q) \in S
           /\ Head(q) \in T
           /\ Tail(q) \in Seq(T)
           /\ Lists(Tail(q), S \ {Head(q)})
<1> DEFINE r == Tail(q)
<1>1. /\ r \in Seq(T)
      /\ Len(r) = Len(q) - 1
      /\ \A i \in 1..Len(r) : r[i] = q[i + 1]
      /\ Head(q) = q[1]
      /\ Head(q) \in T
  BY HeadTailProperties
<1>2. /\ Len(q) \in Nat \ {0}
      /\ DOMAIN q = 1..Len(q)
      /\ DOMAIN r = 1..(Len(q) - 1)
      /\ \A i \in 1..(Len(q) - 1) : r[i] = q[i + 1]
  BY <1>1, LenProperties, EmptySeq
<1> HIDE DEF r
<1>3. Range(r) = S \ {q[1]}
  <2>1. ASSUME NEW i \in DOMAIN r PROVE r[i] \in S \ {q[1]}
    BY <1>2 DEF Lists, Range, IsInjective
  <2>2. ASSUME NEW i \in DOMAIN q, i # 1 PROVE i - 1 \in DOMAIN r /\ r[i - 1] = q[i]
    BY <1>2, <2>2
  <2> QED
    BY <2>1, <2>2 DEF Lists, Range
<1>4. IsInjective(r)
  <2> SUFFICES ASSUME NEW i \in DOMAIN r, NEW j \in DOMAIN r, r[i] = r[j] PROVE i = j
    BY DEF IsInjective
  <2>1. q[i + 1] = q[j + 1] /\ i + 1 \in DOMAIN q /\ j + 1 \in DOMAIN q
    BY <1>2
  <2>2. i + 1 = j + 1
    BY <2>1 DEF Lists, IsInjective
  <2> QED
    BY <1>2, <2>2
<1>5. q[1] \in S
  BY <1>2 DEF Lists, Range
<1> QED
  BY <1>1, <1>3, <1>4, <1>5 DEF r, Lists

\* job_queue_remove of any listed job.
LEMMA WithoutLists ==
    ASSUME NEW T, NEW S, NEW q \in Seq(T), NEW e \in S, Lists(q, S)
    PROVE  /\ Without(q, e) \in Seq(T)
           /\ Lists(Without(q, e), S \ {e})
<1> DEFINE i == CHOOSE j \in DOMAIN q : q[j] = e
           n == Len(q)
           a == SubSeq(q, 1, i - 1)
           b == SubSeq(q, i + 1, n)
           r == a \o b
<1>1. n \in Nat /\ DOMAIN q = 1..n /\ \A j \in 1..n : q[j] \in T
  BY LenProperties
<1>2. i \in 1..n /\ q[i] = e
  BY <1>1 DEF Lists, Range
<1>3. r = Without(q, e)
  BY DEF Without, RemoveAt
<1> HIDE DEF i, n
<1>4. /\ a \in Seq(T)
      /\ Len(a) = i - 1
      /\ \A j \in 1..(i - 1) : a[j] = q[j]
  BY <1>1, <1>2, SubSeqProperties
<1>5. /\ b \in Seq(T)
      /\ Len(b) = n - i
      /\ \A j \in 1..(n - i) : b[j] = q[i + j]
  BY <1>1, <1>2, SubSeqProperties
<1> HIDE DEF a, b
<1>6. /\ r \in Seq(T)
      /\ Len(r) = n - 1
      /\ \A j \in 1..(n - 1) : r[j] = IF j <= i - 1 THEN a[j] ELSE b[j - (i - 1)]
  <2>1. /\ r \in Seq(T)
        /\ Len(r) = Len(a) + Len(b)
        /\ \A j \in 1..(Len(a) + Len(b)) : r[j] = IF j <= Len(a) THEN a[j] ELSE b[j - Len(a)]
    BY <1>4, <1>5, ConcatProperties, Zenon
  <2>2. Len(a) + Len(b) = n - 1
    BY <1>1, <1>2, <1>4, <1>5
  <2> QED
    BY <1>4, <2>1, <2>2
<1> HIDE DEF r
<1>7. DOMAIN r = 1..(n - 1)
  BY <1>6, LenProperties
<1>8. ASSUME NEW j \in 1..(n - 1) PROVE r[j] = IF j < i THEN q[j] ELSE q[j + 1]
  <2>1. CASE j < i
    <3>1. j \in 1..(i - 1) /\ j <= i - 1
      BY <1>1, <1>2, <2>1
    <3> QED
      BY <1>4, <1>6, <2>1, <3>1
  <2>2. CASE ~(j < i)
    <3>1. j - (i - 1) \in 1..(n - i) /\ ~(j <= i - 1) /\ i + (j - (i - 1)) = j + 1
      BY <1>1, <1>2, <2>2
    <3> QED
      BY <1>5, <1>6, <2>2, <3>1
  <2> QED
    BY <2>1, <2>2
<1>9. Range(r) = S \ {e}
  <2>1. ASSUME NEW j \in 1..(n - 1) PROVE r[j] \in S \ {e}
    <3>1. j \in DOMAIN q /\ j + 1 \in DOMAIN q
      BY <1>1
    <3>2. \A k \in DOMAIN q : q[k] \in S /\ (q[k] = e => k = i)
      BY <1>1, <1>2 DEF Lists, Range, IsInjective
    <3> QED
      BY <1>1, <1>2, <1>8, <3>1, <3>2
  <2>2. ASSUME NEW k \in DOMAIN q, q[k] # e PROVE \E j \in 1..(n - 1) : r[j] = q[k]
    <3>1. CASE k < i
      BY <1>1, <1>2, <1>8, <3>1
    <3>2. CASE k > i
      <4>1. k - 1 \in 1..(n - 1) /\ ~(k - 1 < i) /\ (k - 1) + 1 = k
        BY <1>1, <1>2, <3>2
      <4> QED
        BY <1>8, <4>1
    <3> QED
      BY <1>1, <1>2, <2>2, <3>1, <3>2
  <2> QED
    BY <1>7, <2>1, <2>2 DEF Lists, Range
<1>10. IsInjective(r)
  <2> SUFFICES ASSUME NEW j \in 1..(n - 1), NEW k \in 1..(n - 1), r[j] = r[k] PROVE j = k
    BY <1>7 DEF IsInjective
  <2> DEFINE up(m) == IF m < i THEN m ELSE m + 1
  <2>1. up(j) \in DOMAIN q /\ up(k) \in DOMAIN q /\ q[up(j)] = q[up(k)]
    BY <1>1, <1>2, <1>8
  <2>2. up(j) = up(k)
    BY <2>1 DEF Lists, IsInjective
  <2> QED
    BY <1>1, <1>2, <2>2
<1> QED
  BY <1>3, <1>6, <1>9, <1>10 DEF Lists

-----------------------------------------------------------------------------
(* The inductive invariant *)

IInv ==
    /\ TypeOK
    /\ ListsMatchStates
    /\ HelpersHoldJobs
    /\ InterestsRuleJobs
    /\ NoQueryWhileCached
    /\ ShutdownIsQuiet

-----------------------------------------------------------------------------
(* The lists *)

\* The queues do not notice a step that neither queues nor unqueues a job.
LEMMA QueueFrame ==
    ASSUME \A p \in Priority : Lists(queue[p], Queued(p)),
           UNCHANGED queue,
           \A e \in Entry : /\ jobState'[e] = "QUEUED" <=> jobState[e] = "QUEUED"
                            /\ jobState[e] = "QUEUED" => priority'[e] = priority[e]
    PROVE  \A p \in Priority : Lists(queue'[p], Queued(p)')
<1> SUFFICES ASSUME NEW p \in Priority PROVE Lists(queue'[p], Queued(p)')
  OBVIOUS
<1>1. Queued(p)' = Queued(p)
  BY DEF Queued
<1> QED
  BY <1>1

\* The same for the completion list.
LEMMA CompletionFrame ==
    ASSUME Lists(completion, Finished),
           UNCHANGED completion,
           \A e \in Entry : jobState'[e] = "COMPLETE" <=> jobState[e] = "COMPLETE"
    PROVE  Lists(completion', Finished')
<1>1. Finished' = Finished
  BY DEF Finished
<1> QED
  BY <1>1

\* A job that was on no queue is appended or prepended to the queue of its
\* priority.
LEMMA QueueEnter ==
    ASSUME TypeOK, \A p \in Priority : Lists(queue[p], Queued(p)),
           NEW e \in Entry, NEW r \in Priority,
           jobState[e] # "QUEUED", jobState'[e] = "QUEUED", priority'[e] = r,
           \A f \in Entry \ {e} : jobState'[f] = jobState[f] /\ priority'[f] = priority[f],
           \/ queue' = [queue EXCEPT ![r] = Append(@, e)]
           \/ queue' = [queue EXCEPT ![r] = Cons(e, @)]
    PROVE  /\ queue' \in [Priority -> Seq(Entry)]
           /\ \A p \in Priority : Lists(queue'[p], Queued(p)')
<1>1. queue \in [Priority -> Seq(Entry)] /\ queue[r] \in Seq(Entry) /\ Lists(queue[r], Queued(r))
  BY DEF TypeOK
<1>2. e \notin Queued(r)
  BY DEF Queued
<1>3. /\ queue'[r] \in Seq(Entry)
      /\ Lists(queue'[r], Queued(r) \cup {e})
      /\ \A p \in Priority \ {r} : queue'[p] = queue[p]
      /\ queue' \in [Priority -> Seq(Entry)]
  <2>1. /\ Append(queue[r], e) \in Seq(Entry) /\ Lists(Append(queue[r], e), Queued(r) \cup {e})
        /\ Cons(e, queue[r]) \in Seq(Entry) /\ Lists(Cons(e, queue[r]), Queued(r) \cup {e})
    BY <1>1, <1>2, AppendLists, ConsLists, Zenon
  <2>2. CASE queue' = [queue EXCEPT ![r] = Append(@, e)]
    BY <1>1, <2>1, <2>2
  <2>3. CASE queue' = [queue EXCEPT ![r] = Cons(e, @)]
    BY <1>1, <2>1, <2>3
  <2> QED
    BY <2>2, <2>3
<1>4. ASSUME NEW p \in Priority PROVE Lists(queue'[p], Queued(p)')
  <2>1. Queued(p)' = IF p = r THEN Queued(r) \cup {e} ELSE Queued(p)
    BY DEF Queued
  <2> QED
    BY <1>3, <2>1
<1> QED
  BY <1>3, <1>4

\* A queued job leaves its queue.
LEMMA QueueLeave ==
    ASSUME TypeOK, \A p \in Priority : Lists(queue[p], Queued(p)),
           NEW e \in Entry, NEW r \in Priority, NEW q,
           jobState[e] = "QUEUED", priority[e] = r, jobState'[e] # "QUEUED",
           \A f \in Entry \ {e} : jobState'[f] = jobState[f] /\ priority'[f] = priority[f],
           queue' = [queue EXCEPT ![r] = q], q \in Seq(Entry), Lists(q, Queued(r) \ {e})
    PROVE  /\ queue' \in [Priority -> Seq(Entry)]
           /\ \A p \in Priority : Lists(queue'[p], Queued(p)')
<1>1. queue \in [Priority -> Seq(Entry)]
  BY DEF TypeOK
<1>2. /\ queue'[r] = q
      /\ \A p \in Priority \ {r} : queue'[p] = queue[p]
      /\ queue' \in [Priority -> Seq(Entry)]
  BY <1>1
<1>3. ASSUME NEW p \in Priority PROVE Lists(queue'[p], Queued(p)')
  <2>1. Queued(p)' = IF p = r THEN Queued(r) \ {e} ELSE Queued(p)
    BY DEF Queued
  <2> QED
    BY <1>2, <2>1
<1> QED
  BY <1>2, <1>3

\* A queued job changes its priority and moves to the tail of the other queue.
LEMMA QueueMove ==
    ASSUME TypeOK, \A p \in Priority : Lists(queue[p], Queued(p)),
           NEW e \in Entry, NEW s \in Priority, NEW r \in Priority, r # s,
           jobState[e] = "QUEUED", priority[e] = s, UNCHANGED jobState,
           priority' = [priority EXCEPT ![e] = r],
           queue' = [queue EXCEPT ![s] = Without(@, e), ![r] = Append(@, e)]
    PROVE  /\ queue' \in [Priority -> Seq(Entry)]
           /\ \A p \in Priority : Lists(queue'[p], Queued(p)')
<1>1. /\ queue \in [Priority -> Seq(Entry)]
      /\ queue[r] \in Seq(Entry) /\ Lists(queue[r], Queued(r))
      /\ queue[s] \in Seq(Entry) /\ Lists(queue[s], Queued(s))
      /\ priority \in [Entry -> Priority]
  BY DEF TypeOK
<1>2. e \in Queued(s) /\ e \notin Queued(r)
  BY DEF Queued
<1>3. Without(queue[s], e) \in Seq(Entry) /\ Lists(Without(queue[s], e), Queued(s) \ {e})
  BY <1>1, <1>2, WithoutLists, Zenon
<1>4. Append(queue[r], e) \in Seq(Entry) /\ Lists(Append(queue[r], e), Queued(r) \cup {e})
  BY <1>1, <1>2, AppendLists
<1>5. /\ queue'[s] = Without(queue[s], e)
      /\ queue'[r] = Append(queue[r], e)
      /\ \A p \in Priority \ {r, s} : queue'[p] = queue[p]
  BY <1>1
<1>6. queue' \in [Priority -> Seq(Entry)]
  BY <1>1, <1>3, <1>4
<1>7. ASSUME NEW p \in Priority PROVE Lists(queue'[p], Queued(p)')
  <2>1. Queued(p)' = IF p = r THEN Queued(r) \cup {e}
                     ELSE IF p = s THEN Queued(s) \ {e} ELSE Queued(p)
    BY <1>1 DEF Queued
  <2> QED
    BY <1>3, <1>4, <1>5, <2>1, Zenon
<1> QED
  BY <1>6, <1>7

\* job_complete puts the job at the end of the completion list.
LEMMA CompletionEnter ==
    ASSUME TypeOK, Lists(completion, Finished), NEW e \in Entry,
           jobState[e] # "COMPLETE", jobState'[e] = "COMPLETE",
           \A f \in Entry \ {e} : jobState'[f] = jobState[f],
           completion' = Append(completion, e)
    PROVE  completion' \in Seq(Entry) /\ Lists(completion', Finished')
<1>1. completion \in Seq(Entry) /\ e \notin Finished
  BY DEF TypeOK, Finished
<1>2. Finished' = Finished \cup {e}
  BY DEF Finished
<1> QED
  BY <1>1, <1>2, AppendLists

-----------------------------------------------------------------------------
(* Parts of steps *)

\* However an unfinished job ends its attempt (freed, completed or made to
\* wait), the jobs stay well-formed.  Completing an orphan is not allowed.
LEMMA AttemptEnds ==
    ASSUME IInv, NEW e \in Entry, Live(e),
           \/ JobFree(e) /\ UNCHANGED completion
           \/ JobComplete(e) /\ ~orphaned[e]
           \/ JobRetry(e)
    PROVE  /\ jobState' \in [Entry -> JobState]
           /\ interest' \in [Entry -> [Priority -> 0..InterestLimit]]
           /\ priority' \in [Entry -> Priority]
           /\ orphaned' \in [Entry -> BOOLEAN]
           /\ jobDue' \in [Entry -> BOOLEAN]
           /\ completion' \in Seq(Entry)
           /\ \A f \in Entry \ {e} : jobState'[f] = jobState[f] /\ priority'[f] = priority[f]
           /\ jobState'[e] \in {"NONE", "COMPLETE", "RETRY_WAIT"}
           /\ Lists(completion', Finished')
           /\ InterestsRuleJobs'
<1> USE DEF IInv
<1>0. /\ NoInterest \in [Priority -> 0..InterestLimit]
      /\ jobState[e] # "COMPLETE"
  BY SupervisorAssumption DEF NoInterest, Live
<1>1. CASE JobFree(e) /\ UNCHANGED completion
  <2>1. \A f \in Entry : jobState'[f] = "COMPLETE" <=> jobState[f] = "COMPLETE"
    BY <1>0, <1>1 DEF JobFree, TypeOK
  <2>2. Lists(completion', Finished')
    BY <1>1, <2>1, CompletionFrame DEF ListsMatchStates
  <2>3. InterestsRuleJobs'
    BY <1>1 DEF JobFree, InterestsRuleJobs, TypeOK, Live
  <2> QED
    BY <1>0, <1>1, <2>2, <2>3, Zenon DEF JobFree, TypeOK, JobState, Priority
<1>2. CASE JobComplete(e) /\ ~orphaned[e]
  <2>1. completion' \in Seq(Entry) /\ Lists(completion', Finished')
    <3>1. /\ jobState'[e] = "COMPLETE"
          /\ \A f \in Entry \ {e} : jobState'[f] = jobState[f]
          /\ completion' = Append(completion, e)
      BY <1>2, Zenon DEF JobComplete, TypeOK
    <3> QED
      BY <1>0, <3>1, CompletionEnter DEF ListsMatchStates
  <2>2. InterestsRuleJobs'
    BY <1>2, Zenon DEF JobComplete, InterestsRuleJobs, TypeOK, Live
  <2> QED
    BY <1>0, <1>2, <2>1, <2>2, Zenon DEF JobComplete, TypeOK, JobState
<1>3. CASE /\ ~orphaned[e]
           /\ jobState' = [jobState EXCEPT ![e] = "RETRY_WAIT"]
           /\ jobDue' = [jobDue EXCEPT ![e] = FALSE]
           /\ UNCHANGED <<interest, priority, orphaned, completion>>
  <2>1. \A f \in Entry : jobState'[f] = "COMPLETE" <=> jobState[f] = "COMPLETE"
    BY <1>0, <1>3 DEF TypeOK
  <2>2. Lists(completion', Finished')
    BY <1>3, <2>1, CompletionFrame, Zenon DEF ListsMatchStates
  <2>3. InterestsRuleJobs'
    BY <1>3, Zenon DEF InterestsRuleJobs, TypeOK, Live
  <2> QED
    BY <1>3, <2>2, <2>3, Zenon DEF TypeOK, JobState
<1> QED
  BY <1>1, <1>2, <1>3, Zenon DEF JobRetry

\* A helper gives up the job it holds, if any, while that job leaves the
\* helper's hands.
LEMMA HelperLetsGo ==
    ASSUME IInv, NEW h \in Helper, NEW x \in {"IDLE", "BACKOFF", "STOPPED"},
           helper' = [helper EXCEPT ![h] = x],
           JobDetach(h),
           \A f \in Entry : f # helperJob[h] => jobState'[f] = jobState[f],
           helperJob[h] # None => jobState'[helperJob[h]] \notin {"DISPATCHED", "SENDING"}
    PROVE  /\ HelpersHoldJobs'
           /\ helperJob' \in [Helper -> Entry \cup {None}]
<1> USE DEF IInv
<1>1. /\ helper'[h] = x /\ helperJob'[h] = None
      /\ \A g \in Helper \ {h} : helper'[g] = helper[g] /\ helperJob'[g] = helperJob[g]
      /\ helperJob' \in [Helper -> Entry \cup {None}]
      /\ helperJob \in [Helper -> Entry \cup {None}]
  BY Zenon DEF JobDetach, TypeOK
<1>2. \A g \in Helper : /\ helper'[g] \in {"BUSY", "SENDING"} <=> helperJob'[g] # None
                        /\ helper'[g] = "BUSY" => jobState'[helperJob'[g]] = "DISPATCHED"
                        /\ helper'[g] = "SENDING" => jobState'[helperJob'[g]] = "SENDING"
  BY <1>1, SupervisorAssumption DEF HelpersHoldJobs
<1>3. \A f \in Entry :
         jobState'[f] \in {"DISPATCHED", "SENDING"} => \E g \in Helper : helperJob'[g] = f
  BY <1>1, SupervisorAssumption DEF HelpersHoldJobs
<1>4. \A f, g \in Helper : helperJob'[f] = helperJob'[g] /\ f # g => helperJob'[f] = None
  BY <1>1 DEF HelpersHoldJobs
<1> QED
  BY <1>1, <1>2, <1>3, <1>4, Zenon DEF HelpersHoldJobs

\* A helper holds a job that no other helper holds.
LEMMA HelperTakes ==
    ASSUME IInv, NEW h \in Helper, NEW e \in Entry,
           \A g \in Helper \ {h} : helperJob[g] # e,
           helperJob[h] \in {None, e},
           helperJob' = [helperJob EXCEPT ![h] = e],
           \/ helper' = [helper EXCEPT ![h] = "BUSY"] /\ jobState'[e] = "DISPATCHED"
           \/ helper' = [helper EXCEPT ![h] = "SENDING"] /\ jobState'[e] = "SENDING",
           \A f \in Entry \ {e} : jobState'[f] = jobState[f]
    PROVE  HelpersHoldJobs'
<1> USE DEF IInv
<1>1. /\ helperJob'[h] = e /\ e # None
      /\ \A g \in Helper \ {h} : helper'[g] = helper[g] /\ helperJob'[g] = helperJob[g]
      /\ \A g \in Helper : helperJob[g] \in Entry \cup {None}
      /\ \/ helper'[h] = "BUSY" /\ jobState'[e] = "DISPATCHED"
         \/ helper'[h] = "SENDING" /\ jobState'[e] = "SENDING"
  BY SupervisorAssumption, Zenon DEF TypeOK
<1>2. ASSUME NEW g \in Helper
      PROVE  /\ helper'[g] \in {"BUSY", "SENDING"} <=> helperJob'[g] # None
             /\ helper'[g] = "BUSY" => jobState'[helperJob'[g]] = "DISPATCHED"
             /\ helper'[g] = "SENDING" => jobState'[helperJob'[g]] = "SENDING"
  <2>1. CASE g = h
    BY <1>1, <2>1, Zenon
  <2>2. CASE g # h
    <3>1. helper'[g] = helper[g] /\ helperJob'[g] = helperJob[g] /\ helperJob[g] # e
      BY <1>1, <2>2
    <3>2. helperJob[g] # None => jobState'[helperJob[g]] = jobState[helperJob[g]]
      BY <1>1, <3>1
    <3> QED
      BY <3>1, <3>2 DEF HelpersHoldJobs
  <2> QED
    BY <2>1, <2>2
<1>3. ASSUME NEW f \in Entry, jobState'[f] \in {"DISPATCHED", "SENDING"}
      PROVE  \E g \in Helper : helperJob'[g] = f
  <2>1. CASE f = e
    BY <1>1, <2>1
  <2>2. CASE f # e
    <3>1. PICK g \in Helper : helperJob[g] = f
      BY <1>3, <2>2, Zenon DEF HelpersHoldJobs
    <3>2. f # None
      BY SupervisorAssumption, Zenon
    <3> QED
      BY <1>1, <2>2, <3>1, <3>2, Zenon
  <2> QED
    BY <2>1, <2>2, Zenon
<1>4. \A f, g \in Helper : helperJob'[f] = helperJob'[g] /\ f # g => helperJob'[f] = None
  BY <1>1 DEF HelpersHoldJobs
<1> QED
  BY <1>2, <1>3, <1>4, Zenon DEF HelpersHoldJobs

\* What helper_respawn_schedule does to a helper.
LEMMA RespawnEffect ==
    ASSUME TypeOK, NEW h \in Helper, RespawnSchedule(h)
    PROVE  /\ \E x \in {"BACKOFF", "STOPPED"} : /\ helper' = [helper EXCEPT ![h] = x]
                                                /\ shuttingDown => x = "STOPPED"
           /\ helper' \in [Helper -> HelperState]
           /\ helperDue' \in [Helper -> BOOLEAN]
           /\ failures' \in [Helper -> 0..FailureLimit]
           /\ successes' \in [Helper -> 0..ResetSuccesses]
<1>1. \A n \in 0..FailureLimit : OneMoreFailure(n) \in 0..FailureLimit
  BY SupervisorAssumption DEF OneMoreFailure
<1>2. 0 \in 0..ResetSuccesses
  BY SupervisorAssumption
<1>3. CASE shuttingDown
  BY <1>2, <1>3, Zenon DEF RespawnSchedule, TypeOK, HelperState
<1>4. CASE ~shuttingDown
  <2>1. HelperBackoff(h)
    BY <1>4 DEF RespawnSchedule
  <2>2. helperDue' \in [Helper -> BOOLEAN]
    BY <2>1 DEF HelperBackoff, TypeOK
  <2> QED
    BY <1>1, <1>2, <1>4, <2>1, <2>2, Zenon DEF HelperBackoff, TypeOK, HelperState
<1> QED
  BY <1>3, <1>4

-----------------------------------------------------------------------------
(* Schedule, release, completion, shutdown *)

\* entry_schedule_priority: a job is started, or an existing one gains an interest.
LEMMA ScheduleInv ==
    ASSUME IInv, NEW e \in Entry, NEW p \in Priority, Schedule(e, p)
    PROVE  IInv'
<1> USE DEF IInv
<1>1. CASE Start(e, p)
  <2>1. queue' \in [Priority -> Seq(Entry)] /\ \A r \in Priority : Lists(queue'[r], Queued(r)')
    <3>1. /\ jobState[e] # "QUEUED" /\ jobState'[e] = "QUEUED" /\ priority'[e] = p
          /\ \A f \in Entry \ {e} : jobState'[f] = jobState[f] /\ priority'[f] = priority[f]
          /\ queue' = [queue EXCEPT ![p] = Append(@, e)]
      BY <1>1, Zenon DEF Start, TypeOK
    <3> QED
      BY <3>1, QueueEnter, Zenon DEF ListsMatchStates
  <2>2. Lists(completion', Finished')
    <3>1. UNCHANGED completion
      BY DEF Schedule
    <3>2. \A f \in Entry : jobState'[f] = "COMPLETE" <=> jobState[f] = "COMPLETE"
      BY <1>1, Zenon DEF Start, TypeOK
    <3> QED
      BY <3>1, <3>2, CompletionFrame DEF ListsMatchStates
  <2>3. TypeOK'
    BY <1>1, <2>1, SupervisorAssumption, SMTT(60)
    DEF Schedule, Start, TypeOK, JobState, Phase, helperVars, timerVars
  <2>4. HelpersHoldJobs'
    BY <1>1, SMTT(30) DEF Schedule, Start, TypeOK, HelpersHoldJobs, helperVars
  <2>5. InterestsRuleJobs'
    BY <1>1 DEF Schedule, Start, TypeOK, InterestsRuleJobs, Live, NoInterest, Priority
  <2>6. NoQueryWhileCached' /\ ShutdownIsQuiet'
    BY <1>1, Zenon DEF Schedule, Start, TypeOK, NoQueryWhileCached, ViewEmpty, ShutdownIsQuiet, Live
  <2> QED
    BY <2>1, <2>2, <2>3, <2>4, <2>5, <2>6 DEF ListsMatchStates
<1>2. CASE Coalesce(e, p)
  <2>1. queue' \in [Priority -> Seq(Entry)] /\ \A r \in Priority : Lists(queue'[r], Queued(r)')
    <3>1. CASE p = "INTERACTIVE" /\ priority[e] = "BACKGROUND" /\ jobState[e] = "QUEUED"
      BY <1>2, <3>1, QueueMove, Zenon DEF Coalesce, ListsMatchStates, Priority
    <3>2. CASE ~(p = "INTERACTIVE" /\ priority[e] = "BACKGROUND" /\ jobState[e] = "QUEUED")
      <4>1. /\ UNCHANGED queue
            /\ \A f \in Entry : /\ jobState'[f] = "QUEUED" <=> jobState[f] = "QUEUED"
                                /\ jobState[f] = "QUEUED" => priority'[f] = priority[f]
        BY <1>2, <3>2 DEF Coalesce, TypeOK
      <4> QED
        BY <4>1, QueueFrame, Zenon DEF ListsMatchStates, TypeOK
    <3> QED
      BY <3>1, <3>2, Zenon
  <2>2. Lists(completion', Finished')
    <3>1. UNCHANGED <<completion, jobState>>
      BY <1>2 DEF Schedule, Coalesce
    <3> QED
      BY <3>1, CompletionFrame, Zenon DEF ListsMatchStates
  <2>3. TypeOK'
    <3>1. interest[e][p] + 1 \in 0..InterestLimit
      <4>1. interest[e][p] \in 0..InterestLimit
        BY DEF TypeOK
      <4>2. interest[e][p] < InterestLimit
        BY <1>2, Zenon DEF Coalesce
      <4> QED
        BY <4>1, <4>2, SupervisorAssumption
    <3>2. interest' \in [Entry -> [Priority -> 0..InterestLimit]]
      BY <1>2, <3>1, Zenon DEF Coalesce, TypeOK
    <3>3. priority' \in [Entry -> Priority] /\ orphaned' \in [Entry -> BOOLEAN]
      BY <1>2, Zenon DEF Coalesce, Adopt, TypeOK, Priority
    <3> QED
      BY <1>2, <2>1, <3>2, <3>3, Zenon DEF Schedule, Coalesce, TypeOK, helperVars, timerVars
  <2>4. HelpersHoldJobs'
    BY <1>2, SMTT(30) DEF Schedule, Coalesce, HelpersHoldJobs, helperVars
  <2>5. InterestsRuleJobs'
    <3>1. \A f \in Entry \ {e} : /\ interest'[f] = interest[f] /\ priority'[f] = priority[f]
                                 /\ orphaned'[f] = orphaned[f] /\ jobState'[f] = jobState[f]
      BY <1>2, Zenon DEF Coalesce, Adopt, TypeOK
    <3>2. /\ interest'[e][p] = interest[e][p] + 1
          /\ \A q \in Priority \ {p} : interest'[e][q] = interest[e][q]
          /\ ~orphaned'[e] /\ jobState'[e] = jobState[e]
          /\ priority'[e] = IF p = "INTERACTIVE" THEN "INTERACTIVE" ELSE priority[e]
      BY <1>2 DEF Coalesce, Adopt, TypeOK, Priority
    <3>3. interest'[e] # NoInterest /\ interest[e][p] \in Nat
      <4>1. interest[e][p] \in Nat
        BY DEF TypeOK
      <4>2. interest[e][p] + 1 # 0
        BY <4>1
      <4>3. interest'[e][p] # NoInterest[p]
        BY <3>2, <4>2, Zenon DEF NoInterest
      <4> QED
        BY <4>1, <4>3, Zenon
    <3>4. Live(e) /\ Live(e)' /\ \A f \in Entry \ {e} : Live(f)' = Live(f)
      BY <1>2, <3>1, <3>2, SMTT(30) DEF Coalesce, Live
    <3>5. priority'[e] = "INTERACTIVE" <=> interest'[e]["INTERACTIVE"] > 0
      <4>1. interest[e]["INTERACTIVE"] \in Nat
        BY DEF TypeOK, Priority
      <4>2. CASE p = "INTERACTIVE"
        <5>1. priority'[e] = "INTERACTIVE" /\ interest'[e]["INTERACTIVE"] = interest[e]["INTERACTIVE"] + 1
          BY <3>2, <4>2, Zenon
        <5>2. interest[e]["INTERACTIVE"] + 1 > 0
          BY <4>1
        <5> QED
          BY <5>1, <5>2, Zenon
      <4>3. CASE p # "INTERACTIVE"
        <5>1. "INTERACTIVE" \in Priority \ {p}
          BY <4>3, Zenon DEF Priority
        <5>2. priority'[e] = priority[e] /\ interest'[e]["INTERACTIVE"] = interest[e]["INTERACTIVE"]
          BY <3>2, <4>3, <5>1, Zenon
        <5>3. priority[e] = "INTERACTIVE" <=> interest[e]["INTERACTIVE"] > 0
          BY <3>4, Zenon DEF InterestsRuleJobs
        <5> QED
          BY <5>2, <5>3, Zenon
      <4> QED
        BY <4>2, <4>3, Zenon
    <3> QED
      BY <3>1, <3>2, <3>3, <3>4, <3>5, ZenonT(40) DEF InterestsRuleJobs, NoInterest
  <2>6. NoQueryWhileCached' /\ ShutdownIsQuiet'
    BY <1>2, Zenon DEF Schedule, Coalesce, NoQueryWhileCached, ShutdownIsQuiet, Live
  <2> QED
    BY <2>1, <2>2, <2>3, <2>4, <2>5, <2>6 DEF ListsMatchStates
<1> QED
  BY <1>1, <1>2 DEF Schedule
\* entry_release when nobody wants the job any more.
LEMMA ReleaseLastInv ==
    ASSUME IInv, NEW e \in Entry, NEW p \in Priority, Release(e, p),
           interest[e]["INTERACTIVE"] + interest[e]["BACKGROUND"] = 1
    PROVE  IInv'
<1> USE DEF IInv
<1>0. /\ ReleaseLast(e) /\ Live(e) /\ ~shuttingDown
      /\ UNCHANGED <<completion, cached, cursor, idsLeft, shuttingDown, timerVars,
                     helperDue, failures, successes>>
      /\ pc' = "dispatch"
  BY Zenon DEF Release
<1>1. CASE jobState[e] = "DISPATCHED"
  <2>1. /\ interest' = [interest EXCEPT ![e] = NoInterest]
        /\ orphaned' = [orphaned EXCEPT ![e] = TRUE]
        /\ priority' = [priority EXCEPT ![e] = "BACKGROUND"]
        /\ UNCHANGED <<jobState, jobDue, queue, helper, helperJob>>
    BY <1>0, <1>1, Zenon DEF ReleaseLast
  <2>2. ListsMatchStates'
    <3>1. \A f \in Entry : jobState[f] = "QUEUED" => priority'[f] = priority[f]
      BY <1>1, <2>1, Zenon DEF TypeOK
    <3> QED
      BY <1>0, <2>1, <3>1, QueueFrame, CompletionFrame, Zenon DEF ListsMatchStates
  <2>3. TypeOK'
    BY <1>0, <2>1, SupervisorAssumption, SMTT(30) DEF TypeOK, NoInterest, Priority, Phase, timerVars
  <2>4. HelpersHoldJobs' /\ NoQueryWhileCached' /\ ShutdownIsQuiet'
    BY <1>0, <2>1, ZenonT(40) DEF HelpersHoldJobs, NoQueryWhileCached, ShutdownIsQuiet, Live
  <2>5. InterestsRuleJobs'
    <3>1. /\ interest'[e] = NoInterest /\ orphaned'[e] /\ priority'[e] = "BACKGROUND"
          /\ NoInterest["INTERACTIVE"] = 0
          /\ \A f \in Entry \ {e} : /\ interest'[f] = interest[f]
                                    /\ orphaned'[f] = orphaned[f]
                                    /\ priority'[f] = priority[f]
      BY <2>1 DEF TypeOK, NoInterest, Priority
    <3>2. \A f \in Entry : jobState'[f] = jobState[f] /\ Live(f)' = Live(f)
      BY <2>1 DEF Live
    <3>3. NoInterest' = NoInterest
      BY Zenon DEF NoInterest
    <3>4. Live(e) /\ \A f \in Entry \ {e} :
              /\ orphaned[f] => jobState[f] = "DISPATCHED"
              /\ Live(f) => (orphaned[f] <=> interest[f] = NoInterest)
              /\ Live(f) => (priority[f] = "INTERACTIVE" <=> interest[f]["INTERACTIVE"] > 0)
              /\ ~Live(f) => interest[f] = NoInterest
      BY <1>0, Zenon DEF InterestsRuleJobs
    <3>5. ASSUME NEW f \in Entry
          PROVE  /\ orphaned'[f] => jobState'[f] = "DISPATCHED"
                 /\ Live(f)' => (orphaned'[f] <=> interest'[f] = NoInterest)
                 /\ Live(f)' => (priority'[f] = "INTERACTIVE" <=> interest'[f]["INTERACTIVE"] > 0)
                 /\ ~Live(f)' => interest'[f] = NoInterest
      <4>1. CASE f = e
        <5>1. "BACKGROUND" # "INTERACTIVE" /\ ~(0 > 0)
          OBVIOUS
        <5>2. ~(priority'[f] = "INTERACTIVE") /\ ~(interest'[f]["INTERACTIVE"] > 0)
          BY <3>1, <4>1, <5>1, Zenon
        <5> QED
          BY <1>1, <3>1, <3>2, <4>1, <5>2, Zenon
      <4>2. CASE f # e
        <5>1. /\ orphaned'[f] = orphaned[f] /\ jobState'[f] = jobState[f] /\ Live(f)' = Live(f)
              /\ interest'[f] = interest[f] /\ priority'[f] = priority[f]
          BY <3>1, <3>2, <4>2, Zenon
        <5>2. /\ orphaned[f] => jobState[f] = "DISPATCHED"
              /\ Live(f) => (orphaned[f] <=> interest[f] = NoInterest)
              /\ Live(f) => (priority[f] = "INTERACTIVE" <=> interest[f]["INTERACTIVE"] > 0)
              /\ ~Live(f) => interest[f] = NoInterest
          BY <3>4, <4>2, Zenon
        <5> QED
          BY <5>1, <5>2, Zenon
      <4> QED
        BY <4>1, <4>2, ZenonT(40)
    <3> QED
      BY <3>3, <3>5, Zenon DEF InterestsRuleJobs
  <2> QED
    BY <2>2, <2>3, <2>4, <2>5, Zenon
<1>2. CASE jobState[e] # "DISPATCHED"
  <2>1. /\ JobFree(e) /\ UNCHANGED completion
        /\ queue' = IF jobState[e] = "QUEUED"
                    THEN [queue EXCEPT ![priority[e]] = Without(@, e)]
                    ELSE queue
        /\ helper' = [h \in Helper |-> IF helperJob[h] = e THEN "IDLE" ELSE helper[h]]
        /\ helperJob' = [h \in Helper |-> IF helperJob[h] = e THEN None ELSE helperJob[h]]
    BY <1>0, <1>2 DEF ReleaseLast
  <2>2. /\ jobState' \in [Entry -> JobState]
        /\ interest' \in [Entry -> [Priority -> 0..InterestLimit]]
        /\ priority' \in [Entry -> Priority]
        /\ orphaned' \in [Entry -> BOOLEAN]
        /\ jobDue' \in [Entry -> BOOLEAN]
        /\ completion' \in Seq(Entry)
        /\ \A f \in Entry \ {e} : jobState'[f] = jobState[f] /\ priority'[f] = priority[f]
        /\ Lists(completion', Finished')
        /\ InterestsRuleJobs'
    BY <1>0, <2>1, AttemptEnds, Zenon
  <2>3. jobState'[e] = "NONE"
    BY <2>1, Zenon DEF JobFree, TypeOK
  <2>4. queue' \in [Priority -> Seq(Entry)] /\ \A r \in Priority : Lists(queue'[r], Queued(r)')
    <3>1. CASE jobState[e] = "QUEUED"
      <4>1. PICK r \in Priority : priority[e] = r
        BY Zenon DEF TypeOK
      <4>2. e \in Queued(r) /\ Lists(queue[r], Queued(r)) /\ queue[r] \in Seq(Entry)
        BY <3>1, <4>1, SMTT(30) DEF Queued, ListsMatchStates, TypeOK
      <4>3. /\ Without(queue[r], e) \in Seq(Entry)
            /\ Lists(Without(queue[r], e), Queued(r) \ {e})
        BY <4>2, WithoutLists, ZenonT(40)
      <4>4. queue' = [queue EXCEPT ![r] = Without(queue[r], e)]
        BY <2>1, <3>1, <4>1, ZenonT(40)
      <4> QED
        BY <2>2, <2>3, <3>1, <4>1, <4>3, <4>4, QueueLeave, Zenon DEF ListsMatchStates
    <3>2. CASE jobState[e] # "QUEUED"
      <4>1. /\ UNCHANGED queue
            /\ \A f \in Entry : /\ jobState'[f] = "QUEUED" <=> jobState[f] = "QUEUED"
                                /\ jobState[f] = "QUEUED" => priority'[f] = priority[f]
        BY <2>1, <2>2, <2>3, <3>2, Zenon
      <4> QED
        BY <4>1, QueueFrame, Zenon DEF ListsMatchStates, TypeOK
    <3> QED
      BY <3>1, <3>2
  <2>5. TypeOK'
    BY <1>0, <2>1, <2>2, <2>4, Zenon DEF TypeOK, HelperState, Phase, timerVars
  <2>6. HelpersHoldJobs'
    <3>1. /\ e # None
          /\ \A h \in Helper :
                /\ helper'[h] = IF helperJob[h] = e THEN "IDLE" ELSE helper[h]
                /\ helperJob'[h] = IF helperJob[h] = e THEN None ELSE helperJob[h]
                /\ helperJob[h] \in Entry \cup {None}
      BY <2>1, SupervisorAssumption, Zenon DEF TypeOK
    <3>0. \A f \in Entry \ {e} : jobState'[f] = jobState[f]
      BY <2>2, Zenon
    <3>2. ASSUME NEW h \in Helper
          PROVE  /\ helper'[h] \in {"BUSY", "SENDING"} <=> helperJob'[h] # None
                 /\ helper'[h] = "BUSY" => jobState'[helperJob'[h]] = "DISPATCHED"
                 /\ helper'[h] = "SENDING" => jobState'[helperJob'[h]] = "SENDING"
      <4>1. CASE helperJob[h] = e
        BY <3>1, <4>1, Zenon
      <4>2. CASE helperJob[h] # e
        <5>1. helper'[h] = helper[h] /\ helperJob'[h] = helperJob[h]
          BY <3>1, <4>2, Zenon
        <5>2. helperJob[h] # None => jobState'[helperJob[h]] = jobState[helperJob[h]]
          BY <3>0, <3>1, <4>2, Zenon
        <5> QED
          BY <5>1, <5>2, Zenon DEF HelpersHoldJobs
      <4> QED
        BY <4>1, <4>2, ZenonT(40)
    <3>3. ASSUME NEW f \in Entry, jobState'[f] \in {"DISPATCHED", "SENDING"}
          PROVE  \E h \in Helper : helperJob'[h] = f
      <4>1. f # e /\ jobState[f] \in {"DISPATCHED", "SENDING"}
        BY <2>3, <3>0, <3>3, Zenon
      <4>2. PICK h \in Helper : helperJob[h] = f
        BY <4>1, Zenon DEF HelpersHoldJobs
      <4> QED
        BY <3>1, <4>1, <4>2, Zenon
    <3>4. \A g, h \in Helper : helperJob'[g] = helperJob'[h] /\ g # h => helperJob'[g] = None
      <4>1. \A g, h \in Helper : helperJob[g] = helperJob[h] /\ g # h => helperJob[g] = None
        BY Zenon DEF HelpersHoldJobs
      <4> HIDE DEF IInv
      <4> QED
        BY <3>1, <4>1
    <3> QED
      BY <3>2, <3>3, <3>4, Zenon DEF HelpersHoldJobs
  <2>7. NoQueryWhileCached' /\ ShutdownIsQuiet'
    BY <1>0, <2>2, <2>3, ZenonT(40) DEF NoQueryWhileCached, ShutdownIsQuiet, Live
  <2> QED
    BY <2>2, <2>4, <2>5, <2>6, <2>7, Zenon DEF ListsMatchStates
<1> QED
  BY <1>1, <1>2, Zenon

\* entry_release when other interests remain.
LEMMA ReleaseOneInv ==
    ASSUME IInv, NEW e \in Entry, NEW p \in Priority, Release(e, p),
           interest[e]["INTERACTIVE"] + interest[e]["BACKGROUND"] # 1
    PROVE  IInv'
<1> USE DEF IInv
<1>0. /\ ReleaseOne(e, p) /\ Live(e) /\ interest[e][p] > 0
      /\ UNCHANGED <<completion, cached, cursor, idsLeft, shuttingDown, timerVars,
                     helperDue, failures, successes>>
      /\ pc' = "dispatch"
  BY ZenonT(40) DEF Release
<1>1. /\ interest' = [interest EXCEPT ![e][p] = @ - 1]
      /\ UNCHANGED <<jobState, orphaned, jobDue, helper, helperJob>>
  BY <1>0, Zenon DEF ReleaseOne
<1>2. /\ interest[e][p] \in 0..InterestLimit
      /\ \A q \in Priority : interest[e][q] \in Nat
      /\ interest' \in [Entry -> [Priority -> 0..InterestLimit]]
      /\ interest'[e][p] = interest[e][p] - 1
      /\ \A q \in Priority \ {p} : interest'[e][q] = interest[e][q]
      /\ \A f \in Entry \ {e} : interest'[f] = interest[f]
  <2>1. interest[e][p] \in 0..InterestLimit /\ \A q \in Priority : interest[e][q] \in Nat
    BY DEF TypeOK
  <2>2. interest[e][p] - 1 \in 0..InterestLimit
    <3> DEFINE i == interest[e][p]
    <3>1. i > 0 /\ i \in 0..InterestLimit /\ InterestLimit \in Nat
      BY <1>0, <2>1, SupervisorAssumption, ZenonT(40)
    <3> HIDE DEF i
    <3>2. i - 1 \in 0..InterestLimit
      BY <3>1
    <3> QED
      BY <3>2, Zenon DEF i
  <2> QED
    BY <1>1, <2>1, <2>2, ZenonT(40) DEF TypeOK
<1> DEFINE down == priority[e] = "INTERACTIVE" /\ interest'[e]["INTERACTIVE"] = 0
<1>3. /\ priority' = IF down THEN [priority EXCEPT ![e] = "BACKGROUND"] ELSE priority
      /\ down /\ jobState[e] = "QUEUED" =>
            queue' = [queue EXCEPT !["INTERACTIVE"] = Without(@, e),
                                   !["BACKGROUND"] = Append(@, e)]
      /\ ~(down /\ jobState[e] = "QUEUED") => queue' = queue
  BY <1>0, SMTT(30) DEF ReleaseOne
<1> HIDE DEF down
<1>4. queue' \in [Priority -> Seq(Entry)] /\ \A r \in Priority : Lists(queue'[r], Queued(r)')
  <2>1. CASE down /\ jobState[e] = "QUEUED"
    BY <1>1, <1>3, <2>1, QueueMove, Zenon DEF down, ListsMatchStates, Priority
  <2>2. CASE ~(down /\ jobState[e] = "QUEUED")
    <3>1. /\ UNCHANGED queue
          /\ \A f \in Entry : /\ jobState'[f] = "QUEUED" <=> jobState[f] = "QUEUED"
                              /\ jobState[f] = "QUEUED" => priority'[f] = priority[f]
      BY <1>1, <1>3, <2>2, Zenon DEF TypeOK
    <3> QED
      BY <3>1, QueueFrame, Zenon DEF ListsMatchStates, TypeOK
  <2> QED
    BY <2>1, <2>2, Zenon
<1>5. Lists(completion', Finished')
  BY <1>0, <1>1, CompletionFrame, Zenon DEF ListsMatchStates
<1>6. priority' \in [Entry -> Priority]
  BY <1>3 DEF TypeOK, Priority
<1>7. TypeOK'
  BY <1>0, <1>1, <1>2, <1>4, <1>6, ZenonT(40) DEF TypeOK, Phase, timerVars
<1>8. HelpersHoldJobs' /\ NoQueryWhileCached' /\ ShutdownIsQuiet'
  BY <1>0, <1>1 DEF HelpersHoldJobs, NoQueryWhileCached, ShutdownIsQuiet, Live
<1>9. InterestsRuleJobs'
  <2>1. /\ \A f \in Entry \ {e} : priority'[f] = priority[f]
        /\ priority'[e] = IF down THEN "BACKGROUND" ELSE priority[e]
    BY <1>3 DEF TypeOK
  <2>2. interest'[e]["INTERACTIVE"] + interest'[e]["BACKGROUND"] > 0
    <3> DEFINE a == interest[e]["INTERACTIVE"]
               b == interest[e]["BACKGROUND"]
               c == interest'[e]["INTERACTIVE"]
               d == interest'[e]["BACKGROUND"]
    <3>1. /\ a \in Nat /\ b \in Nat /\ a + b # 1
          /\ \/ a > 0 /\ c = a - 1 /\ d = b
             \/ b > 0 /\ c = a /\ d = b - 1
      BY <1>0, <1>2, Zenon DEF Priority
    <3> HIDE DEF a, b, c, d
    <3>2. c + d > 0
      BY <3>1
    <3> QED
      BY <3>2, Zenon DEF c, d
  <2>3. interest'[e] # NoInterest
    BY <2>2 DEF NoInterest, Priority
  <2>4. interest[e] # NoInterest
    <3>1. NoInterest[p] = 0
      BY Zenon DEF NoInterest
    <3>2. ~(0 > 0)
      OBVIOUS
    <3> QED
      BY <1>0, <3>1, <3>2, Zenon
  <2>5. ~orphaned[e]
    BY <1>0, <2>4, Zenon DEF InterestsRuleJobs
  <2>6. priority'[e] = "INTERACTIVE" <=> interest'[e]["INTERACTIVE"] > 0
    BY <1>0, <1>2, <2>1, SMTT(60) DEF InterestsRuleJobs, down, Priority, TypeOK
  <2>7. \A f \in Entry : Live(f)' = Live(f)
    BY <1>1 DEF Live
  <2>8. \A f \in Entry \ {e} : interest'[f] = interest[f]
    BY <1>2, Zenon
  <2>9. ASSUME NEW f \in Entry
        PROVE  /\ orphaned'[f] => jobState'[f] = "DISPATCHED"
               /\ Live(f)' => (orphaned'[f] <=> interest'[f] = NoInterest)
               /\ Live(f)' => (priority'[f] = "INTERACTIVE" <=> interest'[f]["INTERACTIVE"] > 0)
               /\ ~Live(f)' => interest'[f] = NoInterest
    <3>1. /\ orphaned[f] => jobState[f] = "DISPATCHED"
          /\ Live(f) => (orphaned[f] <=> interest[f] = NoInterest)
          /\ Live(f) => (priority[f] = "INTERACTIVE" <=> interest[f]["INTERACTIVE"] > 0)
          /\ ~Live(f) => interest[f] = NoInterest
      BY Zenon DEF InterestsRuleJobs
    <3>2. orphaned'[f] = orphaned[f] /\ jobState'[f] = jobState[f]
      BY <1>1
    <3>3. Live(f)' = Live(f)
      BY <2>7, Zenon
    <3>4. CASE f = e
      BY <1>0, <2>3, <2>5, <2>6, <3>1, <3>2, <3>3, <3>4, Zenon
    <3>5. CASE f # e
      <4>1. interest'[f] = interest[f] /\ priority'[f] = priority[f]
        BY <2>1, <2>8, <3>5, Zenon
      <4> QED
        BY <3>1, <3>2, <3>3, <4>1, Zenon
    <3> QED
      BY <3>4, <3>5, Zenon
  <2> QED
    BY <2>9, Zenon DEF InterestsRuleJobs, NoInterest
<1> QED
  BY <1>4, <1>5, <1>7, <1>8, <1>9, ZenonT(40) DEF ListsMatchStates

\* completion_take: the oldest completion and its job go together.
LEMMA CompletionTakeInv ==
    ASSUME IInv, CompletionTake
    PROVE  IInv'
<1> USE DEF IInv
<1>0. completion \in Seq(Entry) /\ completion # <<>> /\ Lists(completion, Finished)
  BY DEF CompletionTake, TypeOK, ListsMatchStates
<1> PICK e \in Entry : e = Head(completion)
  BY <1>0, TailLists
<1>1. /\ e \in Finished
      /\ Tail(completion) \in Seq(Entry)
      /\ Lists(Tail(completion), Finished \ {e})
  BY <1>0, TailLists
<1>2. /\ JobFree(e) /\ completion' = Tail(completion)
      /\ UNCHANGED <<queue, cached, helperVars, timerVars, callVars, idsLeft, shuttingDown>>
  BY DEF CompletionTake
<1>3. jobState[e] = "COMPLETE" /\ ~Live(e)
  BY <1>1, Zenon DEF Finished, Live
<1>4. /\ jobState'[e] = "NONE"
      /\ \A f \in Entry \ {e} : jobState'[f] = jobState[f] /\ priority'[f] = priority[f]
  BY <1>2, SMTT(30) DEF JobFree, TypeOK
<1>5. Finished' = Finished \ {e}
  BY <1>4, Zenon DEF Finished
<1>6. \A r \in Priority : Lists(queue'[r], Queued(r)')
  <2>1. /\ UNCHANGED queue
        /\ \A f \in Entry : /\ jobState'[f] = "QUEUED" <=> jobState[f] = "QUEUED"
                            /\ jobState[f] = "QUEUED" => priority'[f] = priority[f]
    BY <1>2, <1>3, <1>4
  <2> QED
    BY <2>1, QueueFrame, Zenon DEF ListsMatchStates
<1>7. TypeOK'
  <2>1. NoInterest \in [Priority -> 0..InterestLimit]
    BY SupervisorAssumption DEF NoInterest
  <2>2. interest' \in [Entry -> [Priority -> 0..InterestLimit]]
    BY <1>2, <2>1, SMTT(30) DEF JobFree, TypeOK
  <2> QED
    BY <1>1, <1>2, <2>2, Zenon DEF JobFree, TypeOK, JobState, Priority, helperVars, timerVars, callVars
<1>8. HelpersHoldJobs' /\ NoQueryWhileCached' /\ ShutdownIsQuiet'
  <2>1. HelpersHoldJobs'
    BY <1>2, <1>3, <1>4, ZenonT(60) DEF HelpersHoldJobs, TypeOK, helperVars
  <2> QED
    BY <1>2, <1>3, <1>4, <2>1, Zenon DEF NoQueryWhileCached, ShutdownIsQuiet, Live, helperVars
<1>9. InterestsRuleJobs'
  BY <1>2 DEF JobFree, InterestsRuleJobs, TypeOK, Live
<1> QED
  BY <1>1, <1>2, <1>5, <1>6, <1>7, <1>8, <1>9, Zenon DEF ListsMatchStates

\* resolver_supervisor_shutdown.
LEMMA ShutdownInv ==
    ASSUME IInv, Shutdown
    PROVE  IInv'
<1> USE DEF IInv
<1>1. PICK due \in DueAfterDelay :
         helperDue' = [h \in Helper |-> IF HelperOpen(h) THEN due ELSE helperDue[h]]
  BY DEF Shutdown
<1>2. due \in BOOLEAN
  BY Zenon DEF DueAfterDelay
<1>3. /\ armedJobs' \in SUBSET Entry /\ armedHelpers' \in SUBSET Helper
      /\ helperDue' \in [Helper -> BOOLEAN]
  BY <1>1, <1>2 DEF Shutdown, TimedJobs, TimedHelpers, TypeOK
<1>4. /\ queue' \in [Priority -> Seq(Entry)] /\ completion' \in Seq(Entry)
      /\ \A p \in Priority : queue'[p] = <<>>
  BY SMTT(30) DEF Shutdown
<1>5. TypeOK'
  BY <1>3, <1>4, SupervisorAssumption, SMTT(60)
  DEF Shutdown, TypeOK, NoInterest, JobState, HelperState, Priority, callVars
<1>6. \A p \in Priority : Queued(p)' = {}
  BY DEF Shutdown, Queued
<1>7. Finished' = {}
  BY DEF Shutdown, Finished
<1>8. ListsMatchStates'
  BY <1>4, <1>6, <1>7, EmptyLists, ZenonT(40) DEF Shutdown, ListsMatchStates
<1>9. HelpersHoldJobs' /\ InterestsRuleJobs' /\ NoQueryWhileCached' /\ ShutdownIsQuiet'
  BY Zenon DEF Shutdown, HelpersHoldJobs, InterestsRuleJobs, NoQueryWhileCached, ShutdownIsQuiet, Live
<1> QED
  BY <1>5, <1>8, <1>9

\* resolver_supervisor_create.
LEMMA InitInv == Init => IInv
<1> SUFFICES ASSUME Init PROVE IInv
  OBVIOUS
<1> USE DEF Init
<1>1. TypeOK
  <2>1. PICK down \in SUBSET Helper :
           /\ helper = [h \in Helper |-> IF h \in down THEN "BACKOFF" ELSE "IDLE"]
           /\ helperDue = [h \in Helper |-> h \in down]
           /\ failures = [h \in Helper |-> IF h \in down THEN 1 ELSE 0]
           /\ armedHelpers = down
    BY Zenon
  <2>2. 1 \in Helper /\ 1 \in 0..FailureLimit /\ 0 \in 0..FailureLimit /\ 0 \in 0..ResetSuccesses
    BY SupervisorAssumption DEF Helper
  <2>3. queue \in [Priority -> Seq(Entry)] /\ completion \in Seq(Entry)
    OBVIOUS
  <2>4. /\ jobState \in [Entry -> JobState]
        /\ interest \in [Entry -> [Priority -> 0..InterestLimit]]
        /\ priority \in [Entry -> Priority]
    BY SupervisorAssumption DEF NoInterest, JobState, Priority
  <2>5. /\ helper \in [Helper -> HelperState]
        /\ helperDue \in [Helper -> BOOLEAN]
        /\ failures \in [Helper -> 0..FailureLimit]
        /\ armedHelpers \in SUBSET Helper
    BY <2>1, <2>2 DEF HelperState
  <2> QED
    BY <2>2, <2>3, <2>4, <2>5, Zenon DEF TypeOK, Phase
<1>2. ListsMatchStates
  <2>1. \A p \in Priority : queue[p] = <<>> /\ Queued(p) = {}
    BY DEF Queued
  <2>2. Finished = {}
    BY DEF Finished
  <2> QED
    BY <2>1, <2>2, EmptyLists, Zenon DEF ListsMatchStates
<1>3. HelpersHoldJobs
  BY Zenon DEF HelpersHoldJobs
<1>4. InterestsRuleJobs /\ NoQueryWhileCached /\ ShutdownIsQuiet
  BY DEF InterestsRuleJobs, NoQueryWhileCached, ShutdownIsQuiet, Live
<1> QED
  BY <1>1, <1>2, <1>3, <1>4 DEF IInv

=============================================================================

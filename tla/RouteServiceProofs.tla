------------------------- MODULE RouteServiceProofs -------------------------
(***************************************************************************)
(* Facts of the connections, generations and queries of RouteService, for  *)
(* any number of connections and entries.                                  *)
(***************************************************************************)
EXTENDS RouteService, FiniteSetTheorems, TLAPS

-----------------------------------------------------------------------------
(* The steps without their alternatives *)

\* An interest of a connection is given back: to a query, or to none.
Leaving(c) == c = cur \/ c \in Doomed
ReturnFlag(c, e) ==
    /\ Leaving(c) /\ e \in has[c]
    /\ Ledger!Release(e, "INTERACTIVE")
    /\ ClearFlag(c, e)
    /\ UNCHANGED <<cacheVars, awaits, overlay, connVars, generationVars, loopVars>>
DropFlag(c, e) ==
    /\ Leaving(c) /\ e \in has[c]
    /\ phase[e] # "active"
    /\ ClearFlag(c, e)
    /\ UNCHANGED <<ledgerVars, cacheVars, awaits, overlay, connVars, generationVars, loopVars>>

\* An interest of a generation that is collected is given back.
ReturnHeld(e) ==
    /\ Collecting /\ e \in held["retired"]
    /\ Ledger!Release(e, "BACKGROUND")
    /\ held' = [held EXCEPT !["retired"] = @ \ {e}]
    /\ UNCHANGED <<cacheVars, waiterVars, connVars, prewarm, retired, runtime, loopVars>>
DropHeld(e) ==
    /\ Collecting /\ e \in held["retired"]
    /\ phase[e] # "active"
    /\ held' = [held EXCEPT !["retired"] = @ \ {e}]
    /\ UNCHANGED <<ledgerVars, cacheVars, waiterVars, connVars, prewarm, retired, runtime, loopVars>>

\* The supervisor refuses to take one back.
RefusedFlag(c, e) ==
    /\ Leaving(c) /\ e \in has[c]
    /\ phase[e] = "active" /\ interest[e]["INTERACTIVE"] = 0
    /\ Fail /\ UNCHANGED cacheVars
RefusedHeld(e) ==
    /\ Collecting /\ e \in held["retired"]
    /\ phase[e] = "active" /\ interest[e]["BACKGROUND"] = 0
    /\ Fail /\ UNCHANGED cacheVars

\* The three answers to a waiter's request.
AskNew(e) ==
    /\ cur # None /\ e \in Needed(cur)
    /\ Ledger!Schedule(e, "INTERACTIVE")
    /\ has' = [has EXCEPT ![cur] = @ \cup {e}]
    /\ UNCHANGED <<cacheVars, awaits, overlay, connVars, generationVars, loopVars>>
AskLate(e) ==
    /\ cur # None /\ e \in Needed(cur)
    /\ phase[e] = "complete"
    /\ awaits' = [awaits EXCEPT ![cur] = @ \cup {e}]
    /\ UNCHANGED <<ledgerVars, cacheVars, has, overlay, connVars, generationVars, loopVars>>
AskRefused(e) ==
    /\ cur # None /\ e \in Needed(cur)
    /\ overlay' = [overlay EXCEPT ![cur][e] = "unavailable"]
    /\ UNCHANGED <<ledgerVars, cacheVars, has, awaits, connVars, generationVars, loopVars>>

\* An entry is prewarmed, or passed over.
PrewarmNew(e) ==
    /\ pc = "schedule" /\ e \in prewarm
    /\ Ledger!Schedule(e, "BACKGROUND")
    /\ prewarm' = prewarm \ {e}
    /\ held' = [held EXCEPT !["active"] = @ \cup {e}]
    /\ UNCHANGED <<cacheVars, waiterVars, connVars, retired, runtime, loopVars>>
PrewarmSkip(e) ==
    /\ pc = "schedule"
    /\ prewarm' = prewarm \ {e}
    /\ UNCHANGED <<ledgerVars, cacheVars, waiterVars, connVars, held, retired, runtime, loopVars>>

\* A reload publishes, or keeps what there is.
ReloadPublish ==
    /\ pc = "reload" /\ ~retired
    /\ reloadPending' = FALSE
    /\ Publish
    /\ UNCHANGED <<ledgerVars, cacheVars, waiterVars, conn, closing, expired, runtime, routeTimer, todo, cur>>
ReloadKeep ==
    /\ pc = "reload" /\ pc' = "schedule"
    /\ reloadPending' \in {reloadPending, FALSE}
    /\ UNCHANGED <<ledgerVars, cacheVars, waiterVars, connVars, generationVars, routeTimer, todo, cur>>

\* A route is settled: its connection goes on, or is to be closed.
LeaveRoute ==
    /\ cur # None /\ has[cur] = {}
    /\ Forget(cur)
    /\ cur' = None
    /\ UNCHANGED <<ledgerVars, cacheVars, has, generationVars, reloadPending, routeTimer, pc, todo>>
CloseRoute ==
    /\ cur # None
    /\ closing' = closing \cup {cur}
    /\ cur' = None
    /\ UNCHANGED <<ledgerVars, cacheVars, waiterVars, conn, pin, expired, generationVars,
                   reloadPending, routeTimer, pc, todo>>
StayPending ==
    /\ cur # None /\ Verdict(cur) = "PENDING" /\ Needed(cur) = {}
    /\ cur' = None
    /\ UNCHANGED <<ledgerVars, cacheVars, waiterVars, connVars, generationVars, reloadPending, routeTimer, pc, todo>>

\* A connection without a waiter ends, or is to be closed; a doomed one goes.
Gone(c) ==
    /\ conn[c] = "INITIAL" \/ (c \in Doomed /\ has[c] = {})
    /\ Forget(c)
    /\ UNCHANGED <<ledgerVars, cacheVars, has, generationVars, loopVars>>
CloseInitial(c) ==
    /\ pc \in {"ready", "timeouts"} /\ conn[c] = "INITIAL"
    /\ closing' = closing \cup {c}
    /\ UNCHANGED <<ledgerVars, cacheVars, waiterVars, conn, pin, expired, generationVars, loopVars>>

\* Steps of the loop that touch neither connections nor queries.
LoopStep ==
    /\ EventsDone \/ TakingDone \/ ProgressDone \/ ReadyDone \/ TimeoutsDone \/ DestroyDone
    /\ UNCHANGED <<ledgerVars, cacheVars, waiterVars, connVars, generationVars, routeTimer, cur>>

\* Giving an interest back has three ends.
LEMMA GiveBackCases ==
    ASSUME NEW c \in Conn, NEW e \in Entry, Leaving(c), GiveBack(c, e)
    PROVE  ReturnFlag(c, e) \/ DropFlag(c, e) \/ RefusedFlag(c, e)
BY Zenon DEF GiveBack, ReturnFlag, DropFlag, RefusedFlag

\* Every step is one of these or an action without alternatives.
Step ==
    \/ \E c \in Conn : \/ Accept(c) \/ TimerExpires(c) \/ ProgressBegin(c) \/ RouteStart(c)
                       \/ WaiterTimeout(c) \/ Gone(c) \/ CloseInitial(c)
    \/ \E e \in Entry : \/ AnswerExpires(e) \/ QueryCompletes(e) \/ QueryDropped(e) \/ DispatchCompletes(e)
                        \/ ReturnHeld(e) \/ DropHeld(e) \/ AskNew(e) \/ AskLate(e) \/ AskRefused(e)
                        \/ RefusedHeld(e) \/ PrewarmNew(e) \/ PrewarmSkip(e)
    \/ \E c \in Conn, e \in Entry : ReturnFlag(c, e) \/ DropFlag(c, e) \/ RefusedFlag(c, e)
    \/ \E hungUp \in SUBSET Conn, r \in BOOLEAN : Wake(hungUp, r)
    \/ LoopStep \/ LeaveRoute \/ CloseRoute \/ StayPending
    \/ WarmupDeadline \/ TakeCompletion \/ CollectDone \/ ReloadPublish \/ ReloadKeep \/ PrewarmDone \/ ShutDown
    \/ UNCHANGED vars

\* No step of the loop is of another kind.
LEMMA Cases ==
    ASSUME [Next]_vars, cur \in Conn \cup {None}
    PROVE  Step
<1>1. ASSUME NEW c \in Conn, InitialEnds(c) PROVE Gone(c) \/ CloseInitial(c)
  BY <1>1 DEF InitialEnds, Gone, CloseInitial, waiterVars
<1>2. ASSUME NEW c \in Conn, Destroy(c) PROVE Gone(c)
  BY <1>2 DEF Destroy, Gone
<1>3. ASSUME NEW e \in Entry, Ask(e) PROVE AskNew(e) \/ AskLate(e) \/ AskRefused(e)
  BY <1>3 DEF Ask, AskNew, AskLate, AskRefused
<1>4. ASSUME NEW e \in Entry, CollectRelease(e)
      PROVE  ReturnHeld(e) \/ DropHeld(e) \/ RefusedHeld(e)
  BY <1>4 DEF CollectRelease, ReturnHeld, DropHeld, RefusedHeld
<1>5. ASSUME NEW e \in Entry, Prewarm(e) PROVE PrewarmNew(e) \/ PrewarmSkip(e)
  BY <1>5, Zenon DEF Prewarm, PrewarmNew, PrewarmSkip
<1>6. CASE TerminalDone
  BY <1>6 DEF TerminalDone, Step, LeaveRoute, CloseRoute, waiterVars
<1>7. CASE AskDone
  BY <1>7 DEF Step, AskDone, CloseRoute, StayPending, connVars
<1>8. CASE Reload
  BY <1>8, Zenon DEF Step, Reload, ReloadPublish, ReloadKeep, CanReload, RegistryFree, connVars, generationVars
<1>9. ASSUME NEW e \in Entry, TerminalRelease(e)
      PROVE  ReturnFlag(cur, e) \/ DropFlag(cur, e) \/ RefusedFlag(cur, e)
  BY <1>9, GiveBackCases DEF TerminalRelease, Leaving
<1>10. ASSUME NEW c \in Conn, NEW e \in Entry, DestroyRelease(c, e)
       PROVE  ReturnFlag(c, e) \/ DropFlag(c, e) \/ RefusedFlag(c, e)
  BY <1>10, GiveBackCases, Zenon DEF DestroyRelease, Leaving
<1>11. CASE EventsDone \/ TakingDone \/ ProgressDone \/ ReadyDone \/ TimeoutsDone \/ DestroyDone
  BY <1>11 DEF Step, LoopStep, EventsDone, TakingDone, ProgressDone, ReadyDone, TimeoutsDone, DestroyDone
<1>12. ASSUME NEW e \in Entry, TerminalRelease(e) PROVE cur \in Conn
  BY <1>12 DEF TerminalRelease
<1> QED
  BY <1>1, <1>2, <1>3, <1>4, <1>5, <1>6, <1>7, <1>8, <1>9, <1>10, <1>11, <1>12, Zenon DEF Step, Next, Environment, Turn

-----------------------------------------------------------------------------
(* The shape of a state *)

\* Each entry's flags: who thinks to hold an interest in its query.
Flags(e) == {c \in Conn : e \in has[c]}
Holders(e) == {g \in Generation : e \in held[g]}

\* The types, with interests still unbounded.
Typed ==
    /\ phase \in [Entry -> {"none", "active", "complete"}]
    /\ interest \in [Entry -> [Kind -> Nat]]
    /\ completion \in Seq(Entry)
    /\ stopped \in BOOLEAN
    /\ answer \in [Entry -> {"empty", "positive", "nodata"}]
    /\ publication \in [Entry -> {"none", "stored", "transient", "failed"}]
    /\ conn \in [Conn -> {"NONE", "INITIAL", "ROUTE_WAITING"}]
    /\ pin \in [Conn -> Generation \cup {"none"}]
    /\ closing \subseteq Conn
    /\ expired \subseteq Conn
    /\ has \in [Conn -> SUBSET Entry]
    /\ awaits \in [Conn -> SUBSET Entry]
    /\ overlay \in [Conn -> [Entry -> {"none", "positive", "unavailable"}]]
    /\ held \in [Generation -> SUBSET Entry]
    /\ prewarm \subseteq Entry
    /\ runtime \in {"warming", "due", "ready"}
    /\ retired \in BOOLEAN /\ reloadPending \in BOOLEAN /\ routeTimer \in BOOLEAN
    /\ pc \in Phase
    /\ todo \subseteq Conn
    /\ cur \in Conn \cup {None}

\* Every step keeps the types.
LEMMA TypedStep ==
    ASSUME Typed, Step
    PROVE  Typed'
<1> USE RouteServiceAssumption DEF Typed, Phase, Kind, ledgerVars, cacheVars, waiterVars, connVars, generationVars, loopVars
<1>1. ASSUME NEW c \in Conn, Accept(c) PROVE Typed'
  BY <1>1, Zenon DEF Accept, Generation
<1>2. ASSUME NEW c \in Conn, TimerExpires(c) PROVE Typed'
  BY <1>2 DEF TimerExpires
<1>3. ASSUME NEW c \in Conn, ProgressBegin(c) PROVE Typed'
  BY <1>3, Zenon DEF ProgressBegin
<1>4. ASSUME NEW c \in Conn, RouteStart(c) PROVE Typed'
  BY <1>4 DEF RouteStart
<1>5. ASSUME NEW c \in Conn, WaiterTimeout(c) PROVE Typed'
  BY <1>5 DEF WaiterTimeout, Waiting
<1>6. ASSUME NEW c \in Conn, Gone(c) PROVE Typed'
  BY <1>6 DEF Gone, Forget, NoOverlay
<1>7. ASSUME NEW c \in Conn, CloseInitial(c) PROVE Typed'
  BY <1>7 DEF CloseInitial
<1>8. ASSUME NEW e \in Entry, AnswerExpires(e) PROVE Typed'
  BY <1>8 DEF AnswerExpires
<1>9. ASSUME NEW e \in Entry, QueryCompletes(e) PROVE Typed'
  BY <1>9 DEF QueryCompletes, Published, Ledger!Complete, Ledger!NoInterest, Ledger!Kind
<1>10. ASSUME NEW e \in Entry, QueryDropped(e) PROVE Typed'
  BY <1>10 DEF QueryDropped, Ledger!Drop
<1>11. ASSUME NEW e \in Entry, DispatchCompletes(e) PROVE Typed'
  BY <1>11 DEF DispatchCompletes, Ledger!Complete, Ledger!NoInterest, Ledger!Kind
<1>12. ASSUME NEW e \in Entry, ReturnHeld(e) PROVE Typed'
  BY <1>12 DEF ReturnHeld, Ledger!Release, Generation
<1>13. ASSUME NEW e \in Entry, DropHeld(e) PROVE Typed'
  BY <1>13 DEF DropHeld, Generation
<1>14. ASSUME NEW e \in Entry, RefusedHeld(e) PROVE Typed'
  BY <1>14, Zenon DEF RefusedHeld, Fail, NoOverlay
<1>15. ASSUME NEW e \in Entry, AskNew(e) PROVE Typed'
  BY <1>15 DEF AskNew, Needed, Ledger!Schedule
<1>16. ASSUME NEW e \in Entry, AskLate(e) PROVE Typed'
  BY <1>16 DEF AskLate, Needed
<1>17. ASSUME NEW e \in Entry, AskRefused(e) PROVE Typed'
  BY <1>17 DEF AskRefused, Needed
<1>18. ASSUME NEW e \in Entry, PrewarmNew(e) PROVE Typed'
  BY <1>18 DEF PrewarmNew, Ledger!Schedule, Generation
<1>19. ASSUME NEW e \in Entry, PrewarmSkip(e) PROVE Typed'
  BY <1>19 DEF PrewarmSkip
<1>20. ASSUME NEW c \in Conn, NEW e \in Entry, ReturnFlag(c, e) PROVE Typed'
  BY <1>20 DEF ReturnFlag, ClearFlag, Ledger!Release
<1>21. ASSUME NEW c \in Conn, NEW e \in Entry, DropFlag(c, e) PROVE Typed'
  BY <1>21 DEF DropFlag, ClearFlag
<1>22. ASSUME NEW c \in Conn, NEW e \in Entry, RefusedFlag(c, e) PROVE Typed'
  BY <1>22 DEF RefusedFlag, Fail, NoOverlay
<1>23. ASSUME NEW hungUp \in SUBSET Conn, NEW r \in BOOLEAN, Wake(hungUp, r) PROVE Typed'
  BY <1>23, Zenon DEF Wake, Signals
<1>24. CASE LoopStep
  BY <1>24, ZenonT(40) DEF LoopStep, EventsDone, TakingDone, ProgressDone, ReadyDone, TimeoutsDone, DestroyDone, Signals, Waiting
<1>25. CASE LeaveRoute
  BY <1>25 DEF LeaveRoute, Forget, NoOverlay
<1>26. CASE CloseRoute
  BY <1>26 DEF CloseRoute
<1>27. CASE StayPending
  BY <1>27 DEF StayPending
<1>28. CASE WarmupDeadline
  BY <1>28 DEF WarmupDeadline
<1>29. CASE TakeCompletion
  BY <1>29 DEF TakeCompletion, Ledger!Take
<1>30. CASE CollectDone
  BY <1>30 DEF CollectDone
<1>31. CASE ReloadPublish
  BY <1>31, Zenon DEF ReloadPublish, Publish, Generation
<1>32. CASE ReloadKeep
  BY <1>32, Zenon DEF ReloadKeep
<1>33. CASE PrewarmDone
  BY <1>33, ZenonT(40) DEF PrewarmDone
<1>34. CASE ShutDown
  BY <1>34 DEF ShutDown, Ledger!Shutdown, Ledger!NoInterest, Ledger!Kind
<1>35. CASE UNCHANGED vars
  BY <1>35 DEF vars
<1> QED
  BY <1>1, <1>2, <1>3, <1>4, <1>5, <1>6, <1>7, <1>8, <1>9, <1>10, <1>11, <1>12, <1>13, <1>14, <1>15, <1>16, <1>17, <1>18, <1>19, <1>20, <1>21, <1>22, <1>23, <1>24, <1>25, <1>26, <1>27, <1>28, <1>29, <1>30, <1>31, <1>32, <1>33, <1>34, <1>35, ZenonT(40) DEF Step

\* Where connections, the loop and the generations stand.
Places ==
    /\ \A c \in Conn : has[c] \cup awaits[c] \subseteq Route[c]
    /\ \A c \in Conn : conn[c] # "ROUTE_WAITING" => has[c] = {} /\ awaits[c] = {}
    /\ cur # None => cur \in Waiting /\ pc \in {"progress", "ready", "timeouts"}
    /\ todo \subseteq Waiting /\ (pc # "progress" => todo = {}) /\ cur \notin todo
    /\ pc = "exit" => \A c \in Conn : conn[c] = "NONE"
    /\ stopped => pc = "exit"
    /\ prewarm \cap held["active"] = {}
    /\ RetiredKeptWhileUsed

\* Every step keeps them.
LEMMA PlacesStep ==
    ASSUME Typed, Places, Step
    PROVE  Places'
<1> USE RouteServiceAssumption DEF Typed, Places, Waiting, RetiredKeptWhileUsed, Generation, ledgerVars, waiterVars, connVars, generationVars, loopVars
<1>1. ASSUME NEW c \in Conn, Accept(c) PROVE Places'
  BY <1>1, SMTT(30) DEF Accept
<1>2. ASSUME NEW c \in Conn, TimerExpires(c) PROVE Places'
  BY <1>2, Zenon DEF TimerExpires
<1>3. ASSUME NEW c \in Conn, ProgressBegin(c) PROVE Places'
  BY <1>3, Zenon DEF ProgressBegin
<1>4. ASSUME NEW c \in Conn, RouteStart(c) PROVE Places'
  BY <1>4 DEF RouteStart
<1>5. ASSUME NEW c \in Conn, WaiterTimeout(c) PROVE Places'
  BY <1>5, Zenon DEF WaiterTimeout
<1>6. ASSUME NEW c \in Conn, Gone(c) PROVE Places'
  BY <1>6 DEF Gone, Forget, Doomed
<1>7. ASSUME NEW c \in Conn, CloseInitial(c) PROVE Places'
  BY <1>7, Zenon DEF CloseInitial
<1>8. ASSUME NEW e \in Entry, AnswerExpires(e) PROVE Places'
  BY <1>8, Zenon DEF AnswerExpires
<1>9. ASSUME NEW e \in Entry, QueryCompletes(e) PROVE Places'
  BY <1>9, Zenon DEF QueryCompletes, Ledger!Complete
<1>10. ASSUME NEW e \in Entry, QueryDropped(e) PROVE Places'
  BY <1>10, Zenon DEF QueryDropped, Ledger!Drop
<1>11. ASSUME NEW e \in Entry, DispatchCompletes(e) PROVE Places'
  BY <1>11, Zenon DEF DispatchCompletes, Ledger!Complete
<1>12. ASSUME NEW e \in Entry, ReturnHeld(e) PROVE Places'
  BY <1>12, Zenon DEF ReturnHeld, Collecting, Ledger!Release
<1>13. ASSUME NEW e \in Entry, DropHeld(e) PROVE Places'
  BY <1>13, Zenon DEF DropHeld, Collecting
<1>14. ASSUME NEW e \in Entry, RefusedHeld(e) PROVE Places'
  BY <1>14, Zenon DEF RefusedHeld, Fail
<1>15. ASSUME NEW e \in Entry, AskNew(e) PROVE Places'
  BY <1>15, SMTT(30) DEF AskNew, Needed, Ledger!Schedule
<1>16. ASSUME NEW e \in Entry, AskLate(e) PROVE Places'
  BY <1>16, SMTT(30) DEF AskLate, Needed
<1>17. ASSUME NEW e \in Entry, AskRefused(e) PROVE Places'
  BY <1>17, Zenon DEF AskRefused, Needed
<1>18. ASSUME NEW e \in Entry, PrewarmNew(e) PROVE Places'
  BY <1>18, Zenon DEF PrewarmNew, Ledger!Schedule
<1>19. ASSUME NEW e \in Entry, PrewarmSkip(e) PROVE Places'
  BY <1>19, SMTT(30) DEF PrewarmSkip
<1>20. ASSUME NEW c \in Conn, NEW e \in Entry, ReturnFlag(c, e) PROVE Places'
  BY <1>20, SMTT(30) DEF ReturnFlag, ClearFlag, Ledger!Release
<1>21. ASSUME NEW c \in Conn, NEW e \in Entry, DropFlag(c, e) PROVE Places'
  BY <1>21, SMTT(30) DEF DropFlag, ClearFlag
<1>22. ASSUME NEW c \in Conn, NEW e \in Entry, RefusedFlag(c, e) PROVE Places'
  BY <1>22 DEF RefusedFlag, Fail
<1>23. ASSUME NEW hungUp \in SUBSET Conn, NEW r \in BOOLEAN, Wake(hungUp, r) PROVE Places'
  BY <1>23, Zenon DEF Wake, Signals
<1>24. CASE LoopStep
  BY <1>24, ZenonT(40) DEF LoopStep, EventsDone, TakingDone, ProgressDone, ReadyDone, TimeoutsDone, DestroyDone, Signals
<1>25. CASE LeaveRoute
  BY <1>25 DEF LeaveRoute, Forget
<1>26. CASE CloseRoute
  BY <1>26 DEF CloseRoute
<1>27. CASE StayPending
  BY <1>27, Zenon DEF StayPending
<1>28. CASE WarmupDeadline
  BY <1>28, Zenon DEF WarmupDeadline
<1>29. CASE TakeCompletion
  BY <1>29, SMTT(30) DEF TakeCompletion, Ledger!Take, Observers
<1>30. CASE CollectDone
  BY <1>30, SMTT(30) DEF CollectDone, Collecting, Collectable
<1>31. CASE ReloadPublish
  BY <1>31, ZenonT(40) DEF ReloadPublish, Publish
<1>32. CASE ReloadKeep
  BY <1>32, Zenon DEF ReloadKeep
<1>33. CASE PrewarmDone
  BY <1>33, Zenon DEF PrewarmDone
<1>34. CASE ShutDown
  BY <1>34, Zenon DEF ShutDown, Ledger!Shutdown, Doomed
<1>35. CASE UNCHANGED vars
  BY <1>35, Zenon DEF vars
<1> HIDE DEF Typed, Places, Waiting, RetiredKeptWhileUsed, Generation
<1> QED
  BY <1>1, <1>2, <1>3, <1>4, <1>5, <1>6, <1>7, <1>8, <1>9, <1>10, <1>11, <1>12, <1>13, <1>14, <1>15, <1>16, <1>17, <1>18, <1>19, <1>20, <1>21, <1>22, <1>23, <1>24, <1>25, <1>26, <1>27, <1>28, <1>29, <1>30, <1>31, <1>32, <1>33, <1>34, <1>35, Zenon DEF Step

\* The supervisor's side: the completions to take are those of the completed
\* queries, each once, and only a running query has interests.
LedgerShape ==
    /\ \A i \in 1..Len(completion) : phase[completion[i]] = "complete"
    /\ \A i, j \in 1..Len(completion) : completion[i] = completion[j] => i = j
    /\ \A e \in Entry : phase[e] # "active" => interest[e] = Ledger!NoInterest

\* A step either leaves the supervisor alone or is a call of its contract.
LEMMA LedgerCases ==
    ASSUME Step
    PROVE  \/ \E e \in Entry : \/ Ledger!Complete(e) \/ Ledger!Drop(e)
                               \/ \E k \in Kind : Ledger!Schedule(e, k) \/ Ledger!Release(e, k)
           \/ Ledger!Take \/ Ledger!Shutdown
           \/ UNCHANGED ledgerVars
<1> USE DEF connVars
<1>1. ASSUME NEW c \in Conn, \/ Accept(c) \/ TimerExpires(c) \/ ProgressBegin(c) \/ RouteStart(c)
                             \/ WaiterTimeout(c) \/ Gone(c) \/ CloseInitial(c)
      PROVE  UNCHANGED ledgerVars
  BY <1>1, Zenon DEF Accept, TimerExpires, ProgressBegin, RouteStart, WaiterTimeout, Gone, CloseInitial
<1>2. ASSUME NEW e \in Entry, \/ AnswerExpires(e) \/ DropHeld(e) \/ AskLate(e) \/ AskRefused(e)
                              \/ RefusedHeld(e) \/ PrewarmSkip(e)
      PROVE  UNCHANGED ledgerVars
  BY <1>2, Zenon DEF AnswerExpires, DropHeld, AskLate, AskRefused, RefusedHeld, Fail, PrewarmSkip
<1>3. ASSUME NEW e \in Entry, \/ QueryCompletes(e) \/ QueryDropped(e) \/ DispatchCompletes(e) \/ ReturnHeld(e)
                              \/ AskNew(e) \/ PrewarmNew(e)
      PROVE  \/ Ledger!Complete(e) \/ Ledger!Drop(e)
             \/ \E k \in Kind : Ledger!Schedule(e, k) \/ Ledger!Release(e, k)
  BY <1>3, Zenon DEF QueryCompletes, QueryDropped, DispatchCompletes, ReturnHeld, AskNew, PrewarmNew, Kind
<1>4. ASSUME NEW c \in Conn, NEW e \in Entry, ReturnFlag(c, e) PROVE \E k \in Kind : Ledger!Release(e, k)
  BY <1>4 DEF ReturnFlag, Kind
<1>5. ASSUME NEW c \in Conn, NEW e \in Entry, DropFlag(c, e) \/ RefusedFlag(c, e) PROVE UNCHANGED ledgerVars
  BY <1>5, Zenon DEF DropFlag, RefusedFlag, Fail
<1>6. ASSUME NEW hungUp \in SUBSET Conn, NEW r \in BOOLEAN, Wake(hungUp, r) PROVE UNCHANGED ledgerVars
  BY <1>6 DEF Wake
<1>7. CASE \/ LoopStep \/ LeaveRoute \/ CloseRoute \/ StayPending \/ WarmupDeadline \/ CollectDone
           \/ ReloadPublish \/ ReloadKeep \/ PrewarmDone \/ UNCHANGED vars
  BY <1>7, Zenon DEF LoopStep, LeaveRoute, CloseRoute, StayPending, WarmupDeadline, CollectDone, ReloadPublish,
              ReloadKeep, PrewarmDone, vars
<1>8. CASE TakeCompletion \/ ShutDown
  BY <1>8, Zenon DEF TakeCompletion, ShutDown
<1> QED
  BY <1>1, <1>2, <1>3, <1>4, <1>5, <1>6, <1>7, <1>8, Zenon DEF Step

\* The contract keeps the shape of the supervisor's side.
LEMMA LedgerStep ==
    ASSUME Typed, LedgerShape, Step
    PROVE  LedgerShape'
<1>a. /\ phase \in [Entry -> {"none", "active", "complete"}]
      /\ interest \in [Entry -> [Kind -> Nat]]
      /\ completion \in Seq(Entry)
      /\ \A i \in 1..Len(completion) : completion[i] \in Entry
  BY DEF Typed
<1>b. \A i \in 1..Len(completion) : phase[completion[i]] = "complete"
  BY DEF LedgerShape
<1>c. \A i, j \in 1..Len(completion) : completion[i] = completion[j] => i = j
  BY DEF LedgerShape
<1>d. \A e \in Entry : phase[e] # "active" => interest[e] = Ledger!NoInterest
  BY Zenon DEF LedgerShape
<1>1. ASSUME NEW e \in Entry, Ledger!Complete(e) PROVE LedgerShape'
  <2>1. /\ phase' = [phase EXCEPT ![e] = "complete"]
        /\ interest' = [interest EXCEPT ![e] = Ledger!NoInterest]
        /\ completion' = Append(completion, e)
        /\ phase[e] = "active"
    BY <1>1, Zenon DEF Ledger!Complete
  <2>2. \A i \in 1..Len(completion) : completion[i] # e
    BY <2>1, <1>b, Zenon
  <2>3. /\ Len(completion') = Len(completion) + 1
        /\ completion'[Len(completion) + 1] = e
        /\ \A i \in 1..Len(completion) : completion'[i] = completion[i]
        /\ \A i \in 1..Len(completion') : i \in 1..Len(completion) \/ i = Len(completion) + 1
    BY <2>1, <1>a
  <2>5. \A i \in 1..Len(completion') : phase'[completion'[i]] = "complete"
    BY <2>1, <2>2, <2>3, <1>a, <1>b
  <2>6. ASSUME NEW i \in 1..Len(completion'), NEW j \in 1..Len(completion'), completion'[i] = completion'[j]
        PROVE  i = j
    BY <2>2, <2>3, <2>6, <1>c
  <2>7. \A x \in Entry : phase'[x] # "active" => interest'[x] = Ledger!NoInterest
    BY <2>1, <1>a, <1>d
  <2> QED
    BY <2>5, <2>6, <2>7, Zenon DEF LedgerShape
<1>2. ASSUME NEW e \in Entry, Ledger!Drop(e) PROVE LedgerShape'
  <2>1. /\ phase' = [phase EXCEPT ![e] = "none"] /\ interest' = interest /\ completion' = completion
        /\ phase[e] = "active" /\ interest[e] = Ledger!NoInterest
    BY <1>2, Zenon DEF Ledger!Drop, Ledger!Wanted
  <2> QED
    BY <2>1, <1>a, <1>b, <1>c, <1>d, Zenon DEF LedgerShape
<1>3. ASSUME NEW e \in Entry, NEW k \in Kind, Ledger!Schedule(e, k) PROVE LedgerShape'
  <2>1. /\ phase' = [phase EXCEPT ![e] = "active"] /\ phase[e] # "complete"
        /\ \A x \in Entry : x # e => interest'[x] = interest[x]
        /\ completion' = completion
    BY <1>3, <1>a DEF Ledger!Schedule
  <2> QED
    BY <2>1, <1>a, <1>b, <1>c, <1>d, Zenon DEF LedgerShape
<1>4. ASSUME NEW e \in Entry, NEW k \in Kind, Ledger!Release(e, k) PROVE LedgerShape'
  <2>1. /\ phase[e] = "active" /\ completion' = completion
        /\ \A x \in Entry : x # e => interest'[x] = interest[x] /\ phase'[x] = phase[x]
        /\ phase'[e] # "active" => interest'[e] = Ledger!NoInterest
    BY <1>4, <1>a, Zenon DEF Ledger!Release
  <2> QED
    BY <2>1, <1>a, <1>b, <1>c, <1>d, Zenon DEF LedgerShape
<1>5. CASE Ledger!Take
  <2>1. /\ completion # <<>>
        /\ phase' = [phase EXCEPT ![Head(completion)] = "none"]
        /\ completion' = Tail(completion)
        /\ interest' = interest
    BY <1>5 DEF Ledger!Take
  <2>2. /\ Len(completion') = Len(completion) - 1
        /\ Head(completion) = completion[1] /\ 1 \in 1..Len(completion)
        /\ \A i \in 1..Len(completion') : /\ completion'[i] = completion[i + 1]
                                          /\ i + 1 \in 1..Len(completion) /\ i + 1 # 1
    BY <2>1, <1>a
  <2>3. Head(completion) \in Entry /\ phase[Head(completion)] = "complete"
    BY <2>2, <1>a, <1>b
  <2>4. \A i \in 1..Len(completion') : completion'[i] # Head(completion)
    BY <2>2, <1>c, Zenon
  <2>5. \A i \in 1..Len(completion') : phase'[completion'[i]] = "complete"
    BY <2>1, <2>2, <2>4, <1>a, <1>b, Zenon
  <2>6. ASSUME NEW i \in 1..Len(completion'), NEW j \in 1..Len(completion'), completion'[i] = completion'[j]
        PROVE  i = j
    <3>1. i + 1 = j + 1
      BY <2>2, <2>6, <1>c
    <3> QED
      BY <3>1, <2>2, <1>a
  <2>7. \A e \in Entry : phase'[e] # "active" => interest'[e] = Ledger!NoInterest
    BY <2>1, <2>3, <1>a, <1>d, Zenon
  <2> QED
    BY <2>5, <2>6, <2>7 DEF LedgerShape
<1>6. CASE Ledger!Shutdown
  <2>1. completion' = <<>> /\ interest' = [e \in Entry |-> Ledger!NoInterest]
    BY <1>6, Zenon DEF Ledger!Shutdown
  <2> QED
    BY <2>1 DEF LedgerShape
<1>7. CASE UNCHANGED ledgerVars
  BY <1>7 DEF ledgerVars, LedgerShape
<1> QED
  BY LedgerCases, <1>1, <1>2, <1>3, <1>4, <1>5, <1>6, <1>7, Zenon

-----------------------------------------------------------------------------
(* Counting interests *)

\* How many connections or generations think to hold an interest.
Count(e, k) == IF k = "INTERACTIVE" THEN Cardinality(Flags(e)) ELSE Cardinality(Holders(e))

\* A step changes one count by d.
Moves(e, k, d) ==
    \A x \in Entry, j \in Kind : Count(x, j)' = IF x = e /\ j = k THEN Count(e, k) + d ELSE Count(x, j)
Counts == \A x \in Entry, j \in Kind : Count(x, j)' = Count(x, j)

\* An element more.
LEMMA OneMore ==
    ASSUME NEW S, IsFiniteSet(S), NEW x, x \notin S
    PROVE  Cardinality(S \cup {x}) = Cardinality(S) + 1
BY FS_AddElement

\* An element less.
LEMMA OneLess ==
    ASSUME NEW S, IsFiniteSet(S), NEW x, x \in S
    PROVE  Cardinality(S \ {x}) = Cardinality(S) - 1
BY FS_RemoveElement

\* There are two generations at most.
LEMMA Generations == IsFiniteSet(Generation) /\ Cardinality(Generation) \in Nat
<1>1. Generation = {"active"} \cup {"retired"}
  BY DEF Generation
<1>2. IsFiniteSet({"active"})
  BY FS_Singleton, Zenon
<1>3. IsFiniteSet(Generation)
  BY <1>1, <1>2, FS_AddElement, Zenon
<1> QED
  BY <1>3, FS_CardinalityType

\* Flags and holders are finite in number.
LEMMA Finite ==
    ASSUME NEW e \in Entry
    PROVE  /\ IsFiniteSet(Flags(e)) /\ Cardinality(Flags(e)) \in 0..Cardinality(Conn)
           /\ IsFiniteSet(Holders(e)) /\ Cardinality(Holders(e)) \in 0..Cardinality(Generation)
<1>1. Flags(e) \subseteq Conn /\ Holders(e) \subseteq Generation
  BY DEF Flags, Holders
<1> QED
  BY <1>1, Generations, FS_Subset, FS_CardinalityType, RouteServiceAssumption

\* The counts are numbers.
LEMMA CountType ==
    \A e \in Entry, k \in Kind :
        Count(e, k) \in Nat /\ Count(e, k) <= Cardinality(Conn) + Cardinality(Generation)
<1>1. Cardinality(Conn) \in Nat
  BY FS_CardinalityType, RouteServiceAssumption
<1> QED
  BY <1>1, Generations, Finite DEF Count

\* What does not touch the marks does not touch the counts.
LEMMA SameMarks ==
    ASSUME UNCHANGED <<has, held>>
    PROVE  Counts
BY Zenon DEF Counts, Count, Flags, Holders

\* A connection sets its mark for an entry (route_waiter_progress).
LEMMA FlagSet ==
    ASSUME Typed, NEW c \in Conn, NEW e \in Entry, e \notin has[c],
           has' = [has EXCEPT ![c] = @ \cup {e}], held' = held
    PROVE  Moves(e, "INTERACTIVE", 1)
<1>1. /\ Flags(e)' = Flags(e) \cup {c} /\ c \notin Flags(e)
      /\ \A x \in Entry : x # e => Flags(x)' = Flags(x)
      /\ \A x \in Entry : Holders(x)' = Holders(x)
  BY DEF Typed, Flags, Holders
<1> QED
  BY <1>1, Finite, OneMore, Zenon DEF Moves, Count, Kind

\* It clears its mark (route_waiter_entry_interest_release).
LEMMA FlagClear ==
    ASSUME Typed, NEW c \in Conn, NEW e \in Entry, e \in has[c], ClearFlag(c, e), held' = held
    PROVE  Moves(e, "INTERACTIVE", -1)
<1>1. /\ Flags(e)' = Flags(e) \ {c} /\ c \in Flags(e)
      /\ \A x \in Entry : x # e => Flags(x)' = Flags(x)
      /\ \A x \in Entry : Holders(x)' = Holders(x)
  BY Zenon DEF Typed, Flags, Holders, ClearFlag
<1>2. Cardinality(Flags(e)') = Cardinality(Flags(e)) - 1
  BY <1>1, Finite, OneLess, Zenon
<1> QED
  BY <1>1, <1>2, Finite, Zenon DEF Moves, Count, Kind

\* A generation sets its mark (prewarming).
LEMMA HeldSet ==
    ASSUME Typed, NEW g \in Generation, NEW e \in Entry, e \notin held[g],
           held' = [held EXCEPT ![g] = @ \cup {e}], has' = has
    PROVE  Moves(e, "BACKGROUND", 1)
<1>1. /\ Holders(e)' = Holders(e) \cup {g} /\ g \notin Holders(e)
      /\ \A x \in Entry : x # e => Holders(x)' = Holders(x)
      /\ \A x \in Entry : Flags(x)' = Flags(x)
  BY DEF Typed, Flags, Holders
<1> QED
  BY <1>1, Finite, OneMore, Zenon DEF Moves, Count, Kind

\* A collected generation clears its mark.
LEMMA HeldClear ==
    ASSUME Typed, NEW g \in Generation, NEW e \in Entry, e \in held[g],
           held' = [held EXCEPT ![g] = @ \ {e}], has' = has
    PROVE  Moves(e, "BACKGROUND", -1)
<1>1. /\ Holders(e)' = Holders(e) \ {g} /\ g \in Holders(e)
      /\ \A x \in Entry : x # e => Holders(x)' = Holders(x)
      /\ \A x \in Entry : Flags(x)' = Flags(x)
  BY Zenon DEF Typed, Flags, Holders
<1>2. Cardinality(Holders(e)') = Cardinality(Holders(e)) - 1
  BY <1>1, Finite, OneLess, Zenon
<1> QED
  BY <1>1, <1>2, Finite, Zenon DEF Moves, Count, Kind

\* Publishing hands the marks of the active generation over, one for one.
LEMMA HandOver ==
    ASSUME Typed, held["retired"] = {}, has' = has,
           held' = [g \in Generation |-> IF g = "active" THEN {} ELSE held["active"]]
    PROVE  Counts
<1>1. ASSUME NEW e \in Entry PROVE Cardinality(Holders(e)') = Cardinality(Holders(e))
  <2>1. /\ e \in held["active"] => Holders(e) = {"active"} /\ Holders(e)' = {"retired"}
        /\ e \notin held["active"] => Holders(e) = {} /\ Holders(e)' = {}
    BY DEF Holders, Generation
  <2> QED
    BY <2>1, FS_Singleton, ZenonT(40)
<1>2. \A e \in Entry : Flags(e)' = Flags(e)
  BY Zenon DEF Flags
<1> QED
  BY <1>1, <1>2 DEF Counts, Count

\* The loop is not entered again once it has been left.
LEMMA ExitStays ==
    ASSUME Places, Step, pc' # "exit"
    PROVE  pc # "exit"
<1> SUFFICES ASSUME pc = "exit" PROVE UNCHANGED pc
  BY Zenon
<1> USE DEF loopVars
<1>1. ASSUME NEW c \in Conn, \/ Accept(c) \/ TimerExpires(c) \/ ProgressBegin(c) \/ RouteStart(c)
                             \/ WaiterTimeout(c) \/ Gone(c) \/ CloseInitial(c)
      PROVE  UNCHANGED pc
  BY <1>1, Zenon DEF Accept, TimerExpires, ProgressBegin, RouteStart, WaiterTimeout, Gone, CloseInitial
<1>2. ASSUME NEW e \in Entry, \/ AnswerExpires(e) \/ QueryCompletes(e) \/ QueryDropped(e) \/ DispatchCompletes(e)
                              \/ ReturnHeld(e) \/ DropHeld(e) \/ AskNew(e) \/ AskLate(e) \/ AskRefused(e)
                              \/ RefusedHeld(e) \/ PrewarmNew(e) \/ PrewarmSkip(e)
      PROVE  UNCHANGED pc
  BY <1>2 DEF AnswerExpires, QueryCompletes, QueryDropped, DispatchCompletes, ReturnHeld, DropHeld,
              AskNew, AskLate, AskRefused, RefusedHeld, Fail, PrewarmNew, PrewarmSkip
<1>3. ASSUME NEW c \in Conn, NEW e \in Entry, ReturnFlag(c, e) \/ DropFlag(c, e) \/ RefusedFlag(c, e)
      PROVE  UNCHANGED pc
  BY <1>3, Zenon DEF ReturnFlag, DropFlag, RefusedFlag, Fail
<1>4. ASSUME NEW hungUp \in SUBSET Conn, NEW r \in BOOLEAN, Wake(hungUp, r) PROVE UNCHANGED pc
  BY <1>4, SMTT(30) DEF Wake
<1>5. CASE \/ LoopStep \/ LeaveRoute \/ CloseRoute \/ StayPending
           \/ WarmupDeadline \/ TakeCompletion \/ CollectDone \/ ReloadPublish \/ ReloadKeep \/ PrewarmDone \/ ShutDown
           \/ UNCHANGED vars
  BY <1>5, ZenonT(40) DEF LoopStep, EventsDone, TakingDone, ProgressDone, ReadyDone, TimeoutsDone, DestroyDone, LeaveRoute,
              CloseRoute, StayPending, WarmupDeadline, TakeCompletion, CollectDone, Collecting, ReloadPublish,
              ReloadKeep, PrewarmDone, ShutDown, vars
<1> QED
  BY <1>1, <1>2, <1>3, <1>4, <1>5, Zenon DEF Step

\* The kinds of step in an interest's life, as seen from both sides.
Steady == UNCHANGED <<phase, interest>> /\ Counts
Takes(e, k) == pc # "exit" /\ UNCHANGED pc /\ Ledger!Schedule(e, k) /\ Moves(e, k, 1)
Returns(e, k) == Ledger!Release(e, k) /\ Moves(e, k, -1)
Settles(e, k) == UNCHANGED <<phase, interest>> /\ phase[e] # "active" /\ Moves(e, k, -1)
Ends(e) == (Ledger!Complete(e) \/ Ledger!Drop(e)) /\ Counts
Tells ==
    /\ TakeCompletion
    /\ \A x \in Entry, j \in Kind : x # Head(completion) => Count(x, j)' = Count(x, j)
Leaves ==
    /\ pc' = "exit"
    /\ UNCHANGED <<phase, interest>> \/ (\A e \in Entry : interest'[e] = Ledger!NoInterest)

\* A step of the loop is one of these.
LEMMA CountCases ==
    ASSUME Typed, Places, Step
    PROVE  \/ Steady \/ Tells \/ Leaves
           \/ \E e \in Entry, k \in Kind : Takes(e, k) \/ Returns(e, k) \/ Settles(e, k)
           \/ \E e \in Entry : Ends(e)
<1> USE DEF ledgerVars, waiterVars, connVars, generationVars
<1>k. "INTERACTIVE" \in Kind /\ "BACKGROUND" \in Kind /\ "active" \in Generation /\ "retired" \in Generation
  BY SMTT(30) DEF Kind, Generation
<1>1. ASSUME NEW c \in Conn, \/ Accept(c) \/ TimerExpires(c) \/ ProgressBegin(c) \/ RouteStart(c)
                             \/ WaiterTimeout(c) \/ Gone(c) \/ CloseInitial(c)
      PROVE  Steady
  BY <1>1, SameMarks, ZenonT(40) DEF Steady, Accept, TimerExpires, ProgressBegin, RouteStart, WaiterTimeout, Gone, CloseInitial
<1>2. ASSUME NEW e \in Entry, AnswerExpires(e) \/ AskLate(e) \/ AskRefused(e) \/ PrewarmSkip(e)
      PROVE  Steady
  BY <1>2, SameMarks, Zenon DEF Steady, AnswerExpires, AskLate, AskRefused, PrewarmSkip
<1>3. ASSUME NEW e \in Entry, QueryCompletes(e) \/ QueryDropped(e) \/ DispatchCompletes(e)
      PROVE  Ends(e)
  BY <1>3, SameMarks DEF Ends, QueryCompletes, QueryDropped, DispatchCompletes
<1>4. ASSUME NEW e \in Entry, AskNew(e) PROVE Takes(e, "INTERACTIVE")
  BY <1>4, FlagSet, RouteServiceAssumption, Zenon DEF AskNew, Needed, Takes, Places, Waiting, loopVars
<1>5. ASSUME NEW e \in Entry, PrewarmNew(e) PROVE Takes(e, "BACKGROUND")
  BY <1>5, <1>k, HeldSet, Zenon DEF PrewarmNew, Takes, Places, loopVars
<1>6. ASSUME NEW e \in Entry, ReturnHeld(e) PROVE Returns(e, "BACKGROUND")
  BY <1>6, <1>k, HeldClear, Zenon DEF ReturnHeld, Returns
<1>7. ASSUME NEW e \in Entry, DropHeld(e) PROVE Settles(e, "BACKGROUND")
  BY <1>7, <1>k, HeldClear, ZenonT(40) DEF DropHeld, Settles
<1>8. ASSUME NEW c \in Conn, NEW e \in Entry, ReturnFlag(c, e) PROVE Returns(e, "INTERACTIVE")
  BY <1>8, FlagClear, ZenonT(40) DEF ReturnFlag, Returns
<1>9. ASSUME NEW c \in Conn, NEW e \in Entry, DropFlag(c, e) PROVE Settles(e, "INTERACTIVE")
  BY <1>9, FlagClear, ZenonT(40) DEF DropFlag, Settles
<1>10. ASSUME NEW c \in Conn, NEW e \in Entry, RefusedFlag(c, e) PROVE Leaves
  BY <1>10, ZenonT(40) DEF RefusedFlag, Fail, Leaves
<1>11. ASSUME NEW e \in Entry, RefusedHeld(e) PROVE Leaves
  BY <1>11, Zenon DEF RefusedHeld, Fail, Leaves
<1>12. ASSUME NEW hungUp \in SUBSET Conn, NEW r \in BOOLEAN, Wake(hungUp, r) PROVE Steady
  BY <1>12, SameMarks DEF Steady, Wake
<1>13. CASE \/ LoopStep \/ LeaveRoute \/ CloseRoute \/ StayPending
            \/ WarmupDeadline \/ CollectDone \/ ReloadKeep \/ PrewarmDone \/ UNCHANGED vars
  BY <1>13, SameMarks, ZenonT(40) DEF Steady, LoopStep, LeaveRoute, CloseRoute, StayPending, WarmupDeadline, CollectDone,
                          ReloadKeep, PrewarmDone, vars
<1>14. CASE ReloadPublish
  BY <1>14, HandOver, Zenon DEF Steady, ReloadPublish, Publish, Places, RetiredKeptWhileUsed
<1>15. CASE ShutDown
  BY <1>15 DEF ShutDown, Leaves, Ledger!Shutdown
<1>16. CASE TakeCompletion
  <2>1. ASSUME NEW x \in Entry, x # Head(completion)
        PROVE  Flags(x)' = Flags(x) /\ Holders(x)' = Holders(x)
    BY <1>16, <2>1, Zenon DEF TakeCompletion, Flags, Holders, Typed
  <2> QED
    BY <1>16, <2>1, Zenon DEF Tells, Count
<1> QED
  BY <1>k, <1>1, <1>2, <1>3, <1>4, <1>5, <1>6, <1>7, <1>8, <1>9, <1>10, <1>11, <1>12, <1>13, <1>14, <1>15, <1>16, ZenonT(40) DEF Step

\* The supervisor never counts more interests than are held, and no more than
\* there are holders.
Bounded ==
    /\ pc # "exit" => \A e \in Entry, k \in Kind : interest[e][k] <= Count(e, k)
    /\ \A e \in Entry, k \in Kind : interest[e][k] <= Cardinality(Conn) + Cardinality(Generation)

\* After a step.
Kept(e, k) ==
    /\ pc' # "exit" => interest'[e][k] <= Count(e, k)'
    /\ interest'[e][k] <= Cardinality(Conn) + Cardinality(Generation)

\* Every step keeps it so.
LEMMA BoundedStep ==
    ASSUME Typed, Typed', Places, LedgerShape, Bounded, Step
    PROVE  Bounded'
<1>a. /\ phase \in [Entry -> {"none", "active", "complete"}]
      /\ interest \in [Entry -> [Kind -> Nat]] /\ interest' \in [Entry -> [Kind -> Nat]]
  BY SMTT(30) DEF Typed
<1>b. /\ pc' # "exit" => pc # "exit"
      /\ pc # "exit" => \A e \in Entry, k \in Kind : interest[e][k] <= Count(e, k)
      /\ \A e \in Entry, k \in Kind : interest[e][k] <= Cardinality(Conn) + Cardinality(Generation)
  BY ExitStays, Zenon DEF Bounded
<1>c. /\ Cardinality(Conn) \in Nat /\ Cardinality(Generation) \in Nat
      /\ \A e \in Entry, k \in Kind : Count(e, k) \in Nat
      /\ \A e \in Entry, k \in Kind : Count(e, k)' \in Nat /\ Count(e, k)' <= Cardinality(Conn) + Cardinality(Generation)
  <2>1. (\A e \in Entry, k \in Kind : Count(e, k) \in Nat /\ Count(e, k) <= Cardinality(Conn) + Cardinality(Generation))'
    BY CountType, PTL
  <2> QED
    BY <2>1, CountType, Generations, FS_CardinalityType, RouteServiceAssumption, Zenon
<1>d. \A e \in Entry : phase[e] # "active" => \A k \in Kind : interest[e][k] = 0
  BY Zenon DEF LedgerShape, Ledger!NoInterest, Ledger!Kind, Kind
<1>e. SUFFICES ASSUME NEW e \in Entry, NEW k \in Kind
               PROVE  Kept(e, k)
  BY Zenon DEF Bounded, Kept
<1>1. CASE Steady
  BY <1>1, <1>b, Zenon DEF Steady, Counts, Kept
<1>2. ASSUME NEW x \in Entry, NEW j \in Kind, Takes(x, j)
      PROVE  Kept(e, k)
  <2>1. /\ pc # "exit" /\ pc' # "exit"
        /\ interest'[e][k] = IF e = x /\ k = j THEN interest[e][k] + 1 ELSE interest[e][k]
        /\ Count(e, k)' = IF e = x /\ k = j THEN Count(e, k) + 1 ELSE Count(e, k)
    BY <1>2, <1>a, Zenon DEF Takes, Moves, Ledger!Schedule
  <2> QED
    BY <2>1, <1>a, <1>b, <1>c, SMTT(30) DEF Kept
<1>3. ASSUME NEW x \in Entry, NEW j \in Kind, Returns(x, j)
      PROVE  Kept(e, k)
  <2>1. /\ interest'[e][k] = IF e = x /\ k = j THEN interest[e][k] - 1 ELSE interest[e][k]
        /\ Count(e, k)' = IF e = x /\ k = j THEN Count(e, k) - 1 ELSE Count(e, k)
    BY <1>3, <1>a, Zenon DEF Returns, Moves, Ledger!Release
  <2> QED
    BY <2>1, <1>a, <1>b, <1>c DEF Kept
<1>4. ASSUME NEW x \in Entry, NEW j \in Kind, Settles(x, j)
      PROVE  Kept(e, k)
  <2>1. /\ interest' = interest
        /\ e = x => interest[e][k] = 0
        /\ e # x => Count(e, k)' = Count(e, k)
    BY <1>4, <1>d, Zenon DEF Settles, Moves
  <2> QED
    BY <2>1, <1>a, <1>b, <1>c DEF Kept
<1>5. ASSUME NEW x \in Entry, Ends(x)
      PROVE  Kept(e, k)
  <2>1. interest'[e] = interest[e] \/ interest'[e] = Ledger!NoInterest
    BY <1>5, <1>a, Zenon DEF Ends, Ledger!Complete, Ledger!Drop
  <2>2. interest'[e][k] = interest[e][k] \/ interest'[e][k] = 0
    BY <2>1 DEF Ledger!NoInterest, Ledger!Kind, Kind
  <2>3. Count(e, k)' = Count(e, k)
    BY <1>5, Zenon DEF Ends, Counts
  <2> QED
    BY <2>2, <2>3, <1>a, <1>b, <1>c, SMTT(30) DEF Kept
<1>6. CASE Tells
  <2>1. /\ interest' = interest
        /\ e = Head(completion) => phase[e] = "complete"
        /\ e # Head(completion) => Count(e, k)' = Count(e, k)
    <3>1. Ledger!Take
      BY <1>6, Zenon DEF Tells, TakeCompletion
    <3>2. interest' = interest /\ completion # <<>>
      BY <3>1, Zenon DEF Ledger!Take
    <3>3. completion \in Seq(Entry)
      BY Zenon DEF Typed
    <3>4. 1 \in 1..Len(completion) /\ Head(completion) = completion[1]
      BY <3>2, <3>3
    <3>5. phase[Head(completion)] = "complete"
      BY <3>4, Zenon DEF LedgerShape
    <3> QED
      BY <1>6, <3>2, <3>5, Zenon DEF Tells
  <2> QED
    BY <2>1, <1>a, <1>b, <1>c, <1>d, SMTT(30) DEF Kept
<1>7. CASE Leaves
  <2>1. interest' = interest \/ interest'[e] = Ledger!NoInterest
    BY <1>7, Zenon DEF Leaves
  <2>2. interest'[e][k] = interest[e][k] \/ interest'[e][k] = 0
    BY <2>1, Zenon DEF Ledger!NoInterest, Ledger!Kind, Kind
  <2>3. 0 <= Cardinality(Conn) + Cardinality(Generation)
    BY <1>c
  <2> QED
    BY <2>2, <2>3, <1>7, <1>b, Zenon DEF Kept, Leaves
<1> QED
  BY CountCases, <1>1, <1>2, <1>3, <1>4, <1>5, <1>6, <1>7, ZenonT(40)

-----------------------------------------------------------------------------
(* The books *)

\* Every interest is counted on both sides, nobody waits for a query that does
\* not exist, and a request that came late waits for a completion to be taken.
Books ==
    /\ pc # "exit" =>
          \A e \in Entry, k \in Kind : /\ phase[e] = "active" => interest[e][k] = Count(e, k)
                                       /\ phase[e] = "none" => Count(e, k) = 0
    /\ \A c \in Waiting : \A e \in awaits[c] : phase[e] = "complete"
    /\ ListenerSurvives

\* A completion leaves no mark behind when no closing connection has one.
LEMMA MarksCleared ==
    ASSUME Typed, Places, LedgerShape, ClosingTold, TakeCompletion,
           NEW h \in Entry, h = Head(completion)
    PROVE  \A k \in Kind : Count(h, k)' = 0
<1>1. completion # <<>> /\ pc = "taking"
  BY ZenonT(40) DEF TakeCompletion, Ledger!Take
<1>2. Holders(h)' = {}
  BY ZenonT(40) DEF Holders, TakeCompletion
<1>3. ASSUME NEW c \in Conn PROVE h \notin has'[c]
  <2>1. h \in has[c] => c \in Observers(h)
    BY <1>1, Zenon DEF ClosingTold, Places, Observers, Waiting
  <2>2. has'[c] = IF c \in Observers(h) THEN has[c] \ {h} ELSE has[c]
    BY Zenon DEF TakeCompletion
  <2> QED
    BY <2>1, <2>2, ZenonT(40)
<1>4. Flags(h)' = {}
  BY <1>3 DEF Flags
<1> QED
  BY <1>2, <1>4, FS_EmptySet, Zenon DEF Count

\* An interest that is held is never refused when it is given back.
LEMMA NotRefused ==
    ASSUME Typed, Places, Books
    PROVE  /\ \A c \in Conn, e \in Entry : ~RefusedFlag(c, e)
           /\ \A e \in Entry : ~RefusedHeld(e)
<1>1. ASSUME NEW c \in Conn, NEW e \in Entry, RefusedFlag(c, e) PROVE FALSE
  <2>1. pc # "exit"
    BY <1>1, ZenonT(40) DEF RefusedFlag, Leaving, Doomed, Places
  <2>2. Cardinality(Flags(e)) = 0
    BY <1>1, <2>1 DEF RefusedFlag, Books, Count, Kind
  <2>3. c \in Flags(e)
    BY <1>1 DEF RefusedFlag, Flags
  <2> QED
    BY <2>2, <2>3, Finite, FS_EmptySet
<1>2. ASSUME NEW e \in Entry, RefusedHeld(e) PROVE FALSE
  <2>1. pc # "exit"
    BY <1>2, Zenon DEF RefusedHeld, Collecting
  <2>2. Cardinality(Holders(e)) = 0
    BY <1>2, <2>1, Zenon DEF RefusedHeld, Books, Count, Kind
  <2>3. "retired" \in Holders(e)
    BY <1>2, Zenon DEF RefusedHeld, Holders, Generation
  <2> QED
    BY <2>2, <2>3, Finite, FS_EmptySet, Zenon
<1> QED
  BY <1>1, <1>2

\* The loop is left only by its shutdown.
LEMMA SurvivesStep ==
    ASSUME Typed, Places, Books, Step
    PROVE  ListenerSurvives'
<1> USE DEF loopVars, ledgerVars
<1> SUFFICES ASSUME pc' = "exit", ~ShutDown PROVE pc = "exit" /\ stopped' = stopped
  BY ZenonT(40) DEF Books, ListenerSurvives, ShutDown, Ledger!Shutdown
<1>1. ASSUME NEW c \in Conn, \/ Accept(c) \/ TimerExpires(c) \/ ProgressBegin(c) \/ RouteStart(c)
                             \/ WaiterTimeout(c) \/ Gone(c) \/ CloseInitial(c)
      PROVE  pc = "exit" /\ stopped' = stopped
  BY <1>1, Zenon DEF Accept, TimerExpires, ProgressBegin, RouteStart, WaiterTimeout, Gone, CloseInitial
<1>2. ASSUME NEW e \in Entry, \/ AnswerExpires(e) \/ QueryCompletes(e) \/ QueryDropped(e) \/ DispatchCompletes(e)
                              \/ ReturnHeld(e) \/ DropHeld(e) \/ AskNew(e) \/ AskLate(e) \/ AskRefused(e)
                              \/ PrewarmNew(e) \/ PrewarmSkip(e)
      PROVE  pc = "exit" /\ stopped' = stopped
  BY <1>2, Zenon DEF AnswerExpires, QueryCompletes, QueryDropped, DispatchCompletes, ReturnHeld, DropHeld,
              AskNew, AskLate, AskRefused, PrewarmNew, PrewarmSkip, Ledger!Complete, Ledger!Drop,
              Ledger!Release, Ledger!Schedule
<1>3. ASSUME NEW c \in Conn, NEW e \in Entry, ReturnFlag(c, e) \/ DropFlag(c, e)
      PROVE  pc = "exit" /\ stopped' = stopped
  BY <1>3 DEF ReturnFlag, DropFlag, Ledger!Release
<1>4. ASSUME NEW hungUp \in SUBSET Conn, NEW r \in BOOLEAN, Wake(hungUp, r)
      PROVE  pc = "exit" /\ stopped' = stopped
  BY <1>4 DEF Wake, Signals
<1>5. CASE \/ LoopStep \/ LeaveRoute \/ CloseRoute \/ StayPending
           \/ WarmupDeadline \/ TakeCompletion \/ CollectDone \/ ReloadPublish \/ ReloadKeep \/ PrewarmDone
           \/ UNCHANGED vars
  BY <1>5, ZenonT(40) DEF LoopStep, EventsDone, TakingDone, Signals, ProgressDone, ReadyDone, TimeoutsDone, DestroyDone, LeaveRoute,
              CloseRoute, StayPending, WarmupDeadline, TakeCompletion, Ledger!Take, CollectDone, ReloadPublish,
              Publish, ReloadKeep, PrewarmDone, vars
<1> QED
  BY <1>1, <1>2, <1>3, <1>4, <1>5, NotRefused DEF Step

\* A request that came late still waits for the completion to be taken.
LEMMA AwaitedStep ==
    ASSUME Typed, Places, LedgerShape, Books, Step
    PROVE  \A c \in Waiting' : \A e \in awaits'[c] : phase'[e] = "complete"
<1>a. \A c \in Waiting : \A e \in awaits[c] : phase[e] = "complete"
  BY DEF Books
<1> SUFFICES ASSUME NEW c \in Waiting', NEW e \in awaits'[c] PROVE phase'[e] = "complete"
  OBVIOUS
<1>b. c \in Conn /\ conn'[c] = "ROUTE_WAITING" /\ c \notin closing'
  BY DEF Waiting
<1> USE DEF waiterVars, connVars
<1>1. CASE UNCHANGED <<phase, awaits>> /\ (c \in Waiting \/ awaits[c] = {})
  BY <1>1, <1>a, Zenon
<1>2. ASSUME NEW x \in Entry, phase[x] # "complete", UNCHANGED <<conn, closing, awaits>>,
             \A y \in Entry : y # x => phase'[y] = phase[y]
      PROVE  phase'[e] = "complete"
  BY <1>2, <1>a, <1>b, RouteServiceAssumption, Zenon DEF Waiting, Typed
<1>3. ASSUME NEW x \in Entry, Ledger!Complete(x) \/ Ledger!Drop(x) \/ \E k \in Kind : Ledger!Schedule(x, k) \/ Ledger!Release(x, k)
      PROVE  phase[x] # "complete" /\ \A y \in Entry : y # x => phase'[y] = phase[y]
  BY <1>3, ZenonT(40) DEF Typed, Ledger!Complete, Ledger!Drop, Ledger!Schedule, Ledger!Release
<1>4. ASSUME NEW d \in Conn, \/ Accept(d) \/ TimerExpires(d) \/ ProgressBegin(d) \/ RouteStart(d)
                             \/ WaiterTimeout(d) \/ Gone(d) \/ CloseInitial(d)
      PROVE  phase'[e] = "complete"
  <2>1. UNCHANGED phase
    BY <1>4, ZenonT(40) DEF Accept, TimerExpires, ProgressBegin, RouteStart, WaiterTimeout, Gone, CloseInitial, ledgerVars
  <2>2. CASE Gone(d)
    BY <1>b, <2>1, <2>2, <1>a, Zenon DEF Gone, Forget, Typed, Waiting
  <2>3. CASE ~Gone(d)
    <3>1. UNCHANGED awaits
      BY <1>4, <2>3, ZenonT(40) DEF Accept, TimerExpires, ProgressBegin, RouteStart, WaiterTimeout, CloseInitial
    <3>2. c \in Waiting \/ awaits[c] = {}
      BY <1>4, <2>3, <1>b, ZenonT(40) DEF Accept, TimerExpires, ProgressBegin, RouteStart, WaiterTimeout, CloseInitial, Typed, Places, Waiting
    <3> QED
      BY <2>1, <3>1, <3>2, <1>1, Zenon
  <2> QED
    BY <2>2, <2>3, ZenonT(40)
<1>5. ASSUME NEW x \in Entry, \/ QueryCompletes(x) \/ QueryDropped(x) \/ DispatchCompletes(x)
                              \/ ReturnHeld(x) \/ AskNew(x) \/ PrewarmNew(x)
      PROVE  phase'[e] = "complete"
  <2>1. UNCHANGED <<conn, closing, awaits>>
    BY <1>5, ZenonT(40) DEF QueryCompletes, QueryDropped, DispatchCompletes, ReturnHeld, AskNew, PrewarmNew
  <2>2. Ledger!Complete(x) \/ Ledger!Drop(x) \/ \E k \in Kind : Ledger!Schedule(x, k) \/ Ledger!Release(x, k)
    BY <1>5, ZenonT(40) DEF QueryCompletes, QueryDropped, DispatchCompletes, ReturnHeld, AskNew, PrewarmNew, Kind
  <2> QED
    BY <2>1, <2>2, <1>2, <1>3, ZenonT(40)
<1>6. ASSUME NEW d \in Conn, NEW x \in Entry, ReturnFlag(d, x) PROVE phase'[e] = "complete"
  <2>1. UNCHANGED <<conn, closing, awaits>> /\ \E k \in Kind : Ledger!Release(x, k)
    BY <1>6, ZenonT(40) DEF ReturnFlag, Kind
  <2> QED
    BY <2>1, <1>2, <1>3, ZenonT(40)
<1>7. ASSUME NEW x \in Entry, AskLate(x) PROVE phase'[e] = "complete"
  BY <1>7, <1>a, <1>b, RouteServiceAssumption, ZenonT(40) DEF AskLate, Typed, Places, Waiting, ledgerVars
<1>8. ASSUME NEW x \in Entry, AnswerExpires(x) \/ DropHeld(x) \/ AskRefused(x) \/ PrewarmSkip(x) PROVE phase'[e] = "complete"
  BY <1>8, <1>1, <1>b DEF AnswerExpires, DropHeld, AskRefused, PrewarmSkip, Waiting, ledgerVars
<1>9. ASSUME NEW d \in Conn, NEW x \in Entry, DropFlag(d, x) PROVE phase'[e] = "complete"
  BY <1>9, <1>1, <1>b, Zenon DEF DropFlag, Waiting, ledgerVars
<1>10. ASSUME Fail PROVE FALSE
  BY <1>10, <1>b, SMTT(30) DEF Fail
<1>11. ASSUME NEW hungUp \in SUBSET Conn, NEW r \in BOOLEAN, Wake(hungUp, r) PROVE phase'[e] = "complete"
  BY <1>11, <1>1, <1>b, ZenonT(40) DEF Wake, Waiting, ledgerVars
<1>12. CASE \/ LoopStep \/ CloseRoute \/ StayPending \/ WarmupDeadline \/ CollectDone \/ ReloadPublish
            \/ ReloadKeep \/ PrewarmDone \/ UNCHANGED vars
  <2>1. UNCHANGED <<phase, awaits, conn>> /\ closing \subseteq closing'
    BY <1>12, ZenonT(40) DEF LoopStep, CloseRoute, StayPending, WarmupDeadline, CollectDone, ReloadPublish, ReloadKeep,
                 PrewarmDone, vars, ledgerVars
  <2> QED
    BY <2>1, <1>1, <1>b DEF Waiting
<1>13. CASE LeaveRoute
  BY <1>13, <1>a, <1>b, Zenon DEF LeaveRoute, Forget, Typed, Waiting, ledgerVars
<1>14. CASE TakeCompletion
  <2>1. /\ UNCHANGED <<conn, closing>>
        /\ awaits'[c] = IF c \in Observers(Head(completion)) THEN awaits[c] \ {Head(completion)} ELSE awaits[c]
        /\ phase' = [phase EXCEPT ![Head(completion)] = "none"]
    BY <1>14, <1>b, Zenon DEF TakeCompletion, Ledger!Take
  <2>2. c \in Waiting /\ e \in awaits[c] /\ e \in Entry /\ e \in Route[c]
    BY <2>1, <1>b, ZenonT(40) DEF Waiting, Typed, Places
  <2>3. e # Head(completion)
    BY <2>1, <2>2 DEF Observers
  <2> QED
    BY <2>1, <2>2, <2>3, <1>a, ZenonT(40) DEF Typed
<1>15. CASE ShutDown
  BY <1>15, <1>b, ZenonT(40) DEF ShutDown, Doomed
<1> QED
  BY <1>4, <1>5, <1>6, <1>7, <1>8, <1>9, <1>10, <1>11, <1>12, <1>13, <1>14, <1>15, ZenonT(40) DEF Step, RefusedFlag, RefusedHeld

\* Both sides still agree.
LEMMA BooksStep ==
    ASSUME Typed, Typed', Places, LedgerShape, ClosingTold, Books, Step
    PROVE  Books'
<1>a. /\ phase \in [Entry -> {"none", "active", "complete"}]
      /\ interest \in [Entry -> [Kind -> Nat]]
      /\ completion \in Seq(Entry)
  BY ZenonT(40) DEF Typed
<1>b. \A e \in Entry, k \in Kind : Count(e, k) \in Nat /\ Count(e, k)' \in Nat
  <2>1. (\A e \in Entry, k \in Kind : Count(e, k) \in Nat /\ Count(e, k) <= Cardinality(Conn) + Cardinality(Generation))'
    BY CountType, PTL
  <2> QED
    BY <2>1, CountType, Zenon
<1>c. \A e \in Entry : phase[e] # "active" => \A k \in Kind : interest[e][k] = 0
  BY DEF LedgerShape, Ledger!NoInterest, Ledger!Kind, Kind
<1>d. ASSUME pc' # "exit", NEW e \in Entry, NEW k \in Kind
      PROVE  (phase'[e] = "active" => interest'[e][k] = Count(e, k)') /\ (phase'[e] = "none" => Count(e, k)' = 0)
  <2> DEFINE Agree == (phase'[e] = "active" => interest'[e][k] = Count(e, k)') /\ (phase'[e] = "none" => Count(e, k)' = 0)
  <2>a. (phase[e] = "active" => interest[e][k] = Count(e, k)) /\ (phase[e] = "none" => Count(e, k) = 0)
    BY <1>d, ExitStays, Zenon DEF Books
  <2>1. CASE Steady
    BY <2>1, <2>a, Zenon DEF Steady, Counts
  <2>2. ASSUME NEW x \in Entry, NEW j \in Kind, Takes(x, j) PROVE Agree
    <3>1. /\ phase[x] # "complete"
          /\ phase'[e] = IF e = x THEN "active" ELSE phase[e]
          /\ interest'[e][k] = IF e = x /\ k = j THEN interest[e][k] + 1 ELSE interest[e][k]
          /\ Count(e, k)' = IF e = x /\ k = j THEN Count(e, k) + 1 ELSE Count(e, k)
      BY <2>2, <1>a, Zenon DEF Takes, Moves, Ledger!Schedule
    <3>2. CASE e = x
      <4>1. interest[e][k] = Count(e, k)
        BY <3>1, <3>2, <2>a, <1>a, <1>c, SMTT(30)
      <4> QED
        BY <4>1, <3>1, <3>2, ZenonT(40)
    <3>3. CASE e # x
      BY <3>1, <3>3, <2>a
    <3> QED
      BY <3>2, <3>3, Zenon
  <2>3. ASSUME NEW x \in Entry, NEW j \in Kind, Returns(x, j) PROVE Agree
    <3>1. /\ interest'[e][k] = IF e = x /\ k = j THEN interest[e][k] - 1 ELSE interest[e][k]
          /\ Count(e, k)' = IF e = x /\ k = j THEN Count(e, k) - 1 ELSE Count(e, k)
          /\ phase[x] = "active"
          /\ e # x => phase'[e] = phase[e]
          /\ phase'[x] = "active" \/ interest'[x] = Ledger!NoInterest
      BY <2>3, <1>a, ZenonT(40) DEF Returns, Moves, Ledger!Release
    <3>2. CASE e = x
      <4>1. interest'[e][k] = Count(e, k)'
        BY <3>1, <3>2, <2>a
      <4>2. phase'[e] = "active" \/ interest'[e][k] = 0
        BY <3>1, <3>2, ZenonT(40) DEF Ledger!NoInterest, Ledger!Kind, Kind
      <4> QED
        BY <4>1, <4>2, SMTT(30)
    <3>3. CASE e # x
      BY <3>1, <3>3, <2>a, ZenonT(40)
    <3> QED
      BY <3>2, <3>3
  <2>4. ASSUME NEW x \in Entry, NEW j \in Kind, Settles(x, j) PROVE Agree
    <3>1. /\ phase' = phase /\ interest' = interest /\ phase[x] # "active"
          /\ Count(e, k)' = IF e = x /\ k = j THEN Count(e, k) - 1 ELSE Count(e, k)
      BY <2>4, Zenon DEF Settles, Moves
    <3> QED
      BY <3>1, <2>a, <1>b
  <2>5. ASSUME NEW x \in Entry, Ends(x) PROVE Agree
    <3>1. Count(e, k)' = Count(e, k)
      BY <2>5 DEF Ends, Counts
    <3>2. CASE Ledger!Complete(x)
      BY <3>1, <3>2, <2>a, <1>a, SMTT(30) DEF Ledger!Complete
    <3>3. CASE Ledger!Drop(x)
      <4>1. /\ phase' = [phase EXCEPT ![x] = "none"] /\ interest' = interest
            /\ phase[x] = "active" /\ interest[x] = Ledger!NoInterest
        BY <3>3 DEF Ledger!Drop, Ledger!Wanted
      <4>2. e = x => interest[e][k] = 0
        BY <4>1, SMTT(30) DEF Ledger!NoInterest, Ledger!Kind, Kind
      <4> QED
        BY <4>1, <4>2, <3>1, <2>a, <1>a
    <3> QED
      BY <2>5, <3>2, <3>3 DEF Ends
  <2>6. CASE Tells
    <3>1. CASE e = Head(completion)
      <4>1. phase'[e] = "none"
        BY <2>6, <3>1, <1>a, Zenon DEF Tells, TakeCompletion, Ledger!Take
      <4>2. Count(e, k)' = 0
        BY <2>6, <3>1, MarksCleared, SMTT(30) DEF Tells
      <4> QED
        BY <4>1, <4>2, SMTT(30)
    <3>2. CASE e # Head(completion)
      <4>1. phase'[e] = phase[e] /\ interest'[e] = interest[e] /\ Count(e, k)' = Count(e, k)
        BY <2>6, <3>2, <1>a, Zenon DEF Tells, TakeCompletion, Ledger!Take
      <4> QED
        BY <4>1, <2>a
    <3> QED
      BY <3>1, <3>2
  <2>7. ~Leaves
    BY <1>d DEF Leaves
  <2> QED
    BY CountCases, <2>1, <2>2, <2>3, <2>4, <2>5, <2>6, <2>7, ZenonT(40)
<1>e. (\A c \in Waiting : \A e \in awaits[c] : phase[e] = "complete")'
  BY AwaitedStep
<1> QED
  BY <1>d, <1>e, SurvivesStep, ZenonT(40) DEF Books

-----------------------------------------------------------------------------
(* Every pending waiter has asked *)

\* Outside the calls that make it progress a waiter has a query to wait for.
Asked ==
    pc \notin {"events", "taking", "stopping", "exit"} =>
        \A c \in Waiting : c = cur \/ c \in todo \/ has[c] \cup awaits[c] # {}

\* The answer a waiter waits for is one it has asked for.
LEMMA PendingAsked ==
    ASSUME NEW c \in Conn, Verdict(c) = "PENDING", Needed(c) = {}
    PROVE  has[c] \cup awaits[c] # {}
<1>1. \E e \in Route[c] : Seen(c, e) = "empty"
  BY DEF Verdict
<1> QED
  BY <1>1 DEF Needed

\* Every step keeps it so.
LEMMA AskedStep ==
    ASSUME Typed, Places, Asked, Step
    PROVE  Asked'
<1> USE DEF Asked, Waiting, waiterVars, connVars, loopVars
<1>1. ASSUME NEW c \in Conn, Accept(c) \/ TimerExpires(c) \/ CloseInitial(c) PROVE Asked'
  <2>1. CASE Accept(c)
    <3>1. /\ UNCHANGED <<has, awaits, closing, todo, cur, pc>> /\ conn'[c] # "ROUTE_WAITING"
          /\ \A d \in Conn \ {c} : conn'[d] = conn[d]
      BY <2>1 DEF Accept, Typed
    <3> QED  BY <3>1, Zenon
  <2>2. CASE TimerExpires(c)
    BY <2>2, Zenon DEF TimerExpires
  <2>3. CASE CloseInitial(c)
    <3>1. /\ UNCHANGED <<has, awaits, todo, cur, pc, conn>> /\ closing \subseteq closing'
      BY <2>3, Zenon DEF CloseInitial
    <3> QED  BY <3>1, Zenon
  <2> QED  BY <1>1, <2>1, <2>2, <2>3, Zenon
<1>2. ASSUME NEW c \in Conn, ProgressBegin(c) PROVE Asked'
  BY <1>2, RouteServiceAssumption, Zenon DEF ProgressBegin, Typed
<1>3. ASSUME NEW c \in Conn, RouteStart(c) PROVE Asked'
  BY <1>3, RouteServiceAssumption, ZenonT(40) DEF RouteStart, Typed, Places
<1>4. ASSUME NEW c \in Conn, WaiterTimeout(c) PROVE Asked'
  BY <1>4, RouteServiceAssumption, ZenonT(40) DEF WaiterTimeout, Typed, Places
<1>5. ASSUME NEW c \in Conn, Gone(c) PROVE Asked'
  BY <1>5, ZenonT(40) DEF Gone, Forget, Typed
<1>6. ASSUME NEW e \in Entry, \/ AnswerExpires(e) \/ QueryCompletes(e) \/ QueryDropped(e) \/ DispatchCompletes(e)
                              \/ ReturnHeld(e) \/ DropHeld(e) \/ AskRefused(e) \/ PrewarmNew(e) \/ PrewarmSkip(e)
      PROVE  Asked'
  <2>1. UNCHANGED <<has, awaits, connVars, loopVars>>
    BY <1>6 DEF AnswerExpires, QueryCompletes, QueryDropped, DispatchCompletes, ReturnHeld, DropHeld, AskRefused,
                PrewarmNew, PrewarmSkip
  <2> QED
    BY <2>1, Zenon
<1>7. ASSUME NEW e \in Entry, AskNew(e) \/ AskLate(e) PROVE Asked'
  BY <1>7, ZenonT(40) DEF AskNew, AskLate, Typed
<1>8. ASSUME NEW c \in Conn, NEW e \in Entry, ReturnFlag(c, e) \/ DropFlag(c, e) PROVE Asked'
  BY <1>8, ZenonT(40) DEF ReturnFlag, DropFlag, ClearFlag, Leaving, Doomed, Typed
<1>9. ASSUME Fail PROVE Asked'
  BY <1>9, Zenon DEF Fail
<1>10. ASSUME NEW hungUp \in SUBSET Conn, NEW r \in BOOLEAN, Wake(hungUp, r) PROVE Asked'
  BY <1>10, Zenon DEF Wake, Signals, Places
<1>11. CASE LoopStep
  BY <1>11, ZenonT(40) DEF LoopStep, EventsDone, TakingDone, ProgressDone, ReadyDone, TimeoutsDone, DestroyDone, Signals, Places
<1>12. CASE LeaveRoute
  BY <1>12, Zenon DEF LeaveRoute, Forget, Typed
<1>13. CASE CloseRoute
  BY <1>13, Zenon DEF CloseRoute, Typed
<1>14. CASE StayPending
  BY <1>14, PendingAsked, ZenonT(40) DEF StayPending, Typed
<1>15. CASE WarmupDeadline \/ CollectDone \/ ReloadPublish \/ ReloadKeep \/ PrewarmDone
  BY <1>15, ZenonT(40) DEF WarmupDeadline, CollectDone, Collecting, ReloadPublish, Publish, ReloadKeep, PrewarmDone
<1>16. CASE TakeCompletion
  BY <1>16, ZenonT(40) DEF TakeCompletion
<1>17. CASE ShutDown
  BY <1>17, ZenonT(40) DEF ShutDown
<1>18. CASE UNCHANGED vars
  BY <1>18 DEF vars
<1> HIDE DEF Asked
<1> QED
  BY <1>1, <1>2, <1>3, <1>4, <1>5, <1>6, <1>7, <1>8, <1>9, <1>10, <1>11, <1>12, <1>13, <1>14, <1>15, <1>16, <1>17, <1>18
 , ZenonT(40) DEF Step, RefusedFlag, RefusedHeld

-----------------------------------------------------------------------------
(* The theorems *)

\* What holds whatever the batches look like.
Shape == Typed /\ Places /\ LedgerShape /\ Bounded

\* The runtime starts with no connection, no generation and no query.
LEMMA ShapeInit == Init => Shape /\ Books /\ Asked
<1> SUFFICES ASSUME Init PROVE Shape /\ Books /\ Asked
  BY SMTT(30)
<1> USE RouteServiceAssumption DEF Init, Ledger!Init, Ledger!NoInterest, Ledger!Kind, Kind, Generation
<1>1. Typed
  <2>1. /\ phase \in [Entry -> {"none", "active", "complete"}]
        /\ completion \in Seq(Entry) /\ stopped \in BOOLEAN
        /\ interest \in [Entry -> [Kind -> Nat]]
    <3>1. phase = [e \in Entry |-> "none"] /\ completion = <<>> /\ stopped = FALSE
      OBVIOUS
    <3>2. interest = [e \in Entry |-> [k \in Kind |-> 0]]
      OBVIOUS
    <3>3. [k \in Kind |-> 0] \in [Kind -> Nat]
      OBVIOUS
    <3> HIDE DEF Kind
    <3>4. interest \in [Entry -> [Kind -> Nat]]
      BY <3>2, <3>3
    <3>5. stopped \in BOOLEAN
      BY <3>1, Zenon
    <3>6. phase \in [Entry -> {"none", "active", "complete"}] /\ completion \in Seq(Entry)
      BY <3>1
    <3> QED
      BY <3>4, <3>5, <3>6
  <2>2. /\ answer \in [Entry -> {"empty", "positive", "nodata"}]
        /\ publication \in [Entry -> {"none", "stored", "transient", "failed"}]
        /\ conn \in [Conn -> {"NONE", "INITIAL", "ROUTE_WAITING"}]
        /\ pin \in [Conn -> Generation \cup {"none"}]
        /\ has \in [Conn -> SUBSET Entry] /\ awaits \in [Conn -> SUBSET Entry]
        /\ held \in [Generation -> SUBSET Entry]
    OBVIOUS
  <2>3. overlay \in [Conn -> [Entry -> {"none", "positive", "unavailable"}]]
    BY SMTT(30) DEF NoOverlay
  <2> QED
    BY <2>1, <2>2, <2>3, ZenonT(40) DEF Typed, Phase
<1>2. Places
  BY DEF Places, Waiting, RetiredKeptWhileUsed
<1>3. LedgerShape
  BY DEF LedgerShape
<1>4. \A e \in Entry, k \in Kind : Count(e, k) = 0
  <2>1. ASSUME NEW e \in Entry PROVE Flags(e) = {} /\ Holders(e) = {}
    BY DEF Flags, Holders
  <2> QED
    BY <2>1, FS_EmptySet, ZenonT(40) DEF Count
<1>5. \A e \in Entry, k \in Kind : interest[e][k] = 0 /\ phase[e] = "none"
  OBVIOUS
<1>6. Cardinality(Conn) + Cardinality(Generation) \in Nat
  BY Generations, FS_CardinalityType, SMTT(30)
<1>7. Bounded
  BY <1>4, <1>5, <1>6, SMTT(30) DEF Bounded
<1>8. Books
  BY <1>4, <1>5, SMTT(30) DEF Books, Waiting, ListenerSurvives
<1>9. Asked
  BY DEF Asked, Waiting
<1> QED
  BY <1>1, <1>2, <1>3, <1>7, <1>8, <1>9 DEF Shape

\* Every step keeps the shape.
LEMMA ShapeNext == Shape /\ [Next]_vars => Shape'
<1> SUFFICES ASSUME Shape, [Next]_vars PROVE Shape'
  BY SMTT(30)
<1>1. Typed /\ Places /\ LedgerShape /\ Bounded /\ cur \in Conn \cup {None}
  BY DEF Shape, Typed
<1>2. Step
  BY <1>1, Cases
<1>3. Typed'
  BY <1>1, <1>2, TypedStep
<1> QED
  BY <1>1, <1>2, <1>3, PlacesStep, LedgerStep, BoundedStep DEF Shape

\* The shape is an invariant.
LEMMA ShapeHolds == Spec => []Shape
BY ShapeInit, ShapeNext, PTL DEF Spec

\* The loop's state is well typed; in particular the interests of an entry are
\* never more than the connections and generations there are, however clients,
\* timers, reloads and the resolver are interleaved.
THEOREM RouteServiceTypes == Spec => []TypeOK
<1>1. Shape => TypeOK
  <2> SUFFICES ASSUME Shape PROVE TypeOK
    OBVIOUS
  <2>1. Cardinality(Conn) + Cardinality(Generation) \in Nat
    BY Generations, FS_CardinalityType, RouteServiceAssumption, SMTT(30)
  <2>2. interest \in [Entry -> [Kind -> 0..(Cardinality(Conn) + Cardinality(Generation))]]
    BY <2>1 DEF Shape, Typed, Bounded
  <2> QED
    BY <2>2 DEF Shape, Typed, TypeOK
<1> QED
  BY <1>1, ShapeHolds, PTL

\* A retired generation is dropped only when no connection is pinned to it and
\* all its interests have been given back.
THEOREM RetiredKept == Spec => []RetiredKeptWhileUsed
<1>1. Shape => RetiredKeptWhileUsed
  BY DEF Shape, Places
<1> QED
  BY <1>1, ShapeHolds, PTL

\* A pending waiter always waits for an entry it has asked for.
LEMMA AskedHolds == Spec => []Asked
<1>1. Shape /\ Asked /\ [Next]_vars => Asked'
  BY Cases, AskedStep DEF Shape, Typed
<1> QED
  BY <1>1, ShapeInit, ShapeHolds, PTL DEF Spec

\* The books stay balanced as long as no completion is taken past a closing
\* connection.
LEMMA BooksHold == Spec /\ []ClosingTold => []Books
<1>1. Shape /\ Shape' /\ ClosingTold /\ Books /\ [Next]_vars => Books'
  BY Cases, BooksStep, Zenon DEF Shape, Typed
<1> QED
  BY <1>1, ShapeInit, ShapeHolds, PTL DEF Spec

\* The listener and the supervisor keep the same books, however connections,
\* completions, deadlines, reloads and refusals are interleaved, as long as no
\* completion is taken while a closing connection still holds an interest in
\* it: the one event that listener_resolver_events_process has no answer to.
THEOREM BooksBalance == Spec /\ []ClosingTold => []BooksAgree
<1>1. Books => BooksAgree
  <2> SUFFICES ASSUME Books, pc # "exit", NEW e \in Entry
               PROVE  /\ phase[e] = "active" =>
                            /\ interest[e]["INTERACTIVE"] = Cardinality(Flags(e))
                            /\ interest[e]["BACKGROUND"] = Cardinality(Holders(e))
                      /\ phase[e] = "none" =>
                            /\ \A c \in Waiting : e \notin has[c] \cup awaits[c]
                            /\ \A g \in Generation : e \notin held[g]
    BY ZenonT(40) DEF BooksAgree, Flags, Holders
  <2>1. phase[e] = "active" => interest[e]["INTERACTIVE"] = Cardinality(Flags(e)) /\ interest[e]["BACKGROUND"] = Cardinality(Holders(e))
    BY DEF Books, Count, Kind
  <2>2. ASSUME phase[e] = "none" PROVE Flags(e) = {} /\ Holders(e) = {}
    <3>1. Cardinality(Flags(e)) = 0 /\ Cardinality(Holders(e)) = 0
      BY <2>2, SMTT(30) DEF Books, Count, Kind
    <3> QED
      BY <3>1, Finite, FS_EmptySet, SMTT(30)
  <2> QED
    BY <2>1, <2>2, ZenonT(40) DEF Books, Flags, Holders, Waiting
<1> QED
  BY <1>1, BooksHold, PTL

\* Under the same condition the listener never leaves its loop over an
\* interest it gives back.
THEOREM LoopSurvives == Spec /\ []ClosingTold => []ListenerSurvives
<1>1. Books => ListenerSurvives
  BY DEF Books
<1> QED
  BY <1>1, BooksHold, PTL

\* Under the same condition the interest of a connection that is not closing
\* keeps its query alive: "A STARTED or COALESCED result retains one
\* interactive interest until release or completion" (supervisor.h).
THEOREM InterestRetained == Spec /\ []ClosingTold => []InterestKept
<1>1. Shape /\ Books => InterestKept
  <2> SUFFICES ASSUME Shape, Books, NEW c \in Waiting, NEW e \in has[c]
               PROVE  phase[e] = "complete" \/ (phase[e] = "active" /\ interest[e]["INTERACTIVE"] > 0)
    BY SMTT(30) DEF InterestKept
  <2>1. c \in Conn /\ e \in Entry /\ pc # "exit" /\ c \in Flags(e)
    BY Zenon DEF Shape, Typed, Places, Waiting, Flags
  <2>2. Cardinality(Flags(e)) \in Nat /\ Cardinality(Flags(e)) # 0
    <3>1. IsFiniteSet(Flags(e)) /\ Flags(e) # {}
      BY <2>1, Finite, ZenonT(40)
    <3> QED BY <3>1, FS_EmptySet, FS_CardinalityType, Zenon
  <2>3. Count(e, "INTERACTIVE") = Cardinality(Flags(e)) /\ "INTERACTIVE" \in Kind
    BY SMTT(30) DEF Count, Kind
  <2>4. phase[e] \in {"none", "active", "complete"}
    BY <2>1 DEF Shape, Typed
  <2> QED
    <3> DEFINE n == Count(e, "INTERACTIVE")
    <3>1. /\ n \in Nat /\ n # 0
          /\ phase[e] = "active" => interest[e]["INTERACTIVE"] = n
          /\ phase[e] = "none" => n = 0
      BY <2>1, <2>2, <2>3, Zenon DEF Books
    <3> HIDE DEF n
    <3>2. n > 0
      BY <3>1
    <3> QED
      BY <2>4, <3>1, <3>2, Zenon
<1> QED
  BY <1>1, BooksHold, ShapeHolds, PTL

\* Under the same condition no waiter sleeps without a query that will wake it.
THEOREM WaitersHaveQueries == Spec /\ []ClosingTold => []PendingHasQuery
<1>1. Shape /\ Books /\ Asked => PendingHasQuery
  <2> SUFFICES ASSUME Shape, Books, Asked, pc = "wait", NEW c \in Waiting
               PROVE  \E e \in Route[c] : e \in has[c] \cup awaits[c] /\ phase[e] # "none"
    BY ZenonT(40) DEF PendingHasQuery
  <2>1. cur = None /\ todo = {} /\ c \in Conn /\ c # None
    BY RouteServiceAssumption, ZenonT(40) DEF Shape, Places, Waiting
  <2>2. PICK e \in has[c] \cup awaits[c] : TRUE
    BY <2>1, ZenonT(40) DEF Asked
  <2>3. e \in Route[c] /\ e \in Entry
    BY <2>1, <2>2, RouteServiceAssumption, ZenonT(40) DEF Shape, Places
  <2>4. CASE e \in awaits[c]
    BY <2>2, <2>3, <2>4, ZenonT(40) DEF Books
  <2>5. CASE e \in has[c]
    <3>1. c \in Flags(e)
      BY <2>1, <2>5, SMTT(30) DEF Flags
    <3>2. Cardinality(Flags(e)) # 0
      BY <3>1, <2>3, Finite, FS_EmptySet, ZenonT(40)
    <3>3. Count(e, "INTERACTIVE") # 0 /\ "INTERACTIVE" \in Kind
      BY <3>2 DEF Count, Kind
    <3> QED
      BY <2>2, <2>3, <3>3, SMTT(30) DEF Books
  <2> QED
    BY <2>2, <2>4, <2>5, ZenonT(40)
<1> QED
  BY <1>1, BooksHold, AskedHolds, ShapeHolds, PTL
=============================================================================

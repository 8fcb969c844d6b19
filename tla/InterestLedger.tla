--------------------------- MODULE InterestLedger ---------------------------
(***************************************************************************)
(* What the resolver supervisor promises the listener (the contract in     *)
(* src/resolver/supervisor.h), without helpers, queues, retries or timers: *)
(* per cache entry at most one query, the interests that keep it alive,    *)
(* and a FIFO of completions.  Supervisor.tla implements it.               *)
(***************************************************************************)
EXTENDS Integers, Sequences

CONSTANTS
    Entry,          \* cache entries
    InterestLimit   \* RESOLVER_SUPERVISOR_INTEREST_COUNT_LIMIT

VARIABLES
    phase,       \* "none", "active" (a query is under way) or "complete"
    interest,    \* interactive and background interests held in the query
    completion,  \* the completions not yet taken, oldest first
    fresh,       \* the cache holds an unexpired answer
    stopped      \* the supervisor shuts down

ledger == <<phase, interest, completion, fresh, stopped>>

Kind == {"INTERACTIVE", "BACKGROUND"}
NoInterest == [k \in Kind |-> 0]
Wanted(e) == interest[e] # NoInterest

Init ==
    /\ phase = [e \in Entry |-> "none"]
    /\ interest = [e \in Entry |-> NoInterest]
    /\ completion = <<>>
    /\ fresh = [e \in Entry |-> FALSE]
    /\ stopped = FALSE

\* STARTED or COALESCED: the caller holds one more interest.
Schedule(e, k) ==
    /\ ~stopped
    /\ ~fresh[e]
    /\ phase[e] # "complete"
    /\ interest[e][k] < InterestLimit
    /\ phase' = [phase EXCEPT ![e] = "active"]
    /\ interest' = [interest EXCEPT ![e][k] = @ + 1]
    /\ UNCHANGED <<completion, fresh, stopped>>

\* One interest is given back.  A query nobody wants may be abandoned at
\* once or left to its helper.
Release(e, k) ==
    /\ ~stopped
    /\ phase[e] = "active"
    /\ interest[e][k] > 0
    /\ interest' = [interest EXCEPT ![e][k] = @ - 1]
    /\ \/ UNCHANGED phase
       \/ /\ interest'[e] = NoInterest
          /\ phase' = [phase EXCEPT ![e] = "none"]
    /\ UNCHANGED <<completion, fresh, stopped>>

\* An unwanted query ends unnoticed, but its answer may be kept.
Drop(e) ==
    /\ phase[e] = "active"
    /\ ~Wanted(e)
    /\ phase' = [phase EXCEPT ![e] = "none"]
    /\ \E f \in BOOLEAN : fresh' = [fresh EXCEPT ![e] = f]
    /\ UNCHANGED <<interest, completion, stopped>>

\* A wanted query ends: "Completion releases every remaining interest
\* implicitly."
Complete(e) ==
    /\ phase[e] = "active"
    /\ Wanted(e)
    /\ phase' = [phase EXCEPT ![e] = "complete"]
    /\ interest' = [interest EXCEPT ![e] = NoInterest]
    /\ completion' = Append(completion, e)
    /\ \E f \in BOOLEAN : fresh' = [fresh EXCEPT ![e] = f]
    /\ UNCHANGED stopped

Take ==
    /\ completion # <<>>
    /\ phase' = [phase EXCEPT ![Head(completion)] = "none"]
    /\ completion' = Tail(completion)
    /\ UNCHANGED <<interest, fresh, stopped>>

Shutdown ==
    /\ ~stopped
    /\ stopped' = TRUE
    /\ phase' = [e \in Entry |-> "none"]
    /\ interest' = [e \in Entry |-> NoInterest]
    /\ completion' = <<>>
    /\ UNCHANGED fresh

\* The answer's time to live runs out.
Expire(e) ==
    /\ fresh[e]
    /\ fresh' = [fresh EXCEPT ![e] = FALSE]
    /\ UNCHANGED <<phase, interest, completion, stopped>>

Next ==
    \/ \E e \in Entry, k \in Kind : Schedule(e, k) \/ Release(e, k)
    \/ \E e \in Entry : Drop(e) \/ Complete(e) \/ Expire(e)
    \/ Take
    \/ Shutdown

Spec == Init /\ [][Next]_ledger
=============================================================================

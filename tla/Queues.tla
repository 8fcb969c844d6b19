------------------------------- MODULE Queues -------------------------------
(* The doubly linked job lists of src/resolver/supervisor.c, as sequences. *)
EXTENDS Integers, Seqs

\* q holds exactly the members of S, each once.
Lists(q, S) == IsInjective(q) /\ Range(q) = S

\* job_queue_remove: q without e, which is on it.
NothingRemoved(q, e) == q   \* seeded fault: the job stays linked
Without(q, e) == RemoveAt(q, CHOOSE i \in DOMAIN q : q[i] = e)
=============================================================================

---------------------------- MODULE MCSupervisor ----------------------------
(* Supervisor.tla for TLC. *)
EXTENDS Supervisor, TLC

\* No action tells two entries apart: sound for the runs without liveness.
EntrySymmetry == Permutations(Entry)
=============================================================================

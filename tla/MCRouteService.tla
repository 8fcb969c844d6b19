--------------------------- MODULE MCRouteService ---------------------------
(* Instances of RouteService for TLC: every route can use every entry, and   *)
(* connections and entries are interchangeable.                              *)
EXTENDS RouteService, TLC

MCRoute == [c \in Conn |-> Entry]

Symmetry == Permutations(Conn) \cup Permutations(Entry)
=============================================================================

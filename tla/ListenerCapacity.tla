-------------------------- MODULE ListenerCapacity --------------------------
(***************************************************************************)
(* The listener's limits (Listener.tla), for any number of connections,    *)
(* any limits and any faults: connections and workers together stay within *)
(* the descriptors they may use, and no worker is lost or waited for       *)
(* twice.  CapacityKept is not inductive: while a batch is served a client *)
(* handed to a worker is counted twice, as a worker and as a connection    *)
(* still to be destroyed, so the limit is kept up to those clients.        *)
(***************************************************************************)
EXTENDS ListenerProofs, WellFoundedInduction

----------------------------------------------------------------------------
(* The inductive invariant.                                                *)

\* The clients a worker has taken over and the loop has yet to destroy.
Handed == {c \in Live : conn[c].forked}

\* The list of workers.
Workers ==
    /\ pids \in Seq(Conns) /\ Len(pids) <= LISTENER_WORKER_LIMIT
    /\ IsInjective(pids) /\ Range(pids) = {c \in Conns : child[c] \in {"running", "zombie"}}

\* A worker that has died is going to be waited for.
Deaths == \A c \in Conns : child[c] = "zombie" => "CHLD" \in signals \/ (pc = "signals" /\ requests.child)

\* The number of connections, and the room they and the workers take.
Room ==
    /\ IsFiniteSet(Live)
    /\ pc # "exited" => /\ connection_count = Cardinality(Live)
                        /\ connection_count + Len(pids) <= connection_limit + Cardinality(Handed)
    /\ pc = "signals" => Handed = {}

CapacityInv == Workers /\ Deaths /\ Room

----------------------------------------------------------------------------
(* Waiting for dead workers.                                               *)

\* Induction over the naturals, as a statement about sets.
LEMMA NatSetInduction ==
    ASSUME NEW S, 0 \in S, \A n \in Nat : n \in S => n + 1 \in S
    PROVE  Nat \subseteq S
<1> DEFINE rest == Nat \ S
<1>1. SUFFICES ASSUME rest # {} PROVE FALSE
  OBVIOUS
<1>2. PICK least \in rest : \A n \in rest : ~(<<n, least>> \in OpToRel(<, Nat))
  BY <1>1, NatLessThanWellFounded, WFMin, Zenon
<1>3. least \in Nat /\ least # 0
  OBVIOUS
<1>4. least - 1 \in Nat /\ least - 1 < least
  BY <1>3
<1>5. least - 1 \notin rest
  BY <1>2, <1>3, <1>4, Zenon DEF OpToRel
<1>6. QED
  BY <1>3, <1>4, <1>5

\* One turn of the loop over the list of workers, and the recursion that the
\* loop is (listener_workers_reap).
ReapTurn(r) ==
    IF child[r.pids[r.index]] = "zombie"
    THEN [r EXCEPT !.pids = Front([@ EXCEPT ![r.index] = Last(r.pids)])]
    ELSE [r EXCEPT !.index = @ + 1]
IsReaping(f, list) ==
    f = [n \in 0..Len(list) |-> IF n = 0 THEN [pids |-> list, index |-> 1] ELSE ReapTurn(f[n - 1])]

\* The recursion has a solution.
LEMMA ReapingExists ==
    ASSUME NEW list, Len(list) \in Nat
    PROVE  \E f : IsReaping(f, list)
<1> DEFINE first == [pids |-> list, index |-> 1]
           Solves(g, m) == \A n \in 0..m : g[n] = IF n = 0 THEN first ELSE ReapTurn(g[n - 1])
           Solvable == {m \in Nat : \E g : g = [n \in 0..m |-> g[n]] /\ Solves(g, m)}
<1> HIDE DEF first
<1>1. 0 \in Solvable
  <2> DEFINE g == [n \in 0..0 |-> first]
  <2>1. g = [n \in 0..0 |-> g[n]] /\ Solves(g, 0)
    OBVIOUS
  <2> QED  BY <2>1, Zenon
<1>2. ASSUME NEW m \in Nat, m \in Solvable PROVE m + 1 \in Solvable
  <2>1. PICK g : Solves(g, m)
    BY <1>2
  <2> DEFINE h == [n \in 0..(m + 1) |-> IF n = m + 1 THEN ReapTurn(g[m]) ELSE g[n]]
  <2>2. \A n \in 0..(m + 1) : n # m + 1 => n \in 0..m /\ h[n] = g[n]
    OBVIOUS
  <2>3. \A n \in 0..m : n # 0 => n - 1 \in 0..m /\ n - 1 \in 0..(m + 1) /\ n - 1 # m + 1
    OBVIOUS
  <2>4. m \in 0..(m + 1) /\ m # m + 1 /\ m + 1 - 1 = m /\ m + 1 # 0 /\ m + 1 \in 0..(m + 1) /\ m + 1 \in Nat
    OBVIOUS
  <2>5. h[m + 1] = ReapTurn(g[m])
    BY <2>4, Zenon
  <2> HIDE DEF h
  <2>6. ASSUME NEW n \in 0..(m + 1) PROVE h[n] = IF n = 0 THEN first ELSE ReapTurn(h[n - 1])
    <3>1. CASE n = m + 1
      <4>1. n - 1 = m /\ n # 0
        BY <3>1
      <4>2. h[m] = g[m]
        BY <2>2, <2>4, Zenon
      <4> QED  BY <2>5, <3>1, <4>1, <4>2, Zenon
    <3>2. CASE n # m + 1
      BY <2>1, <2>2, <2>3, <3>2, Zenon
    <3> QED  BY <3>1, <3>2, Zenon
  <2>7. h = [n \in 0..(m + 1) |-> h[n]]
    BY DEF h
  <2> QED  BY <2>4, <2>6, <2>7, Zenon
<1>3. Len(list) \in Solvable
  <2> HIDE DEF Solvable
  <2> QED  BY <1>1, <1>2, NatSetInduction, ZenonT(40)
<1>4. PICK g : g = [n \in 0..Len(list) |-> g[n]] /\ Solves(g, Len(list))
  BY <1>3, Zenon
<1>5. g = [n \in 0..Len(list) |-> IF n = 0 THEN first ELSE ReapTurn(g[n - 1])]
  BY <1>4, Zenon
<1>6. QED
  BY <1>5, Zenon DEF IsReaping, first

\* The loop's result is the list after as many turns as it had members.
LEMMA ReapSolves ==
    ASSUME NEW list, Len(list) \in Nat
    PROVE  \E f : IsReaping(f, list) /\ listener_workers_reap(list) = f[Len(list)].pids
<1> DEFINE g == CHOOSE f : IsReaping(f, list)
<1>1. IsReaping(g, list)
  BY ReapingExists, Zenon
<1>2. listener_workers_reap(list) = g[Len(list)].pids
  BY Zenon DEF listener_workers_reap, IsReaping, ReapTurn
<1>3. QED
  BY <1>1, <1>2, Zenon

\* A dead worker's place goes to the last one: no other is lost.
LEMMA PlaceTaken ==
    ASSUME NEW p \in Seq(Conns), IsInjective(p), NEW i \in 1..Len(p)
    PROVE  LET q == Front([p EXCEPT ![i] = Last(p)])
           IN  /\ q \in Seq(Conns) /\ IsInjective(q) /\ Len(q) = Len(p) - 1
               /\ Range(q) = Range(p) \ {p[i]}
               /\ \A j \in 1..Len(q) : j < i => q[j] = p[j]
<1> DEFINE e == [p EXCEPT ![i] = Last(p)]
           q == Front(e)
           n == Len(p)
<1>1. n \in Nat /\ n >= 1 /\ i \in 1..n /\ Last(p) = p[n] /\ DOMAIN p = 1..n
  BY DEF Last
<1>2. e \in Seq(Conns) /\ Len(e) = n /\ \A j \in 1..n : (j = i => e[j] = p[n]) /\ (j # i => e[j] = p[j])
  BY <1>1
<1> HIDE DEF e
<1>3. q \in Seq(Conns) /\ Len(q) = n - 1 /\ DOMAIN q = 1..(n - 1) /\ \A j \in 1..(n - 1) : q[j] = e[j]
  BY <1>1, <1>2 DEF Front
<1>5. \A j, k \in 1..n : p[j] = p[k] => j = k
  BY <1>1, Zenon DEF IsInjective
<1> HIDE DEF q, n
<1>0. n \in 1..n /\ \A j \in 1..(n - 1) : j \in 1..n /\ j # n
  BY <1>1
<1>4. \A j \in 1..(n - 1) : (j = i => q[j] = p[n]) /\ (j # i => q[j] = p[j])
  BY <1>0, <1>2, <1>3, Zenon
<1>6. IsInjective(q)
  <2>1. ASSUME NEW j \in 1..(n - 1), NEW k \in 1..(n - 1), q[j] = q[k] PROVE j = k
    BY <1>0, <1>4, <1>5, <2>1, Zenon
  <2> QED  BY <1>3, <2>1, Zenon DEF IsInjective
<1>7. Range(q) = Range(p) \ {p[i]}
  <2>1. ASSUME NEW j \in 1..(n - 1) PROVE q[j] \in Range(p) \ {p[i]}
    <3>1. PICK k \in 1..n : k # i /\ q[j] = p[k]
      BY <1>0, <1>4, Zenon
    <3>2. p[k] # p[i] /\ p[k] \in Range(p)
      BY <1>1, <1>5, <3>1, Zenon DEF Range
    <3> QED  BY <3>1, <3>2, Zenon
  <2>2. ASSUME NEW k \in 1..n, k # i PROVE p[k] \in Range(q)
    <3>1. CASE k = n
      <4>1. i \in 1..(n - 1)
        BY <1>1, <2>2, <3>1, SMT
      <4>2. q[i] = p[k]
        BY <1>4, <3>1, <4>1, Zenon
      <4> QED  BY <1>3, <4>1, <4>2, Zenon DEF Range
    <3>2. CASE k # n
      <4>1. k \in 1..(n - 1)
        BY <1>1, <3>2
      <4>2. q[k] = p[k]
        BY <1>4, <2>2, <4>1, Zenon
      <4> QED  BY <1>3, <4>1, <4>2, Zenon DEF Range
    <3> QED  BY <3>1, <3>2
  <2>3. Range(q) \subseteq Range(p) \ {p[i]}
    BY <1>3, <2>1, Zenon DEF Range
  <2>4. \A x \in Range(p) \ {p[i]} : \E k \in 1..n : x = p[k] /\ k # i
    BY <1>1, Zenon DEF Range
  <2> QED  BY <2>2, <2>3, <2>4, Zenon
<1>8. \A j \in 1..(n - 1) : j < i => q[j] = p[j]
  <2>1. \A j \in 1..(n - 1) : j < i => j # i
    BY <1>1
  <2> QED  BY <1>4, <2>1, Zenon
<1>9. QED
  BY <1>3, <1>6, <1>7, <1>8, Zenon DEF q, e, n

\* The state of the loop over a list of workers after n turns: what it has
\* passed lives, and what it has taken out was dead.
Reaping(r, list, n) ==
    /\ DOMAIN r = {"pids", "index"}
    /\ r.pids \in Seq(Conns) /\ IsInjective(r.pids) /\ r.index \in Nat /\ r.index >= 1
    /\ Len(r.pids) + n + 1 = Len(list) + r.index /\ Len(r.pids) <= Len(list)
    /\ \A i \in 1..Len(r.pids) : i < r.index => child[r.pids[i]] # "zombie"
    /\ Range(r.pids) \subseteq Range(list) /\ \A c \in Range(list) \ Range(r.pids) : child[c] = "zombie"

\* A turn keeps it so.
LEMMA TurnReaps ==
    ASSUME NEW list \in Seq(Conns), NEW n \in 0..(Len(list) - 1), NEW r, Reaping(r, list, n)
    PROVE  Reaping(ReapTurn(r), list, n + 1)
<1> DEFINE p == r.pids
           i == r.index
           q == Front([p EXCEPT ![i] = Last(p)])
           L == Len(p)
           N == Len(list)
<1>1. p \in Seq(Conns) /\ IsInjective(p) /\ i \in Nat /\ i >= 1
  BY Zenon DEF Reaping
<1>0. N \in Nat /\ n \in Nat /\ n < N /\ L \in Nat /\ L + n + 1 = N + i /\ L <= N
  BY <1>1 DEF Reaping
<1> HIDE DEF L, N
<1>2. i \in 1..L
  BY <1>0, <1>1
<1>5. DOMAIN r = {"pids", "index"}
  BY DEF Reaping
<1>3. CASE child[p[i]] = "zombie"
  <2> DEFINE t == [r EXCEPT !.pids = q]
  <2>1. ReapTurn(r) = t
    BY <1>3, Zenon DEF ReapTurn
  <2>2. /\ q \in Seq(Conns) /\ IsInjective(q) /\ Len(q) = Len(p) - 1
        /\ Range(q) = Range(p) \ {p[i]}
        /\ \A j \in 1..Len(q) : j < i => q[j] = p[j]
    BY <1>1, <1>2, PlaceTaken, Zenon DEF L
  <2> HIDE DEF q
  <2>3. t.pids = q /\ t.index = i /\ DOMAIN t = {"pids", "index"}
    BY <1>5, Zenon
  <2> HIDE DEF t
  <2>7. ASSUME NEW l, l = L - 1 PROVE l + (n + 1) + 1 = N + i /\ l <= N /\ 1..l \subseteq 1..L
    BY <1>0, <1>1, <2>7
  <2>4. Len(q) + (n + 1) + 1 = N + i /\ Len(q) <= N /\ 1..Len(q) \subseteq 1..L
    BY <2>2, <2>7, Zenon DEF L
  <2>5. \A j \in 1..Len(q) : j < i => child[q[j]] # "zombie"
    BY <2>2, <2>4, Zenon DEF Reaping, L
  <2>6. Range(q) \subseteq Range(list) /\ \A c \in Range(list) \ Range(q) : child[c] = "zombie"
    BY <1>3, <2>2, Zenon DEF Reaping
  <2> QED  BY <1>1, <2>1, <2>2, <2>3, <2>4, <2>5, <2>6, Zenon DEF Reaping, N
<1>4. CASE child[p[i]] # "zombie"
  <2> DEFINE t == [r EXCEPT !.index = i + 1]
  <2>1. ReapTurn(r) = t
    BY <1>4, Zenon DEF ReapTurn
  <2>2. t.pids = p /\ t.index = i + 1 /\ DOMAIN t = {"pids", "index"}
    BY <1>5, Zenon
  <2> HIDE DEF t
  <2>3. L + (n + 1) + 1 = N + (i + 1) /\ i + 1 \in Nat /\ i + 1 >= 1
    <3> HIDE DEF i
    <3> QED  BY <1>0, <1>1
  <2>4. \A j \in 1..L : j < i + 1 => j < i \/ j = i
    BY <1>0, <1>1
  <2>5. \A j \in 1..L : j < i + 1 => child[p[j]] # "zombie"
    BY <1>4, <2>4, Zenon DEF Reaping, L
  <2> QED  BY <1>0, <1>1, <2>1, <2>2, <2>3, <2>5, Zenon DEF Reaping, L, N
<1>6. QED
  BY <1>3, <1>4, Zenon

\* The whole loop takes every dead worker from the list and no other.
LEMMA ReapTakes ==
    ASSUME NEW list \in Seq(Conns), IsInjective(list)
    PROVE  LET p == listener_workers_reap(list)
           IN  /\ p \in Seq(Conns) /\ IsInjective(p) /\ Len(p) <= Len(list)
               /\ Range(p) = {c \in Range(list) : child[c] # "zombie"}
<1> DEFINE N == Len(list)
           first == [pids |-> list, index |-> 1]
<1>1. N \in Nat
  OBVIOUS
<1>2. PICK f : IsReaping(f, list) /\ listener_workers_reap(list) = f[N].pids
  BY <1>1, ReapSolves
<1>3. \A n \in 0..N : f[n] = IF n = 0 THEN first ELSE ReapTurn(f[n - 1])
  BY <1>2, Zenon DEF IsReaping
<1>4. Reaping(first, list, 0)
  BY <1>1 DEF Reaping
<1> HIDE DEF first
<1> DEFINE S == {n \in Nat : n <= N => Reaping(f[n], list, n)}
<1>5. 0 \in S
  <2>1. f[0] = first
    BY <1>1, <1>3
  <2> QED  BY <1>4, <2>1
<1>6. ASSUME NEW n \in Nat, n \in S PROVE n + 1 \in S
  <2> SUFFICES ASSUME n + 1 <= N PROVE Reaping(f[n + 1], list, n + 1)
    OBVIOUS
  <2>1. n \in 0..(N - 1) /\ n <= N /\ n + 1 \in 0..N /\ n + 1 # 0 /\ (n + 1) - 1 = n
    BY <1>1
  <2>2. f[n + 1] = ReapTurn(f[n])
    BY <1>3, <2>1
  <2>3. Reaping(f[n], list, n)
    BY <1>6, <2>1
  <2> QED  BY <2>1, <2>2, <2>3, TurnReaps
<1>7. Reaping(f[N], list, N)
  <2>1. N \in S
    <3> HIDE DEF S
    <3> QED  BY <1>1, <1>5, <1>6, NatSetInduction, ZenonT(40)
  <2> QED  BY <1>1, <2>1
<1> DEFINE p == f[N].pids
<1>8. /\ p \in Seq(Conns) /\ IsInjective(p) /\ Len(p) <= N /\ Len(p) \in Nat /\ f[N].index = Len(p) + 1
      /\ \A i \in 1..Len(p) : i < f[N].index => child[p[i]] # "zombie"
      /\ Range(p) \subseteq Range(list) /\ \A c \in Range(list) \ Range(p) : child[c] = "zombie"
  BY <1>1, <1>7 DEF Reaping
<1> HIDE DEF p, N
<1>9. \A c \in Range(p) : child[c] # "zombie"
  <2>1. DOMAIN p = 1..Len(p) /\ \A i \in 1..Len(p) : i < Len(p) + 1
    BY <1>8
  <2> QED  BY <1>8, <2>1, Zenon DEF Range
<1>10. Range(p) = {c \in Range(list) : child[c] # "zombie"}
  BY <1>8, <1>9, Zenon
<1>11. QED
  BY <1>2, <1>8, <1>10, Zenon DEF p, N

----------------------------------------------------------------------------
(* A worker is forked only where there is room for it.                     *)

\* Giving a route back forks nothing.
LEMMA ReleaseForksNone ==
    ASSUME NEW outcomes, \A j \in outcomes : Formed(j) /\ ~j.forked,
           NEW i \in listener_connection_route_release(outcomes)
    PROVE  ~i.forked
<1> DEFINE r(j) == [j EXCEPT !.waiter = FALSE, !.answer = "PENDING"]
<1>1. ASSUME NEW j \in outcomes
      PROVE  ~r(j).forked /\ ~Answer(r(j), "FATAL").forked
  <2>1. Kept(j, r(j))
    BY <1>1, Zenon DEF Formed, Kept, Fields
  <2> HIDE DEF r
  <2>2. Kept(r(j), Answer(r(j), "FATAL"))
    BY <2>1, AnswerBeside DEF Kept
  <2> QED  BY <1>1, <2>1, <2>2 DEF Kept
<1>2. \E j \in outcomes : i = r(j) \/ i = Answer(r(j), "FATAL")
  BY Zenon DEF listener_connection_route_release
<1> HIDE DEF r
<1>3. QED
  BY <1>1, <1>2, ZenonT(40)

\* Refusing a client forks nothing (listener_connection_refusal_start).
LEMMA RefusalForksNone ==
    ASSUME NEW k, Formed(k), ~k.forked, NEW w, NEW now, NEW j \in listener_connection_refusal_start(k, w, now)
    PROVE  ~j.forked
<1> DEFINE refused == [k EXCEPT !.state = "WORKER_REFUSING", !.inbound = <<>>, !.buffer["upstream"] = Text(<<"full">>)]
           t == listener_connection_timer_arm_short(refused, "WORKER_REFUSAL", now, LISTENER_WORKER_REFUSAL_TIMEOUT_SEC)
           d == listener_connection_short_drive(t, now, FALSE)
<1>1. Kept(k, refused)
  BY DEF Formed, Kept, Fields
<1> HIDE DEF refused
<1>2. Carried(refused, t)
  BY <1>1, Steady DEF Kept
<1> HIDE DEF t
<1>3. Carried(t, d)
  BY <1>2, CarriedFormed, DriveKeeps, Zenon
<1> HIDE DEF d
<1>4. Formed(d) /\ ~d.forked
  BY <1>1, <1>2, <1>3 DEF Carried, Kept
<1>5. ~Answer(k, "CLOSED").forked
  BY AnswerBeside DEF Kept
<1>6. \A i \in listener_connection_route_release({d}) : ~i.forked
  BY <1>4, ReleaseForksNone, Zenon
<1>7. j \in {Answer(k, "CLOSED")} \/ j \in listener_connection_route_release({d})
  BY Zenon DEF listener_connection_refusal_start, refused, t, d
<1>8. QED
  BY <1>5, <1>6, <1>7, Zenon

\* A client is handed to a worker only below the limit on workers
\* (listener_connection_dispatch).
LEMMA ForkFits ==
    ASSUME NEW k, Formed(k), ~k.forked, NEW w, NEW now, NEW workers, workers >= LISTENER_WORKER_LIMIT,
           NEW j \in listener_connection_ready(k, w, now, workers)
    PROVE  ~j.forked
<1> DEFINE S == ShortStart(k, Short[w][k.inbound][RouteStatus(k)], now)
<1>1. \A i \in S : Formed(i) /\ ~i.forked
  BY ShortStartEnds DEF Exchanged, Kept
<1> HIDE DEF S
<1>2. j \in listener_connection_route_release(S) \/ j \in listener_connection_refusal_start(k, w, now)
  BY Zenon DEF listener_connection_ready, listener_connection_short_start, listener_connection_dispatch, S
<1>3. QED
  BY <1>1, <1>2, ReleaseForksNone, RefusalForksNone, Zenon

\* So it is however the client's event is handled.
LEMMA EventFits ==
    ASSUME NEW k, Sound(k), k.state = "ROUTE_WAITING" => Waits(k), ~k.forked, NEW w, NEW e,
           NEW j \in Routing(Handled(k, w, e), w), NEW i \in Decided(Uncancelled(j, e), w),
           Len(pids) >= LISTENER_WORKER_LIMIT
    PROVE  ~i.forked
<1> DEFINE h == Handled(k, w, e)
           u == Uncancelled(j, e)
<1>1. Led(k, h)
  BY HandledLed, Zenon
<1> HIDE DEF h
<1>2. Led(k, j)
  BY <1>1, RoutingLed DEF h
<1>3. Led(k, u)
  BY <1>2, UncancelledLed
<1>4. i \in IF u.progress = "READY" THEN listener_connection_ready(u, w, lag, Len(pids)) ELSE {u}
  BY Zenon DEF Decided
<1> HIDE DEF u
<1>5. Formed(u) /\ ~u.forked
  BY <1>3, ZenonT(40) DEF Led, Sound
<1>6. QED
  BY <1>4, <1>5, ForkFits

\* And where its route's verdict is handled.
LEMMA VerdictFits ==
    ASSUME NEW k, Sound(k), ~k.forked, NEW w, Len(pids) >= LISTENER_WORKER_LIMIT,
           NEW i \in LET j == listener_connection_route_progress(k, lag)
                     IN  IF j.progress = "READY" THEN listener_connection_ready(j, w, lag, Len(pids)) ELSE {j}
    PROVE  ~i.forked
<1> DEFINE j == listener_connection_route_progress(k, lag)
<1>1. Formed(j) /\ ~j.forked
  BY ProgressCounts DEF Sound, Beside
<1>2. i \in IF j.progress = "READY" THEN listener_connection_ready(j, w, lag, Len(pids)) ELSE {j}
  OBVIOUS
<1> HIDE DEF j
<1>3. QED
  BY <1>1, <1>2, ForkFits, ZenonT(40)

----------------------------------------------------------------------------
(* The loop's steps.                                                       *)

\* The numbers the limits are about.
LEMMA Counts ==
    ASSUME CapacityInv
    PROVE  /\ IsFiniteSet(Live) /\ IsFiniteSet(Handed)
           /\ Cardinality(Live) \in Nat /\ Cardinality(Handed) \in Nat /\ Cardinality(Handed) <= Cardinality(Live)
           /\ Len(pids) \in Nat
BY FS_CardinalityType, FS_Subset DEF CapacityInv, Room, Workers, Handed

\* A step that changes neither who is live or handed over nor the workers.
LEMMA QuietCapacity ==
    ASSUME CapacityInv, Live' = Live, Handed' = Handed, pids' = pids, child' = child,
           connection_count' = connection_count,
           pc = "exited" => pc' = "exited", pc' = "signals" => pc = "signals" \/ Handed = {},
           Deaths'
    PROVE  CapacityInv'
<1>1. Workers'
  BY DEF CapacityInv, Workers
<1>2. Room'
  BY Zenon DEF CapacityInv, Room
<1>3. QED
  BY <1>1, <1>2, Zenon DEF CapacityInv

\* Nobody is handed over by a change the loop's invariant does not see.
LEMMA SameHanded ==
    ASSUME \A c \in Conns : Same(conn[c], conn'[c])
    PROVE  Live' = Live /\ Handed' = Handed
BY Zenon DEF Same, Live, Handed

\* A client that is not marked is not handed over.
LEMMA UnmarkedKept ==
    ASSUME Lives, \A c \in Live : ~conn[c].closing
    PROVE  Handed = {}
BY LivesAlive, Zenon DEF Handed, Alive

\* Clients, upstreams, the resolver and the clock change nothing of it.
LEMMA PeersCapacity ==
    ASSUME LoopInv, CapacityInv,
           \/ Tick
           \/ \E c \in Conns : Dial(c) \/ Resolve(c) \/ \E s \in End : Speak(c, s) \/ Hear(c, s)
    PROVE  CapacityInv'
<1>1. \A c \in Conns : Same(conn[c], conn'[c])
  BY TickInv, DialInv, ResolveInv, SpeakInv, HearInv, Zenon
<1>2. UNCHANGED <<pc, requests, pids, child, signals, connection_count>>
  <2>1. CASE Tick
    BY <2>1, Zenon DEF Tick, loop
  <2>2. ASSUME NEW c \in Conns, Dial(c) \/ Resolve(c)
        PROVE  UNCHANGED <<pc, requests, pids, child, signals, connection_count>>
    BY <2>2 DEF Dial, Resolve, loop
  <2>3. ASSUME NEW c \in Conns, NEW s \in End, Speak(c, s)
        PROVE  UNCHANGED <<pc, requests, pids, child, signals, connection_count>>
    BY <2>3, Zenon DEF Speak, loop
  <2>4. ASSUME NEW c \in Conns, NEW s \in End, Hear(c, s)
        PROVE  UNCHANGED <<pc, requests, pids, child, signals, connection_count>>
    BY <2>4 DEF Hear, loop
  <2>5. QED
    BY <2>1, <2>2, <2>3, <2>4, Zenon
<1>3. Live' = Live /\ Handed' = Handed
  BY <1>1, SameHanded, Zenon
<1>4. Deaths'
  BY <1>2 DEF CapacityInv, Deaths
<1>5. QED
  BY <1>2, <1>3, <1>4, QuietCapacity, ZenonT(40)

\* Nor does a client that joins the kernel's queue.
LEMMA ArriveCapacity ==
    ASSUME LoopInv, CapacityInv, NEW c \in Conns, Arrive(c)
    PROVE  CapacityInv'
<1>1. Formed(conn[c]) /\ DOMAIN conn = Conns /\ conn[c].place = "away"
  BY AllFormed DEF LoopInv, Lives, Arrive
<1> DEFINE j == [conn[c] EXCEPT !.place = "backlog"]
<1>2. conn' = [conn EXCEPT ![c] = j] /\ j.place = "backlog"
  BY <1>1 DEF Arrive, Formed, Fields
<1> HIDE DEF j
<1>3. DOMAIN conn' = Conns /\ conn'[c].place = "backlog" /\ \A d \in Conns \ {c} : conn'[d] = conn[d]
  BY <1>1, <1>2, Zenon
<1>4. Live' = Live /\ Handed' = Handed
  BY <1>1, <1>3 DEF Live, Handed
<1>5. UNCHANGED <<pc, requests, pids, child, signals, connection_count>>
  BY Zenon DEF Arrive, loop
<1>6. Deaths'
  BY <1>5, Zenon DEF CapacityInv, Deaths
<1>7. QED
  BY <1>4, <1>5, <1>6, QuietCapacity, ZenonT(40)

\* The stop signal, a step of nobody, and the turn from one pass to the next
\* leave all as it is.
LEMMA PassCapacity ==
    ASSUME LoopInv, CapacityInv, Terminate \/ UNCHANGED vars \/ RoutesDone \/ SocketsDone
    PROVE  CapacityInv'
<1>1. UNCHANGED <<requests, conn, pids, child, connection_count>> /\ signals \subseteq signals'
      /\ (pc' = pc \/ (pc # "signals" /\ pc' \in {"sockets", "timers"} /\ pc # "exited"))
  BY DEF Terminate, RoutesDone, SocketsDone, vars, loop
<1>2. Live' = Live /\ Handed' = Handed
  BY <1>1 DEF Live, Handed
<1>3. Deaths'
  BY <1>1 DEF CapacityInv, Deaths
<1>4. QED
  BY <1>1, <1>2, <1>3, QuietCapacity, SMTT(30)

\* A worker's death comes with the signal that tells of it.
LEMMA ExitsCapacity ==
    ASSUME LoopInv, CapacityInv, NEW c \in Conns, WorkerExits(c)
    PROVE  CapacityInv'
<1>1. /\ UNCHANGED <<pc, requests, conn, pids, connection_count>> /\ "CHLD" \in signals'
      /\ child[c] = "running" /\ child' = [child EXCEPT ![c] = "zombie"] /\ DOMAIN child = Conns
  BY Zenon DEF WorkerExits, loop, LoopInv, Children
<1>2. Live' = Live /\ Handed' = Handed
  BY <1>1, Zenon DEF Live, Handed
<1>3. Workers'
  <2>1. \A d \in Conns : child'[d] \in {"running", "zombie"} <=> child[d] \in {"running", "zombie"}
    BY <1>1, Zenon
  <2> QED  BY <1>1, <2>1, ZenonT(40) DEF CapacityInv, Workers
<1>4. Room'
  BY <1>1, <1>2, Zenon DEF CapacityInv, Room
<1>5. Deaths'
  BY <1>1, Zenon DEF Deaths
<1>6. QED
  BY <1>3, <1>4, <1>5, ZenonT(40) DEF CapacityInv

\* The signals that came are taken with the batch, before it is served.
LEMMA WakeCapacity ==
    ASSUME LoopInv, CapacityInv, Wake
    PROVE  CapacityInv'
<1> DEFINE gone == {c \in Live : Cancelled(c, Ready)}
           m(c) == [conn[c] EXCEPT !.closing = @ \/ c \in gone]
<1>0. Lives /\ pc = "wait" /\ Handed = {}
  BY UnmarkedKept DEF LoopInv, Batch, Wake
<1>1. ASSUME NEW c \in Conns PROVE m(c).place = conn[c].place /\ m(c).forked = conn[c].forked
  <2>1. Formed(conn[c])
    BY <1>0, AllFormed
  <2> HIDE DEF gone
  <2> QED  BY <2>1, Zenon DEF Formed, Fields
<1>2. conn' = [c \in Conns |-> m(c)]
  BY Zenon DEF Wake
<1> HIDE DEF m
<1>3. Live' = Live /\ Handed' = Handed
  BY <1>1, <1>2 DEF Live, Handed
<1>4. /\ UNCHANGED <<pids, child, connection_count>> /\ pc' \in {"signals", "route", "sockets"}
      /\ "CHLD" \in signals => pc' = "signals" /\ requests'.child
  BY Zenon DEF Wake
<1>5. Deaths'
  BY <1>0, <1>4, ZenonT(40) DEF CapacityInv, Deaths
<1>6. QED
  BY <1>0, <1>3, <1>4, <1>5, QuietCapacity, ZenonT(40)

\* Where the loop has destroyed every connection, none is counted and none is
\* handed over.
LEMMA EmptyRoom ==
    ASSUME CapacityInv, Live' = {}, Len(pids') \in Nat, Len(pids') <= Len(pids),
           pc' # "signals", pc' # "exited" => pc # "exited" /\ Handed = {} /\ connection_count' = 0
    PROVE  Room'
<1>1. Handed' = {} /\ IsFiniteSet(Live') /\ Cardinality(Live') = 0 /\ Cardinality(Handed') = 0
  BY FS_EmptySet, Zenon DEF Handed
<1>2. Handed = {} => Cardinality(Handed) = 0
  BY FS_EmptySet, ZenonT(40)
<1>3. pc # "exited" /\ Handed = {} => Len(pids) <= connection_limit
  BY <1>2, Counts, Limits, SMTT(30) DEF CapacityInv, Room
<1>4. QED
  BY <1>1, <1>3, Counts, Limits, SMTT(30) DEF Room

\* Dead workers leave the list, and no worker that lives does; a stop ends
\* every connection (listener_workers_reap, the loop's signals).
LEMMA SignalsCapacity ==
    ASSUME LoopInv, CapacityInv, Signals
    PROVE  CapacityInv'
<1>0. /\ pc = "signals" /\ Handed = {} /\ signals' = signals /\ Lives /\ Queue /\ backlog' = backlog
      /\ pids' = IF requests.child THEN listener_workers_reap(pids) ELSE pids
      /\ child' = [c \in Conns |-> IF child[c] = "zombie" /\ c \in Range(pids) \ Range(pids') THEN "reaped" ELSE child[c]]
      /\ pids \in Seq(Conns) /\ IsInjective(pids)
  BY DEF Signals, CapacityInv, Room, LoopInv, Workers
<1> DEFINE reaped == listener_workers_reap(pids)
<1>1. /\ reaped \in Seq(Conns) /\ IsInjective(reaped) /\ Len(reaped) <= Len(pids)
      /\ Range(reaped) = {c \in Range(pids) : child[c] # "zombie"}
  BY <1>0, ReapTakes, ZenonT(40)
<1> HIDE DEF reaped
<1>2. /\ pids' \in Seq(Conns) /\ IsInjective(pids') /\ Len(pids') <= Len(pids)
      /\ Range(pids') \subseteq Range(pids)
      /\ \A c \in Range(pids) \ Range(pids') : child[c] = "zombie"
      /\ requests.child => \A c \in Range(pids') : child[c] # "zombie"
  <2>1. CASE requests.child
    <3>1. pids' = reaped
      BY <1>0, <2>1, Zenon DEF reaped
    <3> QED  BY <1>1, <3>1, Zenon
  <2>2. CASE ~requests.child
    <3>1. pids' = pids
      BY <1>0, <2>2, Zenon
    <3> QED  BY <1>0, <2>2, <3>1
  <2> QED  BY <2>1, <2>2, ZenonT(40)
<1>3. Len(pids') \in Nat /\ Len(pids) \in Nat
  BY <1>0, <1>2, SMTT(30)
<1>4. \A c \in Conns : /\ c \in Range(pids') => child'[c] = child[c]
                       /\ c \notin Range(pids') => child'[c] \notin {"running", "zombie"}
  BY <1>0, <1>2, ZenonT(40) DEF CapacityInv, Workers
<1>5. Workers'
  <2>1. Range(pids') = {c \in Conns : child'[c] \in {"running", "zombie"}}
    BY <1>2, <1>4, ZenonT(40) DEF CapacityInv, Workers
  <2>2. Len(pids') <= LISTENER_WORKER_LIMIT
    BY <1>2, <1>3, Limits, SMTT(30) DEF CapacityInv, Workers
  <2> QED  BY <1>2, <2>1, <2>2, ZenonT(40) DEF Workers
<1>6. Deaths'
  <2> SUFFICES ASSUME NEW c \in Conns, child'[c] = "zombie" PROVE "CHLD" \in signals'
    BY Zenon DEF Deaths
  <2>1. c \in Range(pids') /\ child[c] = "zombie"
    BY <1>4, Zenon
  <2>2. ~requests.child
    BY <1>2, <2>1, ZenonT(40)
  <2> QED  BY <1>0, <2>1, <2>2, Zenon DEF CapacityInv, Deaths
<1>7. Room'
  <2>1. ASSUME connection_count' = 0, DestroyAll, pc' \in {"wait", "exited"} PROVE Room'
    <3>1. Live' = {}
      BY <1>0, <2>1, LiveCounted, AllDestroyed, SMTT(30) DEF DestroyAll
    <3> QED  BY <1>0, <1>2, <1>3, <2>1, <3>1, EmptyRoom, ZenonT(40)
  <2>2. ASSUME UNCHANGED <<conn, connection_count>>, pc' \in {"route", "sockets"} PROVE Room'
    <3>1. Live' = Live /\ Handed' = Handed
      BY <2>2 DEF Live, Handed
    <3>2. connection_count = Cardinality(Live) /\ connection_count + Len(pids) <= connection_limit + Cardinality(Handed)
      BY <1>0, ZenonT(40) DEF CapacityInv, Room
    <3>3. connection_count + Len(pids') <= connection_limit + Cardinality(Handed)
      BY <1>2, <1>3, <3>2, Counts, Limits, SMTT(30)
    <3> QED  BY <2>2, <3>1, <3>2, <3>3, Counts, SMTT(30) DEF Room
  <2> QED  BY <2>1, <2>2, ZenonT(40) DEF Signals
<1>8. QED
  BY <1>5, <1>6, <1>7, SMTT(30) DEF CapacityInv

\* A worker that is forked takes the last place of the list, and its client is
\* handed over until the loop destroys it.
LEMMA ForkedCapacity ==
    ASSUME LoopInv, CapacityInv, pc \in {"route", "sockets", "timers"}, pc' = pc, NEW c \in Live, ~conn[c].forked,
           Len(pids) < LISTENER_WORKER_LIMIT,
           Live' = Live, \A d \in Conns \ {c} : conn'[d] = conn[d], conn'[c].forked,
           pids' = Append(pids, c), child' = [child EXCEPT ![c] = "running"],
           UNCHANGED <<connection_count, signals>>
    PROVE  CapacityInv'
<1>0. c \in Conns /\ child[c] = "none" /\ DOMAIN child = Conns /\ pids \in Seq(Conns) /\ Len(pids) \in Nat
  BY LivesAlive, SMTT(30) DEF LoopInv, Children, CapacityInv, Workers, Live
<1>1. c \notin Range(pids)
  BY <1>0, Zenon DEF CapacityInv, Workers
<1>2. /\ pids' \in Seq(Conns) /\ Len(pids') = Len(pids) + 1 /\ DOMAIN pids' = 1..(Len(pids) + 1) /\ DOMAIN pids = 1..Len(pids)
      /\ pids'[Len(pids) + 1] = c /\ \A i \in 1..Len(pids) : pids'[i] = pids[i]
  BY <1>0
<1>3. \A i \in 1..Len(pids) : pids[i] # c
  BY <1>1, <1>2, Zenon DEF Range
<1>4. \A i \in 1..(Len(pids) + 1) : i \in 1..Len(pids) \/ i = Len(pids) + 1
  BY <1>0
<1>5. IsInjective(pids')
  <2>1. \A i, j \in 1..Len(pids) : pids[i] = pids[j] => i = j
    BY <1>2, Zenon DEF CapacityInv, Workers, IsInjective
  <2>2. ASSUME NEW i \in 1..(Len(pids) + 1), NEW j \in 1..(Len(pids) + 1), pids'[i] = pids'[j] PROVE i = j
    <3>1. CASE i \in 1..Len(pids) /\ j \in 1..Len(pids)
      <4>1. pids'[i] = pids[i] /\ pids'[j] = pids[j]
        BY <1>2, <3>1, Zenon
      <4> QED  BY <2>1, <2>2, <3>1, <4>1, Zenon
    <3>2. CASE i \in 1..Len(pids) /\ j = Len(pids) + 1
      BY <1>2, <1>3, <2>2, <3>2, ZenonT(40)
    <3>3. CASE i = Len(pids) + 1 /\ j \in 1..Len(pids)
      BY <1>2, <1>3, <2>2, <3>3, Zenon
    <3> QED  BY <1>4, <3>1, <3>2, <3>3, Zenon
  <2> QED  BY <1>2, <2>2, Zenon DEF IsInjective
<1>6. Range(pids') = Range(pids) \cup {c}
  <2>1. 1..Len(pids) \subseteq 1..(Len(pids) + 1) /\ Len(pids) + 1 \in 1..(Len(pids) + 1)
    BY <1>0
  <2>5. /\ \A x : x \in Range(pids') <=> \E i \in 1..(Len(pids) + 1) : x = pids'[i]
        /\ \A x : x \in Range(pids) <=> \E i \in 1..Len(pids) : x = pids[i]
    BY <1>2 DEF Range
  <2>2. \A x \in Range(pids') : x \in Range(pids) \cup {c}
    BY <1>2, <1>4, <2>5, SMTT(30)
  <2>3. \A x \in Range(pids) : x \in Range(pids')
    BY <1>2, <2>1, <2>5
  <2>4. c \in Range(pids')
    BY <1>2, <2>1, Zenon DEF Range
  <2> QED  BY <2>2, <2>3, <2>4, ZenonT(40)
<1>7. Workers'
  <2>1. \A d \in Conns : child'[d] \in {"running", "zombie"} <=> d = c \/ child[d] \in {"running", "zombie"}
    BY <1>0
  <2>2. Range(pids') = {d \in Conns : child'[d] \in {"running", "zombie"}}
    BY <1>0, <1>6, <2>1, Zenon DEF CapacityInv, Workers
  <2>3. Len(pids') <= LISTENER_WORKER_LIMIT
    BY <1>0, <1>2, Limits, SMTT(30)
  <2> QED  BY <1>2, <1>5, <2>2, <2>3, SMTT(30) DEF Workers
<1>8. Deaths'
  BY <1>0, Zenon DEF CapacityInv, Deaths
<1>9. Room'
  <2>1. Handed' = Handed \cup {c} /\ c \notin Handed
    BY <1>0 DEF Handed, Live
  <2>2. Cardinality(Handed') = Cardinality(Handed) + 1
    BY <2>1, Counts, FS_AddElement, Zenon
  <2>3. pc # "exited" /\ pc' # "signals"
    BY ZenonT(40)
  <2>4. connection_count = Cardinality(Live) /\ connection_count + Len(pids) <= connection_limit + Cardinality(Handed)
    BY <2>3, ZenonT(40) DEF CapacityInv, Room
  <2>5. connection_count + Len(pids') <= connection_limit + Cardinality(Handed')
    <3> HIDE DEF Handed
    <3> QED  BY <1>2, <2>2, <2>4, Counts, Limits, SMTT(30)
  <2> QED  BY <2>3, <2>4, <2>5, Counts, Zenon DEF Room
<1>10. QED
  BY <1>7, <1>8, <1>9, SMTT(30) DEF CapacityInv

\* Whatever a handler leaves, the limits are kept.
LEMMA CommitCapacity ==
    ASSUME LoopInv, CapacityInv, pc \in {"route", "sockets", "timers"}, NEW c \in Live, ~conn[c].closing,
           NEW k, Left(conn[c], k), Len(pids) >= LISTENER_WORKER_LIMIT => ~k.forked, Commit(c, k),
           UNCHANGED <<backlog, signals, connection_count>>
    PROVE  CapacityInv'
<1>0. /\ Lives /\ Children /\ Queue /\ ~conn[c].forked /\ c \in Conns /\ Formed(k)
      /\ DOMAIN conn = Conns
  BY LivesAlive, ZenonT(40) DEF LoopInv, Lives, Alive, Left, Sound
<1>1. \/ pc' = "exited" /\ Live' = {}
      \/ /\ pc' = pc /\ Live' = Live
         /\ \A d \in Conns \ {c} : conn'[d] = conn[d]
  BY <1>0, CommitInv, Zenon
<1>2. CASE k.progress = "FATAL"
  <2>1. pc' = "exited" /\ UNCHANGED <<pids, child>>
    BY <1>2, ZenonT(40) DEF Commit
  <2>2. Live' = {}
    BY <1>1, <2>1, ZenonT(40)
  <2>3. Workers'
    BY <2>1, Zenon DEF CapacityInv, Workers
  <2>4. Deaths'
    BY <2>1, Zenon DEF CapacityInv, Deaths
  <2>5. Room'
    BY <2>1, <2>2, Counts, EmptyRoom, SMTT(30)
  <2> QED  BY <2>3, <2>4, <2>5, ZenonT(40) DEF CapacityInv
<1>3. CASE k.progress # "FATAL"
  <2> DEFINE j == [k EXCEPT !.closing = @ \/ k.progress \in {"ABORT", "CLOSED"}, !.progress = "none"]
  <2>1. /\ conn' = [conn EXCEPT ![c] = j] /\ pc' = pc
        /\ pids' = IF k.forked THEN Append(pids, c) ELSE pids
        /\ child' = IF k.forked THEN [child EXCEPT ![c] = "running"] ELSE child
    BY <1>3, Zenon DEF Commit
  <2>2. j.forked = k.forked
    BY <1>0, ZenonT(40) DEF Formed, Fields
  <2> HIDE DEF j
  <2>3. conn'[c].forked = k.forked
    BY <1>0, <2>1, <2>2, ZenonT(40)
  <2>4. Live' = Live /\ \A d \in Conns \ {c} : conn'[d] = conn[d]
    BY <1>1, <2>1, ZenonT(40)
  <2>5. CASE k.forked
    <3>1. Len(pids) < LISTENER_WORKER_LIMIT
      BY <2>5, Counts, Limits, SMTT(30)
    <3> QED  BY <1>0, <2>1, <2>3, <2>4, <2>5, <3>1, ForkedCapacity, Zenon
  <2>6. CASE ~k.forked
    <3>1. pids' = pids /\ child' = child
      BY <2>1, <2>6, SMTT(30)
    <3>2. Handed' = Handed
      BY <1>0, <2>3, <2>4, <2>6, ZenonT(40) DEF Handed, Live
    <3>3. Deaths'
      BY <2>1, <3>1, ZenonT(40) DEF CapacityInv, Deaths
    <3> QED  BY <2>1, <2>4, <3>1, <3>2, <3>3, QuietCapacity, ZenonT(40)
  <2> QED  BY <2>5, <2>6, ZenonT(40)
<1>4. QED
  BY <1>2, <1>3, Zenon

\* A waiter asked for its verdict (listener_connections_route_progress).
LEMMA RouteProgressCapacity ==
    ASSUME LoopInv, CapacityInv, RouteProgress
    PROVE  CapacityInv'
<1>0. Lives /\ Batch /\ pc = "route" /\ UNCHANGED <<backlog, signals, connection_count>>
  BY DEF LoopInv, RouteProgress
<1>1. PICK c \in requests.routes :
          \E i \in LET j == listener_connection_route_progress(conn[c], lag)
                   IN  IF j.progress = "READY" THEN listener_connection_ready(j, who[c], lag, Len(pids)) ELSE {j} :
              Commit(c, i)
  BY ZenonT(40) DEF RouteProgress
<1>2. PICK i \in LET j == listener_connection_route_progress(conn[c], lag)
                 IN  IF j.progress = "READY" THEN listener_connection_ready(j, who[c], lag, Len(pids)) ELSE {j} :
             Commit(c, i)
  BY <1>1, ZenonT(40)
<1>3. c \in Live /\ ~conn[c].closing /\ conn[c].state = "ROUTE_WAITING" /\ Alive(conn[c])
  BY <1>0, LivesAlive DEF Routes, Batch, Batching
<1>4. Left(conn[c], i) /\ (Len(pids) >= LISTENER_WORKER_LIMIT => ~i.forked)
  <2> DEFINE k == conn[c]
             w == who[c]
  <2>1. /\ Sound(k) /\ k.state = "ROUTE_WAITING" /\ Waits(k) /\ ~k.forked
        /\ i \in LET j == listener_connection_route_progress(k, lag)
                 IN  IF j.progress = "READY" THEN listener_connection_ready(j, w, lag, Len(pids)) ELSE {j}
    BY <1>2, <1>3, ZenonT(40) DEF Alive
  <2> HIDE DEF k, w
  <2>2. Left(k, i)
    BY <2>1, VerdictLeft, ZenonT(40)
  <2>3. Len(pids) >= LISTENER_WORKER_LIMIT => ~i.forked
    BY <2>1, VerdictFits, ZenonT(40)
  <2> QED  BY <2>2, <2>3, ZenonT(40) DEF k
<1>5. QED
  BY <1>0, <1>2, <1>3, <1>4, CommitCapacity, ZenonT(40)

\* An event served, or skipped since its connection is closing.
LEMMA ServeCapacity ==
    ASSUME LoopInv, CapacityInv, pc \in {"sockets", "timers"}, NEW e \in requests.ready, ServeEvent(e)
    PROVE  CapacityInv'
<1>0. Lives /\ Batch /\ Events /\ UNCHANGED <<backlog, signals, connection_count>>
  BY Zenon DEF LoopInv, ServeEvent, Batch, Batching
<1>1. e.c \in Live /\ Alive(conn[e.c])
  BY <1>0, LivesAlive, ZenonT(40) DEF Events
<1>2. CASE conn[e.c].closing
  <2>1. UNCHANGED <<pc, conn, pids, child>>
    BY <1>2, ZenonT(40) DEF ServeEvent
  <2>2. Live' = Live /\ Handed' = Handed
    BY <2>1, ZenonT(40) DEF Live, Handed
  <2>3. Deaths'
    BY <1>0, <2>1, SMTT(30) DEF CapacityInv, Deaths
  <2> QED  BY <1>0, <2>1, <2>2, <2>3, QuietCapacity, ZenonT(40)
<1>3. CASE ~conn[e.c].closing
  <2> DEFINE c == e.c
             k == conn[c]
             w == who[c]
  <2>1. PICK j \in Routing(Handled(k, w, e), w) : \E i \in Decided(Uncancelled(j, e), w) : Commit(c, i)
    BY <1>3, ZenonT(40) DEF ServeEvent
  <2>2. PICK i \in Decided(Uncancelled(j, e), w) : Commit(c, i)
    BY <2>1
  <2>3. Sound(k) /\ (k.state = "ROUTE_WAITING" => Waits(k)) /\ ~k.forked
    BY <1>1, <1>3, ZenonT(40) DEF Alive
  <2>4. c \in Live /\ ~conn[c].closing
    BY <1>1, <1>3, ZenonT(40)
  <2> HIDE DEF k, w, c
  <2>5. Left(k, i)
    BY <2>1, <2>2, <2>3, EventLeft, ZenonT(40)
  <2>6. Len(pids) >= LISTENER_WORKER_LIMIT => ~i.forked
    BY <2>1, <2>2, <2>3, EventFits, ZenonT(40)
  <2>7. Left(conn[c], i)
    BY <2>5, Zenon DEF k
  <2> QED  BY <1>0, <2>2, <2>4, <2>6, <2>7, CommitCapacity, ZenonT(40)
<1>4. QED
  BY <1>2, <1>3, SMTT(30)

\* At the end of the batch every client handed over is destroyed, and counted
\* no more (listener_connections_destroy_closed).
LEMMA DestroyCapacity ==
    ASSUME LoopInv, CapacityInv, DestroyClosed
    PROVE  CapacityInv'
<1> DEFINE closed == {c \in Live : conn[c].closing}
           m(c) == [conn[c] EXCEPT !.rearmed = FALSE]
<1>0. /\ Lives /\ Queue /\ pc = "timers" /\ UNCHANGED <<backlog, pids, child, signals>>
      /\ connection_count = Cardinality(Live) /\ connection_count + Len(pids) <= connection_limit + Cardinality(Handed)
  BY Zenon DEF LoopInv, DestroyClosed, CapacityInv, Room
<1>1. Workers' /\ Deaths'
  BY <1>0, ZenonT(40) DEF CapacityInv, Workers, Deaths
<1>2. ASSUME conn' = [c \in Conns |-> IF c \in closed THEN listener_connection_destroy(conn[c]) ELSE m(c)],
             connection_count' = connection_count - Cardinality(closed),
             pc' \in {"accept", "wait"}
      PROVE  Room'
  <2>1. \A c \in closed : c \in Conns /\ c \in Live
    BY Zenon DEF Live
  <2>2. \A c \in closed : conn'[c].place = "gone"
    BY <1>0, <1>2, <2>1, LiveCounted, DestroyFinishes, ZenonT(40) DEF Finished
  <2>3. \A c \in Conns : Same(conn[c], m(c))
    BY <1>0, AllFormed, ZenonT(40) DEF Same, Formed, Idle, Fields
  <2> HIDE DEF m
  <2>4. \A c \in Conns \ closed : Same(conn[c], conn'[c])
    BY <1>2, <2>3, ZenonT(40)
  <2>5. Handed \subseteq closed /\ closed \subseteq Live
    BY <1>0, LivesAlive, ZenonT(40) DEF Handed, Alive
  <2> HIDE DEF closed
  <2>6. Live' = Live \ closed
    <3>1. \A c \in Conns \ closed : conn'[c].place = conn[c].place
      BY <2>4, Zenon DEF Same
    <3>2. "gone" # "live"
      OBVIOUS
    <3> QED  BY <2>1, <2>2, <3>1, <3>2, Zenon DEF Live
  <2>7. Handed' = {}
    BY <2>4, <2>5, <2>6, SMTT(30) DEF Handed, Live, Same
  <2>8. /\ IsFiniteSet(closed) /\ Cardinality(closed) \in Nat
        /\ Cardinality(Handed) <= Cardinality(closed)
    BY <2>5, Counts, FS_Subset, FS_CardinalityType, SMTT(30)
  <2>9. IsFiniteSet(Live \ closed) /\ Cardinality(Live \ closed) = Cardinality(Live) - Cardinality(closed)
    <3>1. /\ IsFiniteSet(Live \ closed)
          /\ Cardinality(Live \ closed) = Cardinality(Live) - Cardinality(Live \cap closed)
      BY Counts, FS_Difference, Zenon
    <3>2. Live \cap closed = closed
      BY <2>5
    <3> QED  BY <3>1, <3>2
  <2>10. Cardinality({}) = 0
    BY FS_EmptySet, SMTT(30)
  <2>11. connection_count' = Cardinality(Live \ closed) /\ connection_count' + Len(pids) <= connection_limit
    BY <1>0, <1>2, <2>8, <2>9, Counts, Limits, SMTT(30)
  <2>12. connection_count' \in Int
    BY <1>0, <1>2, <2>8, Counts, SMTT(30)
  <2> QED  BY <1>0, <1>2, <2>6, <2>7, <2>9, <2>10, <2>11, <2>12, Limits, SMTT(30) DEF Room
<1>3. ASSUME DestroyAll, pc' = "exited"
      PROVE  Room'
  <2>1. Live' = {}
    BY <1>0, <1>3, LiveCounted, AllDestroyed, SMTT(30) DEF DestroyAll
  <2> QED  BY <1>0, <1>3, <2>1, Counts, EmptyRoom, SMTT(30)
<1>4. Room'
  BY <1>2, <1>3, Zenon DEF DestroyClosed
<1>5. QED
  BY <1>1, <1>4, ZenonT(40) DEF CapacityInv

\* What is in the backlog is a connection (the sockets that listener_accept is
\* offered).
LEMMA Members ==
    ASSUME NEW S, NEW s \in Seq(S)
    PROVE  \A i \in 1..Len(s) : s[i] \in S
OBVIOUS

\* A set matched one to one with a finite one is finite and has as many
\* members (the sockets listener_accept takes and their places in the backlog).
LEMMA Matched ==
    ASSUME NEW S, NEW T, NEW f \in Surjection(S, T), f \in Injection(S, T), IsFiniteSet(S)
    PROVE  IsFiniteSet(T) /\ Cardinality(T) = Cardinality(S)
BY FS_Surjection, ZenonT(40)

\* The accept loop takes clients in only while there is room for them, and
\* counts each (the accept loop of listener_run).
LEMMA AcceptCapacity ==
    ASSUME LoopInv, CapacityInv, Accept
    PROVE  CapacityInv'
<1>0. /\ Lives /\ Queue /\ pc = "accept" /\ pc' = "wait" /\ UNCHANGED <<pids, child, signals>> /\ Handed = {}
      /\ connection_count = Cardinality(Live) /\ connection_count + Len(pids) <= connection_limit + Cardinality(Handed)
  BY UnmarkedKept, ZenonT(40) DEF LoopInv, Batch, Accept, CapacityInv, Room
<1>1. PICK n \in 0..Least(Len(backlog), LISTENER_ACCEPT_BATCH) :
          LET served == {backlog[i] : i \in 1..n}
              admitted == {i \in 1..n : ~Full(connection_count + i - 1)}
              taken == {backlog[i] : i \in admitted}
              room == connection_count + Cardinality(admitted)
              over == n = Least(Len(backlog), LISTENER_ACCEPT_BATCH)
          IN  \E lost \in {{}} \cup (IF over \/ Full(room) \/ "track" \notin Faults THEN {} ELSE {{backlog[n + 1]}}) :
                  /\ conn' = [c \in Conns |-> IF c \in taken THEN listener_connection_create(conn[c])
                                              ELSE IF c \in served \cup lost THEN Gone(conn[c])
                                              ELSE conn[c]]
                  /\ connection_count' = room
  BY Zenon DEF Accept
<1> DEFINE served == {backlog[i] : i \in 1..n}
           admitted == {i \in 1..n : ~Full(connection_count + i - 1)}
           taken == {backlog[i] : i \in admitted}
           room == connection_count + Cardinality(admitted)
           over == n = Least(Len(backlog), LISTENER_ACCEPT_BATCH)
<1>2. PICK lost \in {{}} \cup (IF over \/ Full(room) \/ "track" \notin Faults THEN {} ELSE {{backlog[n + 1]}}) :
          /\ conn' = [c \in Conns |-> IF c \in taken THEN listener_connection_create(conn[c])
                                      ELSE IF c \in served \cup lost THEN Gone(conn[c])
                                      ELSE conn[c]]
          /\ connection_count' = room
  BY <1>1, ZenonT(40)
<1>3. Len(backlog) \in Nat /\ n \in Nat /\ n <= Len(backlog) /\ (~over => n + 1 <= Len(backlog))
  <2>1. Len(backlog) \in Nat /\ LISTENER_ACCEPT_BATCH \in Nat
    BY <1>0, AcceptBatch DEF Queue
  <2> QED  BY <2>1, WithinQueue, Zenon
<1>4. lost = {} \/ (~over /\ lost = {backlog[n + 1]})
  BY <1>2, Zenon
<1>5. admitted \subseteq 1..n /\ 1..n \subseteq 1..Len(backlog)
  BY <1>3, SMTT(30)
<1> HIDE DEF over, room
<1>6. \A c \in served \cup lost \cup taken : \E i \in 1..Len(backlog) : c = backlog[i]
  <2>1. ~over => n + 1 \in 1..Len(backlog)
    BY <1>3
  <2>2. \A c \in lost : \E i \in 1..Len(backlog) : c = backlog[i]
    BY <1>4, <2>1, Zenon
  <2> QED  BY <1>5, <2>2, Zenon
<1> DEFINE K == connection_limit - Len(pids) - connection_count
<1>7. admitted \subseteq 1..K /\ K \in Nat
  <2>1. K \in Nat /\ connection_count \in Nat
    BY <1>0, Counts, Limits, FS_EmptySet, SMTT(30)
  <2>2. ASSUME NEW i \in 1..n, ~Full(connection_count + i - 1) PROVE i \in 1..K
    BY <1>3, <2>1, <2>2, Counts, Limits, SMTT(30) DEF Full
  <2> QED  BY <2>1, <2>2, Zenon
<1>8. IsFiniteSet(admitted) /\ Cardinality(admitted) \in Nat /\ Cardinality(admitted) <= K
  <2>1. IsFiniteSet(1..K) /\ Cardinality(1..K) = K
    BY <1>7, FS_Interval, SMTT(30)
  <2> HIDE DEF K, admitted
  <2> QED  BY <1>7, <2>1, FS_Subset, FS_CardinalityType, ZenonT(40)
<1> HIDE DEF admitted
<1>9. IsFiniteSet(taken) /\ Cardinality(taken) = Cardinality(admitted)
  <2> DEFINE f == [i \in admitted |-> backlog[i]]
  <2>1. f \in [admitted -> taken] /\ \A x \in taken : \E i \in admitted : f[i] = x
    BY Zenon
  <2>2. \A i, j \in admitted : f[i] = f[j] => i = j
    BY <1>0, <1>5, Zenon DEF Queue
  <2> HIDE DEF f, taken
  <2>3. f \in Surjection(admitted, taken) /\ f \in Injection(admitted, taken)
    BY <2>1, <2>2, ZenonT(40) DEF Surjection, Injection, IsInjective
  <2> QED  BY <1>8, <2>3, Matched, ZenonT(40)
<1>10. \A c \in served \cup lost \cup taken : c \in Conns /\ conn[c].place = "backlog" /\ Alive(conn[c])
  <2>1. \A i \in 1..Len(backlog) : backlog[i] \in Conns /\ conn[backlog[i]].place = "backlog"
    <3>1. backlog \in Seq(Conns) /\ \A i \in 1..Len(backlog) : conn[backlog[i]].place = "backlog"
      BY <1>0, Zenon DEF Queue
    <3> QED  BY <3>1, Members, Zenon
  <2>2. \A c \in Conns : conn[c].place = "backlog" => Alive(conn[c])
    BY <1>0, Zenon DEF Lives
  <2> QED  BY <1>6, <2>1, <2>2, Zenon
<1> HIDE DEF taken, served
<1>11. \A c \in taken : conn'[c].place = "live" /\ ~conn'[c].forked
  <2>1. \A c \in taken : c \in Conns /\ conn'[c] = listener_connection_create(conn[c])
    BY <1>2, <1>10, ZenonT(40)
  <2>2. \A c \in taken : LET j == listener_connection_create(conn[c]) IN j.place = "live" /\ ~j.forked
    BY <1>10, CreateAlive, ZenonT(40)
  <2> QED  BY <2>1, <2>2, Zenon
<1>12. \A c \in Conns \ taken : conn'[c] = conn[c] \/ (conn[c].place = "backlog" /\ conn'[c].place = "gone")
  <2>1. \A k : Gone(k).place = "gone"
    BY GoneIsFinished, ZenonT(40) DEF Finished
  <2> QED  BY <1>2, <1>10, <2>1, ZenonT(40)
<1>13. Live' = Live \cup taken /\ Live \cap taken = {} /\ Handed' = {}
  <2>1. Live' = Live \cup taken /\ Live \cap taken = {}
    BY <1>10, <1>11, <1>12, ZenonT(40) DEF Live
  <2> QED  BY <1>0, <1>11, <1>12, <2>1, ZenonT(40) DEF Handed, Live
<1>14. IsFiniteSet(Live') /\ Cardinality(Live') = Cardinality(Live) + Cardinality(admitted)
  <2>1. /\ IsFiniteSet(Live \cup taken)
        /\ Cardinality(Live \cup taken) = Cardinality(Live) + Cardinality(taken) - Cardinality(Live \cap taken)
    BY <1>9, Counts, FS_Union, Zenon
  <2>2. Cardinality(Live \cap taken) = 0
    BY <1>13, FS_EmptySet, ZenonT(40)
  <2> QED  BY <1>8, <1>9, <1>13, <2>1, <2>2, Counts, SMTT(30)
<1>15. connection_count' = connection_count + Cardinality(admitted)
  BY <1>2, ZenonT(40) DEF room
<1>16. Room'
  <2>1. Cardinality({}) = 0
    BY FS_EmptySet, Zenon
  <2>2. connection_count' + Len(pids) <= connection_limit
    BY <1>0, <1>7, <1>8, <1>15, Counts, Limits, SMTT(30)
  <2>3. connection_count' = Cardinality(Live')
    BY <1>0, <1>14, <1>15, ZenonT(40)
  <2> QED  BY <1>0, <1>13, <1>14, <2>1, <2>2, <2>3, Limits, SMTT(30) DEF Room
<1>17. Workers' /\ Deaths'
  BY <1>0, ZenonT(40) DEF CapacityInv, Workers, Deaths
<1>18. QED
  BY <1>16, <1>17, ZenonT(40) DEF CapacityInv

----------------------------------------------------------------------------

\* Before the first client there is neither connection nor worker.
LEMMA InitCapacity == Init => CapacityInv
<1> SUFFICES ASSUME Init PROVE CapacityInv
  BY Zenon
<1>1. Live = {} /\ Handed = {}
  BY NothingFormed, ZenonT(40) DEF Init, Live, Handed
<1>2. pids = <<>> /\ connection_count = 0 /\ \A c \in Conns : child[c] = "none"
  BY Zenon DEF Init
<1>3. Workers
  <2>1. pids \in Seq(Conns) /\ Len(pids) = 0 /\ DOMAIN pids = {}
    BY <1>2
  <2>2. IsInjective(pids) /\ Range(pids) = {}
    BY <2>1, Zenon DEF IsInjective, Range
  <2> QED  BY <1>2, <2>1, <2>2, Limits, SMTT(30) DEF Workers
<1>4. Deaths
  BY <1>2, ZenonT(40) DEF Deaths
<1>5. Room
  BY <1>1, <1>2, Limits, FS_EmptySet, SMTT(30) DEF Room, Init
<1>6. QED
  BY <1>3, <1>4, <1>5, ZenonT(40) DEF CapacityInv

\* Every step keeps the limits.
LEMMA NextCapacity == LoopInv /\ CapacityInv /\ [Next]_vars => CapacityInv'
<1> SUFFICES ASSUME LoopInv, CapacityInv, [Next]_vars PROVE CapacityInv'
  BY Zenon
<1>1. CASE SocketPass \/ TimerPass
  BY <1>1, ServeCapacity DEF SocketPass, TimerPass
<1>2. CASE Wake \/ Signals \/ RouteProgress \/ DestroyClosed \/ Accept
  BY <1>2, WakeCapacity, SignalsCapacity, RouteProgressCapacity, DestroyCapacity, AcceptCapacity, ZenonT(40)
<1>3. CASE Terminate \/ UNCHANGED vars \/ RoutesDone \/ SocketsDone
  BY <1>3, PassCapacity, Zenon
<1>4. CASE Tick \/ \E c \in Conns : Dial(c) \/ Resolve(c) \/ \E s \in End : Speak(c, s) \/ Hear(c, s)
  BY <1>4, PeersCapacity, ZenonT(40)
<1>5. ASSUME NEW c \in Conns, Arrive(c) \/ WorkerExits(c) PROVE CapacityInv'
  BY <1>5, ArriveCapacity, ExitsCapacity, ZenonT(40)
<1>6. QED
  BY <1>1, <1>2, <1>3, <1>4, <1>5, Zenon DEF Next, Loop

\* Connections and workers together stay within the descriptors' limit and
\* workers within their own, and the list of workers is exactly the children
\* not waited for, each of which will be, for any number of connections, any
\* limits and any faults (the accept loop, connection_dispatch,
\* listener_workers_reap).
THEOREM LimitsAreKept == Spec => []CapacityKept
<1>1. LoopInv /\ CapacityInv => CapacityKept
  <2> SUFFICES ASSUME LoopInv, CapacityInv PROVE CapacityKept
    BY Zenon
  <2>1. pc = "wait" => connection_count + Len(pids) <= connection_limit
    <3> SUFFICES ASSUME pc = "wait" PROVE connection_count + Len(pids) <= connection_limit
      BY Zenon
    <3>1. Handed = {}
      BY UnmarkedKept, Zenon DEF LoopInv, Batch
    <3>2. Cardinality(Handed) = 0
      BY <3>1, FS_EmptySet, ZenonT(40)
    <3> QED  BY <3>2, Limits, SMTT(30) DEF CapacityInv, Room
  <2> QED  BY <2>1, Zenon DEF CapacityInv, Room, Workers, Deaths, CapacityKept
<1>2. Spec => []CapacityInv
  <2>1. Init => CapacityInv
    BY InitCapacity, Zenon
  <2>2. LoopInv /\ CapacityInv /\ [Next]_vars => CapacityInv'
    BY NextCapacity
  <2> QED  BY <2>1, <2>2, LoopKeepsInvariant, PTL DEF Spec
<1>3. QED
  BY <1>1, <1>2, LoopKeepsInvariant, PTL

=============================================================================

---------------------------- MODULE LookupProofs ----------------------------
(***************************************************************************)
(* The supervisor's side of a lookup (Lookup.tla), for any queries, zones, *)
(* packets and faults: the byte budget is exact and kept, and a result     *)
(* published as valid is one.  Neither is inductive by itself: the budget  *)
(* needs every charge to be a number, which the assembly's types give; the *)
(* result needs what each packet left in the assembly (AssemblyOK).        *)
(***************************************************************************)
EXTENDS Lookup, SequenceTheorems, FiniteSetTheorems, WellFoundedInduction, TLAPS

-----------------------------------------------------------------------------
(* Sums of charges *)

\* Induction over the naturals, as a statement about sets.
LEMMA NatSetInduction ==
    ASSUME NEW S, 0 \in S, \A n \in Nat : n \in S => n + 1 \in S
    PROVE  Nat \subseteq S
<1> DEFINE Left == Nat \ S
<1>1. SUFFICES ASSUME Left # {} PROVE FALSE
  OBVIOUS
<1>2. PICK least \in Left : \A n \in Left : ~(<<n, least>> \in OpToRel(<, Nat))
  BY <1>1, NatLessThanWellFounded, WFMin, Zenon
<1>3. least \in Nat /\ least # 0
  OBVIOUS
<1>4. least - 1 \in Nat /\ least - 1 < least
  BY <1>3
<1>5. least - 1 \notin Left
  BY <1>2, <1>3, <1>4, Zenon DEF OpToRel
<1> QED BY <1>3, <1>4, <1>5

\* The equation that SumFunction's recursion solves.
IsSum(sum, f, I) ==
    sum = [s \in SUBSET I |-> IF s = {} THEN 0
                              ELSE f[CHOOSE x \in s : TRUE] + sum[s \ {CHOOSE x \in s : TRUE}]]

\* The recursion that SumFunction is defined by has a solution: on the sets
\* of at most n members by induction over n.
LEMMA SumExists ==
    ASSUME NEW I, IsFiniteSet(I), NEW f \in [I -> Nat]
    PROVE  \E sum : IsSum(sum, f, I)
<1> DEFINE Upto(n) == {s \in SUBSET I : Cardinality(s) <= n}
           pick(s) == CHOOSE x \in s : TRUE
           Solves(g, n) == \A s \in Upto(n) : g[s] = IF s = {} THEN 0 ELSE f[pick(s)] + g[s \ {pick(s)}]
           Solvable == {n \in Nat : \E g \in [Upto(n) -> Nat] : Solves(g, n)}
<1>1. \A s \in SUBSET I : s # {} =>
          /\ pick(s) \in s /\ pick(s) \in I
          /\ Cardinality(s) \in Nat
          /\ Cardinality(s \ {pick(s)}) = Cardinality(s) - 1
          /\ s \ {pick(s)} \in SUBSET I
  BY FS_RemoveElement, FS_Subset, FS_CardinalityType, Zenon
<1>2. \A s \in SUBSET I : IsFiniteSet(s) /\ Cardinality(s) \in Nat /\ (Cardinality(s) = 0 <=> s = {})
  BY FS_EmptySet, FS_Subset, FS_CardinalityType
<1>3. 0 \in Solvable
  <2> DEFINE g == [s \in Upto(0) |-> 0]
  <2>1. Upto(0) = {{}}
    BY <1>2
  <2>2. g \in [Upto(0) -> Nat] /\ Solves(g, 0)
    BY <2>1
  <2> QED BY <2>2, Zenon
<1>4. ASSUME NEW n \in Nat, n \in Solvable PROVE n + 1 \in Solvable
  <2>1. PICK g \in [Upto(n) -> Nat] : Solves(g, n)
    BY <1>4, Zenon
  <2> DEFINE h == [s \in Upto(n + 1) |-> IF s = {} THEN 0 ELSE f[pick(s)] + g[s \ {pick(s)}]]
  <2> HIDE DEF pick
  <2>2. ASSUME NEW s \in Upto(n + 1), s # {} PROVE s \ {pick(s)} \in Upto(n) /\ f[pick(s)] \in Nat
    BY <1>1, <2>2
  <2>3. \A s \in Upto(n) : s \in Upto(n + 1)
    BY <1>2
  <2>4. \A s \in Upto(n) : h[s] = g[s]
    BY <2>1, <2>3
  <2>5. h \in [Upto(n + 1) -> Nat]
    BY <2>2
  <2>6. ASSUME NEW s \in Upto(n + 1) PROVE h[s] = IF s = {} THEN 0 ELSE f[pick(s)] + h[s \ {pick(s)}]
    BY <2>2, <2>4, Zenon
  <2>7. Solves(h, n + 1)
    BY <2>6, Zenon
  <2>8. n + 1 \in Nat
    OBVIOUS
  <2> HIDE DEF h, Upto, Solves
  <2> QED BY <2>5, <2>7, <2>8, Zenon
<1>5. Cardinality(I) \in Solvable
  <2> HIDE DEF Solvable
  <2> QED BY <1>3, <1>4, NatSetInduction, FS_CardinalityType
<1>6. PICK g \in [Upto(Cardinality(I)) -> Nat] : Solves(g, Cardinality(I))
  BY <1>5, Zenon
<1>7. Upto(Cardinality(I)) = SUBSET I
  BY FS_Subset
<1>8. g = [s \in SUBSET I |-> g[s]]
  BY <1>6, <1>7
<1>9. g = [s \in SUBSET I |-> IF s = {} THEN 0 ELSE f[pick(s)] + g[s \ {pick(s)}]]
  BY <1>6, <1>7, <1>8, Zenon
<1> QED BY <1>9, Zenon DEF IsSum

\* SumFunction(f) is the value of that solution on all of f's domain.
LEMMA SumSolves ==
    ASSUME NEW I, IsFiniteSet(I), NEW f \in [I -> Nat]
    PROVE  \E sum : IsSum(sum, f, I) /\ SumFunction(f) = sum[I]
<1> DEFINE total == CHOOSE sum : IsSum(sum, f, I)
<1>1. IsSum(total, f, I)
  BY SumExists, Zenon
<1>2. DOMAIN f = I
  OBVIOUS
<1>3. SumFunctionOnSet(f, I) = total[I]
  BY Zenon DEF SumFunctionOnSet, FoldFunctionOnSet, MapThenFoldSet, IsSum
<1>4. SumFunction(f) = total[I]
  BY <1>2, <1>3, Zenon DEF SumFunction
<1> QED BY <1>1, <1>4, Zenon

\* A sum follows the one charge in it that changes, and no charge exceeds it.
LEMMA SumChange ==
    ASSUME NEW I, IsFiniteSet(I), NEW f \in [I -> Nat], NEW g \in [I -> Nat],
           NEW q \in I, \A i \in I \ {q} : g[i] = f[i]
    PROVE  /\ SumFunction(f) \in Nat
           /\ f[q] <= SumFunction(f)
           /\ SumFunction(g) = SumFunction(f) - f[q] + g[q]
<1> DEFINE pick(s) == CHOOSE x \in s : TRUE
           rest(s) == s \ {pick(s)}
<1>1. PICK F : IsSum(F, f, I) /\ SumFunction(f) = F[I]
  BY SumSolves
<1>2. PICK G : IsSum(G, g, I) /\ SumFunction(g) = G[I]
  BY SumSolves
<1>3. \A s \in SUBSET I : F[s] = IF s = {} THEN 0 ELSE f[pick(s)] + F[rest(s)]
  BY <1>1, Zenon DEF IsSum
<1>4. \A s \in SUBSET I : G[s] = IF s = {} THEN 0 ELSE g[pick(s)] + G[rest(s)]
  BY <1>2 DEF IsSum
<1>5. \A s \in SUBSET I : s # {} =>
          /\ pick(s) \in s /\ pick(s) \in I
          /\ Cardinality(s) \in Nat /\ Cardinality(rest(s)) = Cardinality(s) - 1
          /\ rest(s) \in SUBSET I
  BY FS_RemoveElement, FS_Subset, FS_CardinalityType, ZenonT(40)
<1>6. \A s \in SUBSET I : Cardinality(s) \in Nat /\ (Cardinality(s) = 0 <=> s = {})
  BY FS_EmptySet, FS_Subset, FS_CardinalityType
<1>7. \A s \in SUBSET I : \A x : x \in rest(s) <=> x \in s /\ x # pick(s)
  OBVIOUS
<1> HIDE DEF pick, rest
<1> DEFINE Right(s) == /\ F[s] \in Nat /\ G[s] \in Nat
                       /\ q \in s => f[q] <= F[s] /\ G[s] = F[s] - f[q] + g[q]
                       /\ q \notin s => G[s] = F[s]
           Proved == {n \in Nat : \A s \in SUBSET I : Cardinality(s) <= n => Right(s)}
<1>8. 0 \in Proved
  BY <1>3, <1>4, <1>6
<1>9. ASSUME NEW n \in Nat, n \in Proved PROVE n + 1 \in Proved
  <2> SUFFICES ASSUME NEW s \in SUBSET I, Cardinality(s) <= n + 1, s # {} PROVE Right(s)
    BY <1>8, <1>6
  <2>1. Right(rest(s))
    BY <1>5, <1>6, <1>9
  <2>2. f[pick(s)] \in Nat /\ g[pick(s)] \in Nat /\ f[q] \in Nat /\ g[q] \in Nat
    BY <1>5
  <2>3. F[s] = f[pick(s)] + F[rest(s)] /\ G[s] = g[pick(s)] + G[rest(s)]
    BY <1>3, <1>4
  <2>4. pick(s) = q \/ g[pick(s)] = f[pick(s)]
    BY <1>5
  <2>5. pick(s) = q => q \in s /\ q \notin rest(s)
    BY <1>5, <1>7
  <2>6. pick(s) # q => (q \in s <=> q \in rest(s))
    BY <1>7
  <2> QED BY <2>1, <2>2, <2>3, <2>4, <2>5, <2>6, SMTT(30)
<1>10. Cardinality(I) \in Proved
  <2> HIDE DEF Proved
  <2> QED BY <1>8, <1>9, NatSetInduction, FS_CardinalityType, Zenon
<1>11. Right(I)
  BY <1>10, FS_CardinalityType
<1> QED BY <1>1, <1>2, <1>11

\* No charges, no sum.
LEMMA SumZero ==
    ASSUME NEW I, IsFiniteSet(I), NEW f \in [I -> Nat], \A i \in I : f[i] = 0
    PROVE  SumFunction(f) = 0
<1> DEFINE pick(s) == CHOOSE x \in s : TRUE
           rest(s) == s \ {pick(s)}
<1>1. PICK F : IsSum(F, f, I) /\ SumFunction(f) = F[I]
  BY SumSolves
<1>2. \A s \in SUBSET I : F[s] = IF s = {} THEN 0 ELSE f[pick(s)] + F[rest(s)]
  BY <1>1 DEF IsSum
<1>3. \A s \in SUBSET I : s # {} =>
          /\ pick(s) \in I
          /\ Cardinality(s) \in Nat /\ Cardinality(rest(s)) = Cardinality(s) - 1
          /\ rest(s) \in SUBSET I
  BY FS_RemoveElement, FS_Subset, FS_CardinalityType, Zenon
<1>4. \A s \in SUBSET I : Cardinality(s) \in Nat /\ (Cardinality(s) = 0 <=> s = {})
  BY FS_EmptySet, FS_Subset, FS_CardinalityType
<1> HIDE DEF pick, rest
<1> DEFINE Proved == {n \in Nat : \A s \in SUBSET I : Cardinality(s) <= n => F[s] = 0}
<1>5. 0 \in Proved
  BY <1>2, <1>4
<1>6. ASSUME NEW n \in Nat, n \in Proved PROVE n + 1 \in Proved
  BY <1>2, <1>3, <1>4, <1>6
<1>7. Cardinality(I) \in Proved
  <2> HIDE DEF Proved
  <2> QED BY <1>5, <1>6, NatSetInduction, FS_CardinalityType, Zenon
<1> QED BY <1>1, <1>7, FS_CardinalityType, SMTT(30)

-----------------------------------------------------------------------------
(* What an assembly is between two packets *)

\* Names lead from the question along the aliases, none twice.
Chained(payload) ==
    /\ \A i \in DOMAIN payload.cnames : payload.cnames[i].owner = Path(payload)[i]
    /\ IsInjective(Path(payload))

\* The records that a question of this type is answered with.
RecordOf(query_type) == IF query_type = "SRV" THEN SrvRecord ELSE AddressRecord

\* What a BEGIN packet may say about the answer's absence.
Negative ==
    [valid : BOOLEAN, owner : Name \cup {NoName}, minimum : TTL, record_ttl : TTL, effective_ttl : TTL]

\* A result, complete or not, as the assembly stores it.
Result(query_type) ==
    [question_name : Name \cup {NoName}, canonical_name : Name \cup {NoName},
     cnames : Seq(CnameRecord), records : Seq(RecordOf(query_type)),
     negative : Negative,
     rcode : Rcode]

\* What holds of query q's assembly between two packets: its fields fit the
\* query, its CNAMEs lead on from the expected name without a cycle, and the
\* running TTL bounds theirs and is bounded below by every record's.
AssemblyOK(q, a) ==
    /\ a \in [state : {"BEGIN", "CNAME", "RECORD", "END"}, query_id : {q}, query_type : {QueryType[q]},
              expected_name : {dns_name_normalize(QueryName[q])},
              declared_cname_count : Nat, declared_record_count : Nat, status : 0 .. 10,
              payload : Result(QueryType[q]), chain_ttl : TTL, dynamic_bytes : Nat]
    /\ a.state = "BEGIN" => a.payload.cnames = <<>> /\ a.payload.records = <<>>
    /\ a.state = "CNAME" => a.payload.records = <<>>
    /\ a.state # "BEGIN" =>
          /\ a.status \in 1 .. 10
          /\ (a.declared_record_count > 0) <=> (resolver_ipc_lookup_status_maps[a.status] = "OK")
          /\ a.payload.question_name \in {NoName, a.expected_name}
    /\ Chained(a.payload)
    /\ \A i \in DOMAIN a.payload.cnames : a.chain_ttl <= a.payload.cnames[i].ttl
    /\ \A i \in DOMAIN a.payload.records : a.payload.records[i].effective_ttl <= a.chain_ttl

\* Every assembly under way is sound so far.
AssembliesOK == \A q \in Query : assembly[q] # NoAssembly => AssemblyOK(q, assembly[q])

\* The first conjunct, by itself.
AssemblyTyped(q, a) ==
    a \in [state : {"BEGIN", "CNAME", "RECORD", "END"}, query_id : {q}, query_type : {QueryType[q]},
              expected_name : {dns_name_normalize(QueryName[q])},
              declared_cname_count : Nat, declared_record_count : Nat, status : 0 .. 10,
              payload : Result(QueryType[q]), chain_ttl : TTL, dynamic_bytes : Nat]

\* dns_ttl_min stays a TTL and is below both arguments.
LEMMA LesserTyped ==
    ASSUME NEW a \in TTL, NEW b \in TTL
    PROVE  Lesser(a, b) \in TTL /\ Lesser(a, b) <= a /\ Lesser(a, b) <= b
BY LimitsAssumption DEF TTL, Lesser

-----------------------------------------------------------------------------
(* The packets, one kind at a time *)

\* resolver_ipc_assembly_cname_consume keeps the chain: a CNAME that it accepts
\* is owned by the chain's last name and leads to a new one.
LEMMA CnameConsumed ==
    ASSUME NEW q \in Query, NEW a, AssemblyOK(q, a), a.state = "CNAME", NEW packet,
           resolver_ipc_assembly_cname_consume(a, packet).status = "OK"
    PROVE  /\ AssemblyOK(q, resolver_ipc_assembly_cname_consume(a, packet).assembly)
           /\ resolver_ipc_assembly_cname_consume(a, packet).assembly.dynamic_bytes = a.dynamic_bytes
<1> DEFINE received == a.payload.cnames
           record == packet.record
           extended == Append(received, record)
           state == IF Len(extended) # a.declared_cname_count THEN a.state
                    ELSE IF a.declared_record_count > 0 THEN "RECORD" ELSE "END"
           b == resolver_ipc_assembly_cname_consume(a, packet).assembly
<1>1. /\ resolver_ipc_response_cname_decode(packet)
      /\ record.owner = IF received = <<>> THEN a.payload.question_name ELSE Last(received).target
      /\ \A i \in DOMAIN received : record.target # received[i].owner
      /\ record.target # record.owner
      /\ b = [a EXCEPT !.payload.cnames = extended, !.chain_ttl = Lesser(record.ttl, @), !.state = state]
  BY DEF resolver_ipc_assembly_cname_consume, Accepted, Refused
<1>2. record \in CnameRecord
  BY <1>1 DEF resolver_ipc_response_cname_decode, resolver_ipc_response_cname_encode
<1>3. AssemblyTyped(q, a) /\ Chained(a.payload)
  BY DEF AssemblyOK, AssemblyTyped
<1>4. /\ a.payload \in Result(QueryType[q]) /\ received \in Seq(CnameRecord) /\ a.chain_ttl \in TTL
      /\ record.ttl \in TTL
  BY <1>2, <1>3 DEF AssemblyTyped, Result, CnameRecord
<1> HIDE DEF record, received
<1>5. /\ b.state = state /\ b.chain_ttl = Lesser(record.ttl, a.chain_ttl)
      /\ b.payload = [a.payload EXCEPT !.cnames = extended]
      /\ b.dynamic_bytes = a.dynamic_bytes /\ b.declared_cname_count = a.declared_cname_count
      /\ b.declared_record_count = a.declared_record_count /\ b.status = a.status
      /\ b.expected_name = a.expected_name
  BY <1>1, <1>3 DEF AssemblyTyped
<1>6. /\ extended \in Seq(CnameRecord) /\ Len(extended) = Len(received) + 1
      /\ \A i \in 1 .. Len(received) : extended[i] = received[i]
      /\ extended[Len(extended)] = record
  BY <1>2, <1>4
<1> HIDE DEF extended, state, b
<1>7. /\ b.payload.cnames = extended /\ b.payload.records = a.payload.records
      /\ b.payload.question_name = a.payload.question_name
      /\ b.payload \in Result(QueryType[q])
  BY <1>4, <1>5, <1>6, Zenon DEF Result
<1>8. AssemblyTyped(q, b)
  <2>1. b = [a EXCEPT !.payload = b.payload, !.chain_ttl = b.chain_ttl, !.state = b.state]
    BY <1>1, <1>3, <1>5 DEF AssemblyTyped
  <2>2. b.chain_ttl \in TTL
    BY <1>4, <1>5, LesserTyped
  <2>3. b.state \in {"BEGIN", "CNAME", "RECORD", "END"}
    BY <1>5 DEF state
  <2>4. b.payload \in Result(QueryType[q])
    BY <1>7
  <2> DEFINE s == b.state c == b.chain_ttl p == b.payload
  <2> HIDE DEF s, c, p
  <2>5. [a EXCEPT !.payload = p, !.chain_ttl = c, !.state = s] \in
           [state : {"BEGIN", "CNAME", "RECORD", "END"}, query_id : {q}, query_type : {QueryType[q]},
              expected_name : {dns_name_normalize(QueryName[q])},
              declared_cname_count : Nat, declared_record_count : Nat, status : 0 .. 10,
              payload : Result(QueryType[q]), chain_ttl : TTL, dynamic_bytes : Nat]
    BY <1>3, <2>4, <2>2, <2>3, Zenon DEF AssemblyTyped, s, c, p
  <2> QED BY <2>1, <2>5, Zenon DEF AssemblyTyped, s, c, p
<1>9. Chained(b.payload)
  <2>1. /\ \A i \in 1 .. Len(received) + 1 : Path(b.payload)[i] = Path(a.payload)[i]
        /\ Path(b.payload)[Len(received) + 2] = record.target
        /\ DOMAIN Path(b.payload) = 1 .. Len(received) + 2
    <3>1. Len(received) \in Nat /\ Len(b.payload.cnames) = Len(received) + 1
      BY <1>4, <1>6, <1>7
    <3>2. DOMAIN Path(b.payload) = 1 .. Len(received) + 2
      BY <3>1 DEF Path
    <3>3. Path(b.payload)[Len(received) + 2] = record.target
      BY <1>6, <1>7, <3>1 DEF Path
    <3>4. ASSUME NEW i \in 1 .. Len(received) + 1 PROVE Path(b.payload)[i] = Path(a.payload)[i]
      <4>1. i # 1 => i - 1 \in 1 .. Len(received) /\ b.payload.cnames[i - 1] = received[i - 1]
        BY <1>6, <1>7, <3>1
      <4> QED BY <1>7, <3>1, <4>1 DEF Path, received
    <3> QED BY <3>2, <3>3, <3>4
  <2>2. record.owner = Path(a.payload)[Len(received) + 1]
    BY <1>1, <1>4 DEF Path, Last, received
  <2>3. /\ \A i \in 1 .. Len(received) : received[i].owner = Path(a.payload)[i]
        /\ \A i, j \in 1 .. Len(received) + 1 : Path(a.payload)[i] = Path(a.payload)[j] => i = j
    <3>1. DOMAIN Path(a.payload) = 1 .. Len(received) + 1 /\ DOMAIN received = 1 .. Len(received)
      BY <1>4 DEF Path, received
    <3>2. /\ \A i \in DOMAIN received : received[i].owner = Path(a.payload)[i]
          /\ \A i, j \in DOMAIN Path(a.payload) : Path(a.payload)[i] = Path(a.payload)[j] => i = j
      BY <1>3, Zenon DEF Chained, IsInjective, received
    <3> QED BY <3>1, <3>2, Zenon
  <2>4. \A i \in 1 .. Len(received) + 1 : Path(a.payload)[i] # record.target
    BY <1>1, <1>4, <2>2, <2>3, SMTT(30)
  <2>5. ASSUME NEW i \in DOMAIN b.payload.cnames PROVE b.payload.cnames[i].owner = Path(b.payload)[i]
    <3>1. CASE i \in 1 .. Len(received)
      BY <1>4, <1>6, <1>7, <2>1, <2>3, <3>1, SMTT(30)
    <3>2. CASE i = Len(received) + 1
      BY <1>4, <1>6, <1>7, <2>1, <2>2, <3>2
    <3> QED BY <1>4, <1>6, <1>7, <3>1, <3>2, SMTT(30)
  <2>6. ASSUME NEW i \in 1 .. Len(received) + 2, NEW j \in 1 .. Len(received) + 2,
               Path(b.payload)[i] = Path(b.payload)[j]
        PROVE  i = j
    <3>1. Len(received) \in Nat
      BY <1>4
    <3> DEFINE n == Len(received) P == Path(a.payload) Q == Path(b.payload)
    <3> HIDE DEF n, P, Q
    <3>2. CASE i \in 1 .. n + 1 /\ j \in 1 .. n + 1
      BY <2>1, <2>3, <2>6, <3>1, <3>2, Zenon DEF n, P, Q
    <3>3. CASE i = n + 2 /\ j \in 1 .. n + 1
      BY <2>1, <2>4, <2>6, <3>1, <3>3, Zenon DEF n, P, Q
    <3>4. CASE j = n + 2 /\ i \in 1 .. n + 1
      BY <2>1, <2>4, <2>6, <3>1, <3>4 DEF n, P, Q
    <3> QED BY <3>1, <3>2, <3>3, <3>4 DEF n
  <2>7. \A i \in DOMAIN b.payload.cnames : b.payload.cnames[i].owner = Path(b.payload)[i]
    BY <2>5, Zenon
  <2>8. IsInjective(Path(b.payload))
    BY <2>1, <2>6, Zenon DEF IsInjective
  <2> QED BY <2>7, <2>8, Zenon DEF Chained
<1>10. b.payload.records = <<>>
  BY <1>7 DEF AssemblyOK
<1>11. \A i \in DOMAIN b.payload.cnames : b.chain_ttl <= b.payload.cnames[i].ttl
  <2> SUFFICES ASSUME NEW i \in DOMAIN b.payload.cnames PROVE b.chain_ttl <= b.payload.cnames[i].ttl
    OBVIOUS
  <2>1. b.chain_ttl <= a.chain_ttl /\ b.chain_ttl <= record.ttl /\ b.chain_ttl \in TTL
    BY <1>4, <1>5, LesserTyped
  <2>2. CASE i \in 1 .. Len(received)
    <3>1. a.chain_ttl <= received[i].ttl /\ received[i].ttl \in TTL
      <4>1. \A k \in DOMAIN received : a.chain_ttl <= received[k].ttl
        BY Zenon DEF AssemblyOK, received
      <4>2. received[i] \in CnameRecord /\ i \in DOMAIN received
        BY <1>4, <2>2
      <4>3. received[i].ttl \in TTL
        BY <4>2 DEF CnameRecord
      <4> QED BY <4>1, <4>2, <4>3, Zenon
    <3> QED BY <1>4, <1>6, <1>7, <2>1, <2>2, <3>1 DEF TTL
  <2>3. CASE i = Len(received) + 1
    BY <1>6, <1>7, <2>1, <2>3
  <2> QED BY <1>4, <1>6, <1>7, <2>2, <2>3
<1>12. b.state # "BEGIN"
  BY <1>5 DEF state
<1>13. /\ b.status \in 1 .. 10
       /\ (b.declared_record_count > 0) <=> (resolver_ipc_lookup_status_maps[b.status] = "OK")
       /\ b.payload.question_name \in {NoName, b.expected_name}
  <2>1. /\ a.status \in 1 .. 10
        /\ (a.declared_record_count > 0) <=> (resolver_ipc_lookup_status_maps[a.status] = "OK")
        /\ a.payload.question_name \in {NoName, a.expected_name}
    BY DEF AssemblyOK
  <2> QED BY <1>5, <1>7, <2>1, Zenon
<1>14. \A i \in DOMAIN b.payload.records : b.payload.records[i].effective_ttl <= b.chain_ttl
  BY <1>10
<1> QED
  <2>1. AssemblyOK(q, b)
    BY <1>8, <1>9, <1>10, <1>11, <1>12, <1>13, <1>14, ZenonT(40) DEF AssemblyOK, AssemblyTyped
  <2> QED BY <1>5, <2>1, Zenon DEF b

\* resolver_ipc_assembly_record_commit keeps the assembly sound when the record's
\* TTL is the lesser of its own and the chain's.
LEMMA RecordCommitted ==
    ASSUME NEW q \in Query, NEW a, AssemblyOK(q, a), a.state = "RECORD",
           NEW record \in RecordOf(QueryType[q]),
           record.effective_ttl = Lesser(record.record_ttl, a.chain_ttl)
    PROVE  /\ resolver_ipc_assembly_record_commit(a, record).status = "OK"
           /\ AssemblyOK(q, resolver_ipc_assembly_record_commit(a, record).assembly)
           /\ resolver_ipc_assembly_record_commit(a, record).assembly.dynamic_bytes = a.dynamic_bytes
<1> DEFINE received == a.payload.records
           extended == Append(received, record)
           state == IF Len(extended) = a.declared_record_count THEN "END" ELSE a.state
           b == resolver_ipc_assembly_record_commit(a, record).assembly
<1>1. /\ resolver_ipc_assembly_record_commit(a, record).status = "OK"
      /\ b = [a EXCEPT !.payload.records = extended, !.state = state]
  BY DEF resolver_ipc_assembly_record_commit, Accepted
<1>2. AssemblyTyped(q, a) /\ Chained(a.payload)
  BY ZenonT(40) DEF AssemblyOK, AssemblyTyped
<1>3. /\ a.payload \in Result(QueryType[q]) /\ received \in Seq(RecordOf(QueryType[q]))
      /\ a.payload.cnames \in Seq(CnameRecord) /\ a.chain_ttl \in TTL
  BY <1>2 DEF AssemblyTyped, Result
<1>4. record.record_ttl \in TTL
  BY DEF RecordOf, AddressRecord, SrvRecord
<1> HIDE DEF received
<1>5. /\ b.state = state /\ b.chain_ttl = a.chain_ttl
      /\ b.payload = [a.payload EXCEPT !.records = extended]
      /\ b.dynamic_bytes = a.dynamic_bytes /\ b.declared_cname_count = a.declared_cname_count
      /\ b.declared_record_count = a.declared_record_count /\ b.status = a.status
      /\ b.expected_name = a.expected_name
  BY <1>1, <1>2 DEF AssemblyTyped
<1>6. /\ extended \in Seq(RecordOf(QueryType[q])) /\ Len(extended) = Len(received) + 1
      /\ \A i \in 1 .. Len(received) : extended[i] = received[i]
      /\ extended[Len(extended)] = record
  BY <1>3
<1> HIDE DEF extended, state, b
<1>7. /\ b.payload.records = extended /\ b.payload.cnames = a.payload.cnames
      /\ b.payload.question_name = a.payload.question_name
      /\ b.payload \in Result(QueryType[q])
  BY <1>3, <1>5, <1>6, Zenon DEF Result
<1>8. AssemblyTyped(q, b)
  <2>1. b = [a EXCEPT !.payload = b.payload, !.state = b.state]
    BY <1>1, <1>2, <1>5 DEF AssemblyTyped
  <2>2. b.state \in {"BEGIN", "CNAME", "RECORD", "END"}
    BY <1>5 DEF state
  <2> DEFINE s == b.state p == b.payload
  <2>3. p \in Result(QueryType[q]) /\ s \in {"BEGIN", "CNAME", "RECORD", "END"}
    BY <1>7, <2>2, Zenon
  <2> HIDE DEF s, p
  <2>4. [a EXCEPT !.payload = p, !.state = s] \in
           [state : {"BEGIN", "CNAME", "RECORD", "END"}, query_id : {q}, query_type : {QueryType[q]},
              expected_name : {dns_name_normalize(QueryName[q])},
              declared_cname_count : Nat, declared_record_count : Nat, status : 0 .. 10,
              payload : Result(QueryType[q]), chain_ttl : TTL, dynamic_bytes : Nat]
    BY <1>2, <2>3, Zenon DEF AssemblyTyped
  <2> QED BY <2>1, <2>4, Zenon DEF AssemblyTyped, s, p
<1>9. Chained(b.payload)
  <2>1. Path(b.payload) = Path(a.payload)
    BY <1>7, Zenon DEF Path
  <2> QED BY <1>2, <1>7, <2>1, Zenon DEF Chained
<1>10. b.state \notin {"BEGIN", "CNAME"}
  BY <1>5 DEF state
<1>11. \A i \in DOMAIN b.payload.cnames : b.chain_ttl <= b.payload.cnames[i].ttl
  BY <1>5, <1>7, Zenon DEF AssemblyOK
<1>12. /\ b.status \in 1 .. 10
       /\ (b.declared_record_count > 0) <=> (resolver_ipc_lookup_status_maps[b.status] = "OK")
       /\ b.payload.question_name \in {NoName, b.expected_name}
  <2>1. /\ a.status \in 1 .. 10
        /\ (a.declared_record_count > 0) <=> (resolver_ipc_lookup_status_maps[a.status] = "OK")
        /\ a.payload.question_name \in {NoName, a.expected_name}
    BY DEF AssemblyOK
  <2> QED BY <1>5, <1>7, <2>1, Zenon
<1>13. \A i \in DOMAIN b.payload.records : b.payload.records[i].effective_ttl <= b.chain_ttl
  <2> SUFFICES ASSUME NEW i \in DOMAIN b.payload.records
               PROVE  b.payload.records[i].effective_ttl <= b.chain_ttl
    OBVIOUS
  <2>1. i \in 1 .. Len(received) \/ i = Len(received) + 1
    BY <1>3, <1>6, <1>7
  <2>2. CASE i \in 1 .. Len(received)
    <3>1. \A k \in DOMAIN received : received[k].effective_ttl <= a.chain_ttl
      BY Zenon DEF AssemblyOK, received
    <3>2. i \in DOMAIN received
      BY <1>3, <2>2
    <3> QED BY <1>5, <1>6, <1>7, <2>2, <3>1, <3>2, ZenonT(40)
  <2>3. CASE i = Len(received) + 1
    <3>1. b.payload.records[i] = record
      BY <1>6, <1>7, <2>3, SMTT(30)
    <3>2. record.effective_ttl <= a.chain_ttl
      BY <1>3, <1>4, LesserTyped
    <3> QED BY <1>5, <3>1, <3>2, ZenonT(40)
  <2> QED BY <2>1, <2>2, <2>3, Zenon
<1> QED
  <2>1. b.state # "BEGIN" /\ b.state # "CNAME"
    BY <1>10
  <2>2. AssemblyOK(q, b)
    BY <1>8, <1>9, <1>11, <1>12, <1>13, <2>1, Zenon DEF AssemblyOK, AssemblyTyped
  <2> QED BY <1>1, <1>5, <2>2, Zenon DEF b

\* The codes that resolver_ipc_lookup_status_valid accepts.
LEMMA StatusCodes == DOMAIN resolver_ipc_lookup_status_maps = 1 .. 10
BY DEF resolver_ipc_lookup_status_maps

\* The size of the two arrays is a natural number.
LEMMA ArrayBytesTyped ==
    ASSUME NEW type \in QueryTypes, NEW m \in Nat, NEW n \in Nat
    PROVE  ArrayBytes(type, m, n) \in Nat
<1> DEFINE size == RECORD_BYTES[type]
<1>1. size \in Nat /\ CNAME_ARRAY_BYTES \in Nat
  BY BytesAssumption
<1> HIDE DEF size
<1>2. n * size \in Nat
  BY <1>1
<1> QED BY <1>1, <1>2 DEF ArrayBytes, size

\* A result with nothing in its arrays yet.
LEMMA ResultFormed ==
    ASSUME NEW type, NEW question \in Name \cup {NoName}, NEW canonical \in Name \cup {NoName},
           NEW negative \in Negative, NEW rcode \in Rcode
    PROVE  [question_name |-> question, canonical_name |-> canonical, cnames |-> <<>>, records |-> <<>>,
            negative |-> negative, rcode |-> rcode] \in Result(type)
<1>1. <<>> \in Seq(CnameRecord) /\ <<>> \in Seq(RecordOf(type))
  OBVIOUS
<1> QED BY <1>1 DEF Result

\* resolver_ipc_assembly_begin_consume opens a sound assembly, and the arrays it
\* allocates fit under the limit with everything else that is charged.
LEMMA BeginConsumed ==
    ASSUME NEW q \in Query, NEW a, AssemblyOK(q, a), a.state = "BEGIN", NEW packet, NEW memory,
           owned_bytes \in Nat,
           resolver_ipc_assembly_begin_consume(a, packet, memory).status = "OK"
    PROVE  /\ AssemblyOK(q, resolver_ipc_assembly_begin_consume(a, packet, memory).assembly)
           /\ owned_bytes + resolver_ipc_assembly_begin_consume(a, packet, memory).assembly.dynamic_bytes
                <= RESOLVER_REPLY_ASSEMBLY_BYTE_LIMIT
<1> DEFINE out == resolver_ipc_assembly_begin_consume(a, packet, memory)
           allocated == resolver_ipc_assembly_arrays_allocate(a, packet, memory)
           bytes == ArrayBytes(a.query_type, packet.cname_count, packet.record_count)
           state == IF packet.cname_count > 0 THEN "CNAME"
                    ELSE IF packet.record_count > 0 THEN "RECORD" ELSE "END"
           payload == [EmptyResult EXCEPT !.question_name = packet.question_name,
                                          !.canonical_name = packet.canonical_name,
                                          !.negative = packet.negative, !.rcode = packet.rcode]
           b == out.assembly
<1>1. /\ resolver_ipc_response_begin_decode(packet)
      /\ resolver_ipc_assembly_begin_check(a, packet)
      /\ allocated.status = "OK"
      /\ b = [allocated.assembly EXCEPT
                !.state = state, !.declared_cname_count = packet.cname_count,
                !.declared_record_count = packet.record_count, !.status = packet.status, !.payload = payload]
  BY Zenon DEF resolver_ipc_assembly_begin_consume, Accepted, Refused
<1>2. /\ allocated.assembly = [a EXCEPT !.dynamic_bytes = bytes]
      /\ ~(bytes > RESOLVER_REPLY_ASSEMBLY_BYTE_LIMIT)
      /\ ~(owned_bytes > RESOLVER_REPLY_ASSEMBLY_BYTE_LIMIT - bytes)
  BY <1>1, Zenon DEF resolver_ipc_assembly_arrays_allocate, Accepted, Refused
<1>3. AssemblyTyped(q, a) /\ QueryType[q] \in QueryTypes
  BY LookupAssumption DEF AssemblyOK, AssemblyTyped
<1>4. /\ packet.cname_count \in Nat /\ packet.record_count \in Nat
      /\ packet.status \in 1 .. 10 /\ packet.rcode \in Rcode
      /\ packet.question_name \in Name \cup {NoName} /\ packet.canonical_name \in Name \cup {NoName}
      /\ resolver_ipc_negative_valid(packet.negative)
  BY <1>1, StatusCodes, LimitsAssumption
     DEF resolver_ipc_response_begin_decode, resolver_ipc_response_count_valid, resolver_ipc_lookup_status_valid
<1>5. packet.negative \in Negative
  <2>1. CASE packet.negative.valid
    BY <1>4, <2>1, Zenon DEF resolver_ipc_negative_valid, Negative
  <2>2. CASE ~packet.negative.valid
    <3>1. packet.negative = NoNegative
      BY <1>4, <2>2, Zenon DEF resolver_ipc_negative_valid
    <3>2. NoNegative \in Negative
      BY LimitsAssumption, SMTT(30) DEF Negative, NoNegative, TTL
    <3> QED BY <3>1, <3>2, Zenon
  <2> QED BY <2>1, <2>2, Zenon
<1>6. bytes \in Nat
  BY <1>3, <1>4, ArrayBytesTyped, Zenon DEF AssemblyTyped
<1> HIDE DEF bytes, state, allocated, out
<1>7. /\ payload \in Result(QueryType[q]) /\ payload.cnames = <<>> /\ payload.records = <<>>
      /\ payload.question_name = packet.question_name
  <2>1. payload = [question_name |-> packet.question_name, canonical_name |-> packet.canonical_name,
                   cnames |-> <<>>, records |-> <<>>, negative |-> packet.negative, rcode |-> packet.rcode]
    <3>1. payload = [EmptyResult EXCEPT !.question_name = packet.question_name,
                                        !.canonical_name = packet.canonical_name,
                                        !.negative = packet.negative, !.rcode = packet.rcode]
      OBVIOUS
    <3>2. EmptyResult = [question_name |-> NoName, canonical_name |-> NoName, cnames |-> <<>>,
                         records |-> <<>>, negative |-> NoNegative, rcode |-> "noerror"]
      BY Zenon DEF EmptyResult
    <3> HIDE DEF payload
    <3> QED BY <3>1, <3>2, Zenon
  <2>2. <<>> \in Seq(CnameRecord) /\ <<>> \in Seq(RecordOf(QueryType[q]))
    OBVIOUS
  <2>4. payload.cnames = <<>> /\ payload.records = <<>> /\ payload.question_name = packet.question_name
    BY <2>1, Zenon
  <2> HIDE DEF payload
  <2>3. payload \in Result(QueryType[q])
    BY <1>4, <1>5, <2>1, ResultFormed, ZenonT(40)
  <2> QED BY <2>3, <2>4, Zenon
<1> HIDE DEF payload
<1>8. /\ b.state = state /\ b.declared_record_count = packet.record_count /\ b.status = packet.status
      /\ b.payload = payload /\ b.expected_name = a.expected_name /\ b.dynamic_bytes = bytes
      /\ AssemblyTyped(q, b)
  <2>1. state \in {"BEGIN", "CNAME", "RECORD", "END"}
    BY DEF state
  <2>2. b = [state |-> state, query_id |-> a.query_id, query_type |-> a.query_type,
             expected_name |-> a.expected_name, declared_cname_count |-> packet.cname_count,
             declared_record_count |-> packet.record_count, status |-> packet.status,
             payload |-> payload, chain_ttl |-> a.chain_ttl, dynamic_bytes |-> bytes]
    <3>1. a = [state |-> a.state, query_id |-> a.query_id, query_type |-> a.query_type,
               expected_name |-> a.expected_name, declared_cname_count |-> a.declared_cname_count,
               declared_record_count |-> a.declared_record_count, status |-> a.status,
               payload |-> a.payload, chain_ttl |-> a.chain_ttl, dynamic_bytes |-> a.dynamic_bytes]
      BY <1>3, Zenon DEF AssemblyTyped
    <3> DEFINE c == allocated.assembly
    <3>2. c = [state |-> a.state, query_id |-> a.query_id, query_type |-> a.query_type,
               expected_name |-> a.expected_name, declared_cname_count |-> a.declared_cname_count,
               declared_record_count |-> a.declared_record_count, status |-> a.status,
               payload |-> a.payload, chain_ttl |-> a.chain_ttl, dynamic_bytes |-> bytes]
      BY <1>2, <3>1
    <3>3. b = [c EXCEPT
                !.state = state, !.declared_cname_count = packet.cname_count,
                !.declared_record_count = packet.record_count, !.status = packet.status, !.payload = payload]
      BY <1>1, Zenon
    <3> HIDE DEF c, b
    <3> QED BY <3>2, <3>3, ZenonT(40)
  <2>3. /\ a.query_id = q /\ a.query_type = QueryType[q] /\ a.chain_ttl \in TTL
        /\ a.expected_name = dns_name_normalize(QueryName[q])
    BY <1>3, Zenon DEF AssemblyTyped
  <2>4. packet.status \in 0 .. 10
    BY <1>4
  <2> HIDE DEF b
  <2> QED BY <1>4, <1>6, <1>7, <2>1, <2>2, <2>3, <2>4, ZenonT(40) DEF AssemblyTyped
<1>9. /\ (packet.record_count > 0) <=> (resolver_ipc_lookup_status_maps[packet.status] = "OK")
      /\ packet.question_name \in {NoName, a.expected_name}
  BY <1>1, Zenon DEF resolver_ipc_assembly_begin_check
<1>10. Chained(b.payload)
  BY <1>7, <1>8, SMTT(30) DEF Chained, IsInjective, Path
<1>11. /\ b.state # "BEGIN"
       /\ b.payload.records = <<>>
       /\ \A i \in DOMAIN b.payload.cnames : b.chain_ttl <= b.payload.cnames[i].ttl
       /\ \A i \in DOMAIN b.payload.records : b.payload.records[i].effective_ttl <= b.chain_ttl
  BY <1>7, <1>8 DEF state
<1>12. AssemblyOK(q, b)
  BY <1>4, <1>7, <1>8, <1>9, <1>10, <1>11, ZenonT(40) DEF AssemblyOK, AssemblyTyped
<1> QED BY <1>2, <1>6, <1>8, <1>12, LookupAssumption, SMTT(30) DEF out

\* What the assembly hands over.
CompleteOK(q, a) ==
    /\ a.query_type = QueryType[q] /\ a.expected_name = dns_name_normalize(QueryName[q])
    /\ a.payload \in Result(QueryType[q]) /\ a.status \in 1 .. 10
    /\ Chained(a.payload)
    /\ a.payload.question_name \in {NoName, a.expected_name}
    /\ (a.payload.records # <<>>) <=> (resolver_ipc_lookup_status_maps[a.status] = "OK")
    /\ \/ resolver_ipc_lookup_status_maps[a.status] \in {"PERMANENT_ERROR", "TEMPORARY_ERROR"}
       \/ a.payload.canonical_name = Path(a.payload)[Len(a.payload.cnames) + 1]
    /\ \A i \in DOMAIN a.payload.records, j \in DOMAIN a.payload.cnames :
          a.payload.records[i].effective_ttl <= a.payload.cnames[j].ttl

\* resolver_ipc_assembly_end_consume lets only a full assembly through.
LEMMA EndConsumed ==
    ASSUME NEW q \in Query, NEW a, AssemblyOK(q, a), a.state = "END", NEW packet,
           resolver_ipc_assembly_end_consume(a, packet).status = "COMPLETE"
    PROVE  /\ CompleteOK(q, resolver_ipc_assembly_end_consume(a, packet).assembly)
           /\ resolver_ipc_assembly_end_consume(a, packet).assembly.dynamic_bytes = a.dynamic_bytes
<1> DEFINE b == resolver_ipc_assembly_end_consume(a, packet).assembly
<1>1. /\ b = [a EXCEPT !.state = "COMPLETE"]
      /\ Len(a.payload.cnames) = a.declared_cname_count
      /\ Len(a.payload.records) = a.declared_record_count
      /\ resolver_ipc_assembly_complete_check(a)
  BY DEF resolver_ipc_assembly_end_consume, Refused
<1>2. AssemblyTyped(q, a) /\ Chained(a.payload)
  BY ZenonT(40) DEF AssemblyOK, AssemblyTyped
<1>3. /\ b.query_type = a.query_type /\ b.expected_name = a.expected_name
      /\ b.payload = a.payload /\ b.status = a.status /\ b.dynamic_bytes = a.dynamic_bytes
  BY <1>1, <1>2, Zenon DEF AssemblyTyped
<1> HIDE DEF b
<1>4. /\ a.payload \in Result(QueryType[q]) /\ a.query_type = QueryType[q] /\ a.chain_ttl \in TTL
      /\ a.expected_name = dns_name_normalize(QueryName[q])
      /\ a.payload.cnames \in Seq(CnameRecord) /\ a.payload.records \in Seq(RecordOf(QueryType[q]))
  BY <1>2 DEF AssemblyTyped, Result
<1>5. /\ a.status \in 1 .. 10
      /\ (a.declared_record_count > 0) <=> (resolver_ipc_lookup_status_maps[a.status] = "OK")
      /\ a.payload.question_name \in {NoName, a.expected_name}
  BY DEF AssemblyOK
<1>6. (a.payload.records # <<>>) <=> (resolver_ipc_lookup_status_maps[a.status] = "OK")
  <2>1. (a.payload.records # <<>>) <=> Len(a.payload.records) > 0
    BY <1>4
  <2> QED BY <1>1, <1>5, <2>1, ZenonT(40)
<1>7. \/ resolver_ipc_lookup_status_maps[a.status] \in {"PERMANENT_ERROR", "TEMPORARY_ERROR"}
      \/ a.payload.canonical_name = Path(a.payload)[Len(a.payload.cnames) + 1]
  <2>1. CASE a.declared_cname_count > 0
    <3>1. a.payload.canonical_name = Last(a.payload.cnames).target
      BY <1>1, <2>1, Zenon DEF resolver_ipc_assembly_complete_check
    <3>2. Path(a.payload)[Len(a.payload.cnames) + 1] = Last(a.payload.cnames).target
      <4> DEFINE n == Len(a.payload.cnames)
      <4>1. n \in Nat /\ n > 0
        BY <1>1, <1>4, <2>1
      <4>2. Path(a.payload) = [i \in 1 .. n + 1 |-> IF i = 1 THEN a.payload.question_name
                                                   ELSE a.payload.cnames[i - 1].target]
        BY Zenon DEF Path
      <4> HIDE DEF n
      <4>3. n + 1 \in 1 .. n + 1 /\ n + 1 # 1 /\ (n + 1) - 1 = n
        BY <4>1
      <4> QED BY <4>2, <4>3, Zenon DEF Last, n
    <3> QED BY <3>1, <3>2, Zenon
  <2>2. CASE ~(a.declared_cname_count > 0)
    <3>1. Path(a.payload)[Len(a.payload.cnames) + 1] = a.payload.question_name
      BY <1>1, <1>4, <2>2 DEF Path
    <3>2. \/ resolver_ipc_lookup_status_maps[a.status] \in {"PERMANENT_ERROR", "TEMPORARY_ERROR"}
          \/ a.payload.canonical_name = a.payload.question_name
      BY <1>1, <2>2, Zenon DEF resolver_ipc_assembly_complete_check
    <3> QED BY <3>1, <3>2, Zenon
  <2> QED BY <2>1, <2>2, Zenon
<1>8. ASSUME NEW i \in DOMAIN a.payload.records, NEW j \in DOMAIN a.payload.cnames
      PROVE  a.payload.records[i].effective_ttl <= a.payload.cnames[j].ttl
  <2>1. a.chain_ttl <= a.payload.cnames[j].ttl /\ a.payload.records[i].effective_ttl <= a.chain_ttl
    BY Zenon DEF AssemblyOK
  <2>2. a.payload.cnames[j] \in CnameRecord /\ a.payload.records[i] \in RecordOf(QueryType[q])
    BY <1>4
  <2>3. a.payload.cnames[j].ttl \in Nat /\ a.payload.records[i].effective_ttl \in Nat /\ a.chain_ttl \in Nat
    <3>1. \A r \in RecordOf(QueryType[q]) : r.effective_ttl \in TTL
      BY DEF RecordOf, AddressRecord, SrvRecord
    <3>2. \A r \in CnameRecord : r.ttl \in TTL
      BY DEF CnameRecord
    <3>3. TTL \subseteq Nat
      BY DEF TTL
    <3> QED BY <1>4, <2>2, <3>1, <3>2, <3>3, Zenon
  <2> DEFINE x == a.payload.cnames[j].ttl y == a.payload.records[i].effective_ttl z == a.chain_ttl
  <2>4. x \in Nat /\ y \in Nat /\ z \in Nat /\ z <= x /\ y <= z
    BY <2>1, <2>3, Zenon
  <2> HIDE DEF x, y, z
  <2>5. y <= x
    BY <2>4
  <2> QED BY <2>5, Zenon DEF x, y
<1> QED
  <2>1. CompleteOK(q, b)
    BY <1>2, <1>3, <1>4, <1>5, <1>6, <1>7, <1>8, ZenonT(40) DEF CompleteOK
  <2> QED BY <1>3, <2>1, Zenon DEF b

\* The same of resolver_ipc_assembly_packet_consume, whatever the packet and
\* whether or not memory is to be had.
LEMMA PacketConsumed ==
    ASSUME NEW q \in Query, NEW a, AssemblyOK(q, a), NEW packet, NEW memory,
           owned_bytes \in Nat, owned_bytes <= RESOLVER_REPLY_ASSEMBLY_BYTE_LIMIT,
           NEW out, out = resolver_ipc_assembly_packet_consume(a, packet, memory)
    PROVE  /\ out.status = "OK" =>
                 /\ AssemblyOK(q, out.assembly)
                 /\ owned_bytes + out.assembly.dynamic_bytes - a.dynamic_bytes
                       <= RESOLVER_REPLY_ASSEMBLY_BYTE_LIMIT
           /\ out.status = "COMPLETE" =>
                 CompleteOK(q, out.assembly) /\ out.assembly.dynamic_bytes = a.dynamic_bytes
<1>1. \/ a.state = "BEGIN" /\ out = resolver_ipc_assembly_begin_consume(a, packet, memory)
      \/ a.state = "CNAME" /\ out = resolver_ipc_assembly_cname_consume(a, packet)
      \/ a.state = "RECORD" /\ a.query_type = "SRV" /\ out = resolver_ipc_assembly_record_srv_consume(a, packet)
      \/ a.state = "RECORD" /\ a.query_type # "SRV"
         /\ out = resolver_ipc_assembly_record_address_consume(a, packet)
      \/ a.state = "END" /\ out = resolver_ipc_assembly_end_consume(a, packet)
      \/ out = Refused(a, "PROTOCOL")
  BY ZenonT(40) DEF resolver_ipc_assembly_packet_consume
<1>2. /\ a.query_type = QueryType[q] /\ a.dynamic_bytes \in Nat
      /\ RESOLVER_REPLY_ASSEMBLY_BYTE_LIMIT \in Nat
  BY LookupAssumption, Zenon DEF AssemblyOK
<1>3. CASE a.state = "BEGIN" /\ out = resolver_ipc_assembly_begin_consume(a, packet, memory)
  <2>1. out.status # "COMPLETE"
    <3>1. resolver_ipc_assembly_arrays_allocate(a, packet, memory).status # "COMPLETE"
      BY SMTT(20) DEF resolver_ipc_assembly_arrays_allocate, Accepted, Refused
    <3> QED BY <1>3, <3>1 DEF resolver_ipc_assembly_begin_consume, Accepted, Refused
  <2>2. ASSUME out.status = "OK"
        PROVE  AssemblyOK(q, out.assembly)
               /\ owned_bytes + out.assembly.dynamic_bytes <= RESOLVER_REPLY_ASSEMBLY_BYTE_LIMIT
    BY <1>3, <2>2, BeginConsumed, ZenonT(40)
  <2>3. ASSUME out.status = "OK" PROVE out.assembly.dynamic_bytes \in Nat
    BY <2>2, <2>3, Zenon DEF AssemblyOK
  <2> QED BY <1>2, <2>1, <2>2, <2>3
<1>4. CASE a.state = "CNAME" /\ out = resolver_ipc_assembly_cname_consume(a, packet)
  <2>1. out.status # "COMPLETE"
    BY <1>4 DEF resolver_ipc_assembly_cname_consume, Accepted, Refused
  <2>2. ASSUME out.status = "OK"
        PROVE  AssemblyOK(q, out.assembly) /\ out.assembly.dynamic_bytes = a.dynamic_bytes
    BY <1>4, <2>2, CnameConsumed, ZenonT(40)
  <2> QED BY <1>2, <2>1, <2>2
<1>a. \A d : d = a.dynamic_bytes => owned_bytes + d - a.dynamic_bytes <= RESOLVER_REPLY_ASSEMBLY_BYTE_LIMIT
  <2> DEFINE n == a.dynamic_bytes
             most == RESOLVER_REPLY_ASSEMBLY_BYTE_LIMIT
  <2>1. n \in Nat /\ most \in Nat /\ owned_bytes <= most
    BY <1>2, Zenon
  <2> HIDE DEF n, most
  <2>2. owned_bytes + n - n <= most
    BY <2>1
  <2> QED BY <2>2, Zenon DEF n, most
<1>5. ASSUME NEW record \in RecordOf(QueryType[q]), a.state = "RECORD",
             record.effective_ttl = Lesser(record.record_ttl, a.chain_ttl),
             out = resolver_ipc_assembly_record_commit(a, record)
      PROVE  out.status = "OK" /\ AssemblyOK(q, out.assembly) /\ out.assembly.dynamic_bytes = a.dynamic_bytes
  <2> DEFINE o == resolver_ipc_assembly_record_commit(a, record)
  <2>1. o.status = "OK" /\ AssemblyOK(q, o.assembly) /\ o.assembly.dynamic_bytes = a.dynamic_bytes
    BY <1>5, RecordCommitted, SMT
  <2> HIDE DEF o
  <2>2. out = o
    BY <1>5, Zenon DEF o
  <2> QED BY <2>1, <2>2
<1>6. CASE a.state = "RECORD" /\ a.query_type = "SRV" /\ out = resolver_ipc_assembly_record_srv_consume(a, packet)
  <2>1. CASE out = Refused(a, "PROTOCOL")
    BY <2>1, SMTT(30) DEF Refused
  <2>2. CASE out # Refused(a, "PROTOCOL")
    <3>1. /\ resolver_ipc_response_srv_decode(packet)
          /\ packet.record.effective_ttl = Lesser(packet.record.record_ttl, a.chain_ttl)
          /\ out = resolver_ipc_assembly_record_commit(a, packet.record)
      BY <1>6, <2>2, ZenonT(40) DEF resolver_ipc_assembly_record_srv_consume
    <3>2. packet.record \in RecordOf(QueryType[q])
      BY <1>2, <1>6, <3>1, Zenon DEF resolver_ipc_response_srv_decode, resolver_ipc_response_srv_encode, RecordOf
    <3>3. out.status = "OK" /\ AssemblyOK(q, out.assembly) /\ out.assembly.dynamic_bytes = a.dynamic_bytes
      BY <1>5, <1>6, <3>1, <3>2, Zenon
    <3> QED BY <1>a, <3>3, Zenon
  <2> QED BY <2>1, <2>2
<1>7. CASE /\ a.state = "RECORD" /\ a.query_type # "SRV"
           /\ out = resolver_ipc_assembly_record_address_consume(a, packet)
  <2>1. CASE out = Refused(a, "PROTOCOL")
    BY <2>1 DEF Refused
  <2>2. CASE out # Refused(a, "PROTOCOL")
    <3>1. /\ resolver_ipc_response_address_decode(packet)
          /\ packet.record.effective_ttl = Lesser(packet.record.record_ttl, a.chain_ttl)
          /\ out = resolver_ipc_assembly_record_commit(a, packet.record)
      BY <1>7, <2>2, Zenon DEF resolver_ipc_assembly_record_address_consume
    <3>2. packet.record \in RecordOf(QueryType[q])
      BY <1>2, <1>7, <3>1, SMTT(30) DEF resolver_ipc_response_address_decode, resolver_ipc_response_address_encode, RecordOf
    <3>3. out.status = "OK" /\ AssemblyOK(q, out.assembly) /\ out.assembly.dynamic_bytes = a.dynamic_bytes
      BY <1>5, <1>7, <3>1, <3>2, Zenon
    <3> QED BY <1>a, <3>3, Zenon
  <2> QED BY <2>1, <2>2
<1>8. CASE a.state = "END" /\ out = resolver_ipc_assembly_end_consume(a, packet)
  <2>1. out.status # "OK"
    BY <1>8 DEF resolver_ipc_assembly_end_consume, Refused
  <2>2. ASSUME out.status = "COMPLETE"
        PROVE  CompleteOK(q, out.assembly) /\ out.assembly.dynamic_bytes = a.dynamic_bytes
    BY <1>8, <2>2, EndConsumed, ZenonT(40)
  <2> QED BY <2>1, <2>2
<1>9. CASE out = Refused(a, "PROTOCOL")
  BY <1>9 DEF Refused
<1> QED BY <1>1, <1>3, <1>4, <1>6, <1>7, <1>8, <1>9, Zenon

\* What CompleteIsSound says of one result.
Sound(q, status, payload) ==
    /\ payload.question_name = dns_name_normalize(QueryName[q])
    /\ \A i \in DOMAIN payload.cnames : payload.cnames[i].owner = Path(payload)[i]
    /\ IsInjective(Path(payload))
    /\ payload.canonical_name = Path(payload)[Len(payload.cnames) + 1]
    /\ (resolver_ipc_lookup_status_maps[status] = "OK") <=> (payload.records # <<>>)
    /\ \A i \in DOMAIN payload.records, j \in DOMAIN payload.cnames :
          payload.records[i].effective_ttl <= payload.cnames[j].ttl

\* resolver_supervisor_result_publish calls VALID only what CompleteIsSound asks.
LEMMA PublishedIsSound ==
    ASSUME NEW q \in Query, NEW a, CompleteOK(q, a), resolver_supervisor_result_publish(q, a) = "VALID"
    PROVE  Sound(q, a.status, a.payload)
<1> DEFINE status == resolver_ipc_lookup_status_maps[a.status]
<1>1. /\ status \in {"OK", "NODATA", "NOT_FOUND"}
      /\ \/ resolver_cache_srv_result_validate(a.expected_name, status, a.payload).valid
         \/ resolver_cache_address_result_validate(a.expected_name, status, a.payload).valid
  BY DEF resolver_supervisor_result_publish, resolver_ipc_lookup_status_to_srv, resolver_ipc_lookup_status_to_address
<1>2. ResultValidate(a.expected_name, status, a.payload).valid
  BY <1>1, Zenon DEF resolver_cache_srv_result_validate, resolver_cache_address_result_validate, Invalid
<1>3. a.payload.question_name # NoName
  BY <1>2, Zenon DEF ResultValidate, resolver_cache_question_matches, Invalid
<1>4. status \notin {"PERMANENT_ERROR", "TEMPORARY_ERROR"}
  BY <1>1
<1>5. a.payload.question_name = dns_name_normalize(QueryName[q])
  <2>1. a.payload.question_name \in {NoName, a.expected_name} /\ a.expected_name = dns_name_normalize(QueryName[q])
    BY Zenon DEF CompleteOK
  <2> QED BY <1>3, <2>1
<1>6. /\ Chained(a.payload)
      /\ (a.payload.records # <<>>) <=> (status = "OK")
      /\ \/ status \in {"PERMANENT_ERROR", "TEMPORARY_ERROR"}
         \/ a.payload.canonical_name = Path(a.payload)[Len(a.payload.cnames) + 1]
      /\ \A i \in DOMAIN a.payload.records, j \in DOMAIN a.payload.cnames :
            a.payload.records[i].effective_ttl <= a.payload.cnames[j].ttl
  BY ZenonT(40) DEF CompleteOK
<1> QED BY <1>4, <1>5, <1>6, Zenon DEF Sound, Chained

-----------------------------------------------------------------------------
(* The books *)

\* Types of what the budget is made of.
CountersTyped ==
    /\ metrics \in [create_ok : Nat, complete : Nat, limit : Nat, memory : Nat, protocol : Nat, abandoned : Nat]
    /\ owned_bytes \in Nat
    /\ assembly = [q \in Query |-> assembly[q]]
    /\ response = [q \in Query |-> response[q]]

\* A completion holds a result of its query; a VALID one is sound.
ResponseOK(q, r) ==
    /\ r \in [status : 1 .. 10, payload : Result(QueryType[q]), dynamic_bytes : Nat,
              publication : {"VALID", "INVALID", "LIMIT", "TIME"}]
    /\ r.publication = "VALID" => Sound(q, r.status, r.payload)

\* Every completion is so.
ResponsesOK == \A q \in Query : response[q] # NoResponse => ResponseOK(q, response[q])

\* The books: exact, given that everything charged is what it should be.
BudgetInv == CountersTyped /\ AssembliesOK /\ ResponsesOK /\ BudgetExact

\* The queries whose assembly exists.
Open == {q \in Query : assembly[q] # NoAssembly}

\* What an assembly is charged is a natural number.
LEMMA AssemblyCharged ==
    ASSUME NEW q \in Query, NEW a, a # NoAssembly => AssemblyOK(q, a)
    PROVE  AssemblyCharge(a) \in Nat
<1>1. ASSEMBLY_BYTES \in Nat
  BY LookupAssumption, Zenon
<1>2. CASE a = NoAssembly
  BY <1>2 DEF AssemblyCharge
<1>3. CASE a # NoAssembly
  <2>1. AssemblyCharge(a) = ASSEMBLY_BYTES + a.dynamic_bytes /\ a.dynamic_bytes \in Nat
    BY <1>3, Zenon DEF AssemblyCharge, AssemblyOK
  <2> DEFINE n == a.dynamic_bytes
             c == AssemblyCharge(a)
  <2> HIDE DEF n, c
  <2>2. c = ASSEMBLY_BYTES + n /\ n \in Nat
    BY <2>1, Zenon DEF n, c
  <2>3. c \in Nat
    BY <1>1, <2>2
  <2> QED BY <2>3, Zenon DEF c
<1> QED BY <1>2, <1>3, Zenon

\* What a completion is charged is a natural number.
LEMMA ResponseCharged ==
    ASSUME NEW q \in Query, NEW r, r # NoResponse => ResponseOK(q, r)
    PROVE  ResponseCharge(r) \in Nat
BY DEF ResponseOK, ResponseCharge

\* One query's charges change, the others stay: the sums follow.
LEMMA ChargesMove ==
    ASSUME CountersTyped, AssembliesOK, ResponsesOK,
           CountersTyped', AssembliesOK', ResponsesOK',
           NEW q \in Query,
           \A r \in Query \ {q} : assembly'[r] = assembly[r] /\ response'[r] = response[r]
    PROVE  /\ SumFunction(Assembling) \in Nat /\ SumFunction(Holding) \in Nat
           /\ Assembling[q] \in Nat /\ Holding[q] \in Nat
           /\ Assembling'[q] \in Nat /\ Holding'[q] \in Nat
           /\ Assembling[q] <= SumFunction(Assembling) /\ Holding[q] <= SumFunction(Holding)
           /\ SumFunction(Assembling') = SumFunction(Assembling) - Assembling[q] + Assembling'[q]
           /\ SumFunction(Holding') = SumFunction(Holding) - Holding[q] + Holding'[q]
<1>1. Assembling \in [Query -> Nat] /\ Holding \in [Query -> Nat]
  BY AssemblyCharged, ResponseCharged, Zenon DEF Assembling, Holding, AssembliesOK, ResponsesOK
<1>2. Assembling' \in [Query -> Nat] /\ Holding' \in [Query -> Nat]
  BY AssemblyCharged, ResponseCharged DEF Assembling, Holding, AssembliesOK, ResponsesOK
<1>3. \A r \in Query \ {q} : Assembling'[r] = Assembling[r] /\ Holding'[r] = Holding[r]
  BY DEF Assembling, Holding
<1>4. IsFiniteSet(Query)
  BY LookupAssumption
<1>5. /\ SumFunction(Assembling) \in Nat /\ Assembling[q] <= SumFunction(Assembling)
      /\ SumFunction(Assembling') = SumFunction(Assembling) - Assembling[q] + Assembling'[q]
  <2> DEFINE f == Assembling g == Assembling'
  <2>1. f \in [Query -> Nat] /\ g \in [Query -> Nat] /\ \A r \in Query \ {q} : g[r] = f[r]
    BY <1>1, <1>2, <1>3, Zenon
  <2> HIDE DEF f, g
  <2>2. SumFunction(f) \in Nat /\ f[q] <= SumFunction(f) /\ SumFunction(g) = SumFunction(f) - f[q] + g[q]
    BY <1>4, <2>1, SumChange, SMTT(30)
  <2> QED BY <2>2, ZenonT(40) DEF f, g
<1>6. /\ SumFunction(Holding) \in Nat /\ Holding[q] <= SumFunction(Holding)
      /\ SumFunction(Holding') = SumFunction(Holding) - Holding[q] + Holding'[q]
  <2> DEFINE f == Holding g == Holding'
  <2>1. f \in [Query -> Nat] /\ g \in [Query -> Nat] /\ \A r \in Query \ {q} : g[r] = f[r]
    BY <1>1, <1>2, <1>3, ZenonT(40)
  <2> HIDE DEF f, g
  <2>2. SumFunction(f) \in Nat /\ f[q] <= SumFunction(f) /\ SumFunction(g) = SumFunction(f) - f[q] + g[q]
    BY <1>4, <2>1, SumChange, SMT
  <2> QED BY <2>2, Zenon DEF f, g
<1> QED BY <1>1, <1>2, <1>5, <1>6, Zenon

\* A charge is a part of its sum.
LEMMA ChargesBelow ==
    ASSUME CountersTyped, AssembliesOK, ResponsesOK, NEW q \in Query
    PROVE  /\ SumFunction(Assembling) \in Nat /\ SumFunction(Holding) \in Nat
           /\ Assembling[q] \in Nat /\ Holding[q] \in Nat
           /\ Assembling[q] <= SumFunction(Assembling) /\ Holding[q] <= SumFunction(Holding)
<1>1. Assembling \in [Query -> Nat] /\ Holding \in [Query -> Nat]
  BY AssemblyCharged, ResponseCharged DEF Assembling, Holding, AssembliesOK, ResponsesOK
<1>2. \A f \in [Query -> Nat] : SumFunction(f) \in Nat /\ f[q] \in Nat /\ f[q] <= SumFunction(f)
  BY LookupAssumption, SumChange, ZenonT(40)
<1> QED BY <1>1, <1>2, ZenonT(40)

\* One assembly is opened, closed or neither.
LEMMA OpenCount ==
    ASSUME NEW q \in Query, \A r \in Query \ {q} : assembly'[r] = assembly[r]
    PROVE  /\ Cardinality(Open) \in Nat
           /\ assembly[q] = NoAssembly /\ assembly'[q] # NoAssembly => Cardinality(Open') = Cardinality(Open) + 1
           /\ assembly[q] # NoAssembly /\ assembly'[q] = NoAssembly => Cardinality(Open') = Cardinality(Open) - 1
           /\ (assembly[q] = NoAssembly <=> assembly'[q] = NoAssembly) => Cardinality(Open') = Cardinality(Open)
<1>1. IsFiniteSet(Open) /\ Cardinality(Open) \in Nat
  BY LookupAssumption, FS_Subset, FS_CardinalityType DEF Open
<1>2. CASE assembly[q] = NoAssembly /\ assembly'[q] # NoAssembly
  <2>1. Open' = Open \cup {q} /\ q \notin Open
    BY <1>2 DEF Open
  <2> QED BY <1>1, <1>2, <2>1, FS_AddElement, Zenon
<1>3. CASE assembly[q] # NoAssembly /\ assembly'[q] = NoAssembly
  <2>1. Open' = Open \ {q} /\ q \in Open
    BY <1>3, Zenon DEF Open
  <2> QED BY <1>1, <1>3, <2>1, FS_RemoveElement, Zenon
<1>4. CASE assembly[q] = NoAssembly <=> assembly'[q] = NoAssembly
  <2>1. Open' = Open
    BY <1>4 DEF Open
  <2> QED BY <1>1, <1>4, <2>1, SMTT(30)
<1> QED BY <1>1, <1>2, <1>3, <1>4, ZenonT(40)

\* The assemblies the metrics count as over.
Outcomes(m) == m.complete + m.limit + m.memory + m.protocol + m.abandoned

\* A step that moves one query's charges keeps the books exact when the counter
\* of owned bytes and the metrics move with them.
LEMMA BudgetFollows ==
    ASSUME BudgetInv, CountersTyped', AssembliesOK', ResponsesOK', NEW q \in Query,
           \A r \in Query \ {q} : assembly'[r] = assembly[r] /\ response'[r] = response[r],
           owned_bytes' = owned_bytes - Assembling[q] - Holding[q] + Assembling'[q] + Holding'[q],
           owned_bytes' <= RESOLVER_REPLY_ASSEMBLY_BYTE_LIMIT,
           Cardinality(Open') - Cardinality(Open)
             = (metrics'.create_ok - Outcomes(metrics')) - (metrics.create_ok - Outcomes(metrics))
    PROVE  BudgetInv'
<1>1. /\ CountersTyped /\ AssembliesOK /\ ResponsesOK
      /\ owned_bytes = BUDGET_BYTES + SumFunction(Assembling) + SumFunction(Holding)
      /\ metrics.create_ok = Cardinality(Open) + metrics.complete + metrics.limit + metrics.memory
                                 + metrics.protocol + metrics.abandoned
  BY Zenon DEF BudgetInv, BudgetExact, Open
<1>2. BUDGET_BYTES \in Nat
  BY LookupAssumption
<1>3. owned_bytes' = BUDGET_BYTES + SumFunction(Assembling') + SumFunction(Holding')
  <2> DEFINE x == SumFunction(Assembling) y == SumFunction(Holding) z == SumFunction(Assembling')
             w == SumFunction(Holding') a == Assembling[q] b == Holding[q] c == Assembling'[q] d == Holding'[q]
  <2>1. /\ x \in Nat /\ y \in Nat /\ a \in Nat /\ b \in Nat /\ c \in Nat /\ d \in Nat
        /\ z = x - a + c /\ w = y - b + d
    BY <1>1, ChargesMove, Zenon
  <2>2. owned_bytes' = owned_bytes - a - b + c + d /\ owned_bytes = BUDGET_BYTES + x + y
    BY <1>1, ZenonT(40)
  <2> HIDE DEF x, y, z, w, a, b, c, d
  <2>3. owned_bytes' = BUDGET_BYTES + z + w
    BY <1>2, <2>1, <2>2, SMTT(30)
  <2> QED BY <2>3, Zenon DEF z, w
<1>4. metrics'.create_ok = Cardinality(Open') + metrics'.complete + metrics'.limit + metrics'.memory
                                 + metrics'.protocol + metrics'.abandoned
  <2>1. Cardinality(Open) \in Nat /\ Cardinality(Open') \in Nat
    <3>1. IsFiniteSet(Query) /\ Open \subseteq Query /\ Open' \subseteq Query
      BY LookupAssumption DEF Open
    <3> QED BY <3>1, FS_Subset, FS_CardinalityType, SMTT(30)
  <2>2. metrics \in [create_ok : Nat, complete : Nat, limit : Nat, memory : Nat, protocol : Nat, abandoned : Nat]
    BY <1>1, Zenon DEF CountersTyped
  <2>3. metrics' \in [create_ok : Nat, complete : Nat, limit : Nat, memory : Nat, protocol : Nat, abandoned : Nat]
    BY ZenonT(40) DEF CountersTyped
  <2> QED BY <1>1, <2>1, <2>2, <2>3, SMTT(30) DEF Outcomes
<1> QED BY <1>3, <1>4, Zenon DEF BudgetInv, BudgetExact, Open

-----------------------------------------------------------------------------
(* The steps *)

\* The helpers and the wires are not in the books.
LEMMA QuietKeeps ==
    ASSUME BudgetInv, UNCHANGED <<assembly, response, owned_bytes, metrics>>
    PROVE  BudgetInv'
BY Zenon DEF BudgetInv, CountersTyped, AssembliesOK, ResponsesOK, BudgetExact, Assembling, Holding

\* A result without anything in it is well formed.
LEMMA EmptyTyped ==
    ASSUME NEW q \in Query
    PROVE  EmptyResult \in Result(QueryType[q]) /\ EmptyResult.cnames = <<>> /\ EmptyResult.records = <<>>
<1>1. NoNegative \in Negative /\ "noerror" \in Rcode
  BY LimitsAssumption DEF Negative, NoNegative, TTL, Rcode
<1>2. EmptyResult \in Result(QueryType[q])
  BY <1>1, ResultFormed, Zenon DEF EmptyResult
<1> QED BY <1>2, Zenon DEF EmptyResult

\* The assembly that resolver_ipc_assembly_create opens, with nothing in it, is
\* sound.
LEMMA OpenedSound ==
    ASSUME NEW q \in Query, NEW name, name = dns_name_normalize(QueryName[q]), NEW ttl \in TTL,
           NEW empty \in Result(QueryType[q]), empty.cnames = <<>>, empty.records = <<>>, Chained(empty)
    PROVE  AssemblyOK(q, [state |-> "BEGIN", query_id |-> q, query_type |-> QueryType[q],
                          expected_name |-> name,
                          declared_cname_count |-> 0, declared_record_count |-> 0, status |-> 0,
                          payload |-> empty, chain_ttl |-> ttl, dynamic_bytes |-> 0])
<1> DEFINE new == [state |-> "BEGIN", query_id |-> q, query_type |-> QueryType[q],
                   expected_name |-> name,
                   declared_cname_count |-> 0, declared_record_count |-> 0, status |-> 0,
                   payload |-> empty, chain_ttl |-> ttl, dynamic_bytes |-> 0]
<1>1. 0 \in Nat /\ 0 \in 0 .. 10
  OBVIOUS
<1>2. AssemblyTyped(q, new)
  BY <1>1, Zenon DEF AssemblyTyped
<1>3. new.state = "BEGIN" /\ new.payload = empty
  BY Zenon
<1> HIDE DEF new
<1>4. (\A i \in DOMAIN empty.cnames : FALSE) /\ (\A i \in DOMAIN empty.records : FALSE)
  OBVIOUS
<1>5. "BEGIN" # "CNAME"
  OBVIOUS
<1>6. AssemblyOK(q, new)
  BY <1>2, <1>3, <1>4, <1>5, Zenon DEF AssemblyOK, AssemblyTyped
<1> QED BY <1>6 DEF new

\* resolver_ipc_assembly_create charges the assembly's shell.
LEMMA CreateKeeps ==
    ASSUME BudgetInv, NEW q \in Query, assembly[q] = NoAssembly,
           owned_bytes <= RESOLVER_REPLY_ASSEMBLY_BYTE_LIMIT - ASSEMBLY_BYTES,
           resolver_ipc_assembly_create(q), response' = response
    PROVE  BudgetInv'
<1> DEFINE new == [state |-> "BEGIN", query_id |-> q, query_type |-> QueryType[q],
                   expected_name |-> dns_name_normalize(QueryName[q]),
                   declared_cname_count |-> 0, declared_record_count |-> 0, status |-> 0,
                   payload |-> EmptyResult, chain_ttl |-> UINT32_MAX, dynamic_bytes |-> 0]
<1>1. /\ assembly[q] = NoAssembly
      /\ owned_bytes <= RESOLVER_REPLY_ASSEMBLY_BYTE_LIMIT - ASSEMBLY_BYTES
      /\ assembly' = [assembly EXCEPT ![q] = new]
      /\ owned_bytes' = owned_bytes + ASSEMBLY_BYTES
      /\ metrics' = [metrics EXCEPT !.create_ok = @ + 1]
      /\ response' = response
  BY Zenon DEF resolver_ipc_assembly_create
<1>2. CountersTyped /\ AssembliesOK /\ ResponsesOK /\ BudgetExact
  BY Zenon DEF BudgetInv
<1>3. EmptyResult \in Result(QueryType[q]) /\ EmptyResult.cnames = <<>> /\ EmptyResult.records = <<>>
  BY EmptyTyped, Zenon
<1>4. AssemblyOK(q, new) /\ new # NoAssembly /\ new.dynamic_bytes = 0
  <2>1. Chained(EmptyResult) /\ UINT32_MAX \in TTL
    BY <1>3, LimitsAssumption DEF Chained, IsInjective, Path, TTL
  <2>2. AssemblyOK(q, new)
    BY <1>3, <2>1, OpenedSound, Zenon
  <2>3. new.state = "BEGIN" /\ new.dynamic_bytes = 0 /\ NoAssembly.state = "NONE"
    BY Zenon DEF NoAssembly
  <2> HIDE DEF new
  <2> QED BY <2>2, <2>3, Zenon
<1> HIDE DEF new
<1>5. /\ assembly'[q] = new /\ \A r \in Query \ {q} : assembly'[r] = assembly[r]
      /\ assembly' = [r \in Query |-> assembly'[r]]
  BY <1>1, <1>2, Zenon DEF CountersTyped
<1>6. owned_bytes \in Nat /\ ASSEMBLY_BYTES \in Nat /\ RESOLVER_REPLY_ASSEMBLY_BYTE_LIMIT \in Nat
  BY <1>2, LookupAssumption, Zenon DEF CountersTyped
<1>7. CountersTyped'
  BY <1>1, <1>2, <1>5, <1>6 DEF CountersTyped
<1>8. AssembliesOK' /\ ResponsesOK'
  BY <1>1, <1>2, <1>4, <1>5, Zenon DEF AssembliesOK, ResponsesOK
<1>9. Assembling[q] = 0 /\ Assembling'[q] = ASSEMBLY_BYTES /\ Holding'[q] = Holding[q] /\ Holding[q] \in Nat
  BY <1>1, <1>2, <1>4, <1>5, <1>6, ResponseCharged DEF Assembling, Holding, AssemblyCharge, ResponsesOK
<1>10. Cardinality(Open') = Cardinality(Open) + 1 /\ Cardinality(Open) \in Nat
  BY <1>1, <1>4, <1>5, OpenCount, Zenon
<1>11. (metrics'.create_ok - Outcomes(metrics')) - (metrics.create_ok - Outcomes(metrics)) = 1
  <2>1. metrics \in [create_ok : Nat, complete : Nat, limit : Nat, memory : Nat, protocol : Nat, abandoned : Nat]
    BY <1>2, Zenon DEF CountersTyped
  <2> QED BY <1>1, <2>1 DEF Outcomes
<1>12. owned_bytes' = owned_bytes - Assembling[q] - Holding[q] + Assembling'[q] + Holding'[q]
  BY <1>1, <1>6, <1>9
<1>13. owned_bytes' <= RESOLVER_REPLY_ASSEMBLY_BYTE_LIMIT
  BY <1>1, <1>6
<1>14. Cardinality(Open') - Cardinality(Open)
             = (metrics'.create_ok - Outcomes(metrics')) - (metrics.create_ok - Outcomes(metrics))
  BY <1>10, <1>11
<1>15. \A r \in Query \ {q} : assembly'[r] = assembly[r] /\ response'[r] = response[r]
  BY <1>1, <1>5, ZenonT(40)
<1> QED BY <1>7, <1>8, <1>12, <1>13, <1>14, <1>15, BudgetFollows, SMTT(30)

\* resolver_ipc_assembly_destroy takes back shell and arrays, whatever the cause;
\* a completion made in the same step is charged nothing.
LEMMA DestroyMoves ==
    ASSUME BudgetInv, NEW q \in Query, assembly[q] # NoAssembly,
           NEW counter \in {"limit", "memory", "protocol", "abandoned"},
           resolver_ipc_assembly_destroy(q, counter), ResponsesOK',
           response' = [r \in Query |-> response'[r]],
           \A r \in Query \ {q} : response'[r] = response[r], Holding'[q] = Holding[q]
    PROVE  BudgetInv'
<1>1. /\ owned_bytes' = Uncharge(assembly[q].dynamic_bytes + ASSEMBLY_BYTES)
      /\ assembly' = [assembly EXCEPT ![q] = NoAssembly]
      /\ metrics' = [metrics EXCEPT ![counter] = @ + 1]
  BY Zenon DEF resolver_ipc_assembly_destroy
<1>2. CountersTyped /\ AssembliesOK /\ ResponsesOK /\ BudgetExact
  BY Zenon DEF BudgetInv
<1>3. /\ assembly'[q] = NoAssembly /\ \A r \in Query \ {q} : assembly'[r] = assembly[r]
      /\ assembly' = [r \in Query |-> assembly'[r]]
  BY <1>1, <1>2, Zenon DEF CountersTyped
<1>4. \A r \in Query \ {q} : assembly'[r] = assembly[r] /\ response'[r] = response[r]
  BY <1>3, Zenon
<1>5. AssembliesOK'
  BY <1>2, <1>3, Zenon DEF AssembliesOK
<1>6. /\ metrics' \in [create_ok : Nat, complete : Nat, limit : Nat, memory : Nat, protocol : Nat, abandoned : Nat]
      /\ (metrics'.create_ok - Outcomes(metrics')) - (metrics.create_ok - Outcomes(metrics)) = -1
  <2>1. metrics \in [create_ok : Nat, complete : Nat, limit : Nat, memory : Nat, protocol : Nat, abandoned : Nat]
    BY <1>2, Zenon DEF CountersTyped
  <2>2. CASE counter = "limit"
    BY <1>1, <2>1, <2>2 DEF Outcomes
  <2>3. CASE counter = "memory"
    BY <1>1, <2>1, <2>3, SMTT(30) DEF Outcomes
  <2>4. CASE counter = "protocol"
    BY <1>1, <2>1, <2>4 DEF Outcomes
  <2>5. CASE counter = "abandoned"
    BY <1>1, <2>1, <2>5, SMTT(30) DEF Outcomes
  <2> QED BY <2>2, <2>3, <2>4, <2>5, Zenon
<1>7. /\ Assembling[q] = assembly[q].dynamic_bytes + ASSEMBLY_BYTES /\ Assembling'[q] = 0
      /\ Holding'[q] = Holding[q] /\ Holding[q] \in Nat /\ Assembling[q] \in Nat
      /\ owned_bytes \in Nat /\ owned_bytes >= Assembling[q]
  <2>1. Assembling[q] <= SumFunction(Assembling) /\ SumFunction(Assembling) \in Nat /\ SumFunction(Holding) \in Nat
    BY <1>2, ChargesBelow, Zenon
  <2>2. assembly[q].dynamic_bytes \in Nat /\ ASSEMBLY_BYTES \in Nat /\ BUDGET_BYTES \in Nat
    BY <1>2, LookupAssumption, Zenon DEF AssembliesOK, AssemblyOK
  <2>3. /\ Assembling[q] = assembly[q].dynamic_bytes + ASSEMBLY_BYTES /\ Assembling'[q] = 0
        /\ Holding[q] \in Nat
    BY <1>2, <1>3, <2>2, ResponseCharged DEF Assembling, Holding, AssemblyCharge, ResponsesOK
  <2>4. owned_bytes = BUDGET_BYTES + SumFunction(Assembling) + SumFunction(Holding)
    BY <1>2, ZenonT(40) DEF BudgetExact
  <2> QED BY <2>1, <2>2, <2>3, <2>4, SMTT(30)
<1>8. owned_bytes' = owned_bytes - Assembling[q] /\ owned_bytes' \in Nat
  BY <1>1, <1>7 DEF Uncharge
<1>9. CountersTyped'
  BY <1>2, <1>3, <1>6, <1>8, Zenon DEF CountersTyped
<1>10. owned_bytes' = owned_bytes - Assembling[q] - Holding[q] + Assembling'[q] + Holding'[q]
  BY <1>7, <1>8, SMTT(30)
<1>11. owned_bytes' <= RESOLVER_REPLY_ASSEMBLY_BYTE_LIMIT
  BY <1>2, <1>7, <1>8, LookupAssumption, SMTT(30) DEF BudgetExact
<1>12. Cardinality(Open') - Cardinality(Open)
             = (metrics'.create_ok - Outcomes(metrics')) - (metrics.create_ok - Outcomes(metrics))
  <2>1. Cardinality(Open') = Cardinality(Open) - 1 /\ Cardinality(Open) \in Nat
    BY <1>3, OpenCount, Zenon
  <2> QED BY <1>6, <2>1, SMTT(30)
<1> QED BY <1>4, <1>5, <1>9, <1>10, <1>11, <1>12, BudgetFollows, ZenonT(40)

\* The same when no completion is made.
LEMMA DestroyKeeps ==
    ASSUME BudgetInv, NEW q \in Query, assembly[q] # NoAssembly,
           NEW counter \in {"limit", "memory", "protocol", "abandoned"},
           resolver_ipc_assembly_destroy(q, counter), response' = response
    PROVE  BudgetInv'
<1>1. ResponsesOK /\ CountersTyped
  BY Zenon DEF BudgetInv
<1>2. ResponsesOK' /\ response' = [r \in Query |-> response'[r]] /\ Holding'[q] = Holding[q]
  BY <1>1, Zenon DEF ResponsesOK, CountersTyped, Holding
<1> QED BY <1>2, DestroyMoves, ZenonT(40)

\* The completion of a job that could not be sent is well formed and free.
LEMMA UnsentOK ==
    ASSUME BudgetInv, NEW q \in Query, response[q] = NoResponse,
           NEW status \in {"LIMIT", "PERMANENT_ERROR"}, NEW publication \in {"LIMIT", "TIME"},
           Unsent(q, status, publication)
    PROVE  /\ ResponsesOK' /\ response' = [r \in Query |-> response'[r]]
           /\ \A r \in Query \ {q} : response'[r] = response[r]
           /\ Holding'[q] = Holding[q] /\ Holding[q] = 0
<1> DEFINE code == resolver_ipc_lookup_status_from_address(status)
           given == [status |-> code, payload |-> EmptyResult, dynamic_bytes |-> 0, publication |-> publication]
<1>1. CountersTyped /\ ResponsesOK
  BY Zenon DEF BudgetInv
<1>2. code \in 1 .. 10
  <2>1. \E c \in 1 .. 10 : resolver_ipc_lookup_status_maps[c] = status
    BY DEF resolver_ipc_lookup_status_maps
  <2>2. DOMAIN resolver_ipc_lookup_status_maps = 1 .. 10
    BY DEF resolver_ipc_lookup_status_maps
  <2> QED BY <2>1, <2>2, Zenon DEF resolver_ipc_lookup_status_from_address
<1>3. response' = [response EXCEPT ![q] = given]
  BY Zenon DEF Unsent
<1> HIDE DEF code
<1>4. ResponseOK(q, given) /\ given # NoResponse /\ given.dynamic_bytes = 0
  <2>1. given \in [status : 1 .. 10, payload : Result(QueryType[q]), dynamic_bytes : Nat,
                   publication : {"VALID", "INVALID", "LIMIT", "TIME"}]
    BY <1>2, EmptyTyped, SMTT(30)
  <2>2. given.publication # "VALID" /\ given.status # 0
    BY <1>2
  <2> QED BY <2>1, <2>2, Zenon DEF ResponseOK, NoResponse
<1> HIDE DEF given
<1>5. /\ response'[q] = given /\ \A r \in Query \ {q} : response'[r] = response[r]
      /\ response' = [r \in Query |-> response'[r]]
  BY <1>1, <1>3 DEF CountersTyped
<1>6. ResponsesOK'
  <2> SUFFICES ASSUME NEW r \in Query, response'[r] # NoResponse PROVE ResponseOK(r, response'[r])
    BY Zenon DEF ResponsesOK
  <2>1. CASE r = q
    BY <1>4, <1>5, <2>1, Zenon
  <2>2. CASE r # q
    BY <1>1, <1>5, <2>2, Zenon DEF ResponsesOK
  <2> QED BY <2>1, <2>2, Zenon
<1>7. Holding'[q] = 0 /\ Holding[q] = 0
  BY <1>4, <1>5, Zenon DEF Holding, ResponseCharge
<1> QED BY <1>5, <1>6, <1>7, Zenon

\* The assembly of a request that does not go out leaves no charge behind.
LEMMA RefusalKeeps ==
    ASSUME BudgetInv, NEW q \in Query, ResponsesOK', response' = [r \in Query |-> response'[r]],
           \A r \in Query \ {q} : response'[r] = response[r], Holding'[q] = Holding[q],
           metrics' = [metrics EXCEPT !.create_ok = @ + 1, !.abandoned = @ + 1],
           UNCHANGED <<assembly, owned_bytes>>
    PROVE  BudgetInv'
<1>1. CountersTyped /\ AssembliesOK /\ ResponsesOK /\ BudgetExact
  BY Zenon DEF BudgetInv
<1>2. metrics \in [create_ok : Nat, complete : Nat, limit : Nat, memory : Nat, protocol : Nat, abandoned : Nat]
  BY <1>1, Zenon DEF CountersTyped
<1>3. /\ metrics' \in [create_ok : Nat, complete : Nat, limit : Nat, memory : Nat, protocol : Nat, abandoned : Nat]
      /\ (metrics'.create_ok - Outcomes(metrics')) - (metrics.create_ok - Outcomes(metrics)) = 0
  <2> DEFINE opened == [metrics EXCEPT !.create_ok = @ + 1]
             closed == [opened EXCEPT !.abandoned = @ + 1]
  <2>1. metrics' = closed
    OBVIOUS
  <2>2. /\ opened \in [create_ok : Nat, complete : Nat, limit : Nat, memory : Nat, protocol : Nat, abandoned : Nat]
        /\ opened.create_ok - Outcomes(opened) = metrics.create_ok - Outcomes(metrics) + 1
    BY <1>2 DEF Outcomes
  <2> HIDE DEF opened
  <2>3. /\ closed \in [create_ok : Nat, complete : Nat, limit : Nat, memory : Nat, protocol : Nat, abandoned : Nat]
        /\ closed.create_ok - Outcomes(closed) = opened.create_ok - Outcomes(opened) - 1
    BY <2>2 DEF Outcomes
  <2>4. metrics.create_ok - Outcomes(metrics) \in Int
    BY <1>2 DEF Outcomes
  <2> DEFINE x == metrics.create_ok - Outcomes(metrics)
             y == metrics'.create_ok - Outcomes(metrics')
             z == opened.create_ok - Outcomes(opened)
  <2>5. x \in Int /\ z = x + 1 /\ y = z - 1
    <3>1. y = closed.create_ok - Outcomes(closed)
      BY <2>1, Zenon
    <3> QED BY <2>2, <2>3, <2>4, <3>1, Zenon
  <2> HIDE DEF x, y, z
  <2>6. y - x = 0
    BY <2>5
  <2> QED BY <2>1, <2>3, <2>6, Zenon DEF x, y
<1>4. CountersTyped' /\ AssembliesOK'
  BY <1>1, <1>3, Zenon DEF CountersTyped, AssembliesOK
<1>5. Assembling'[q] = Assembling[q] /\ Assembling[q] \in Nat /\ Holding[q] \in Nat /\ owned_bytes \in Nat
  BY <1>1, ChargesBelow, Zenon DEF Assembling, CountersTyped
<1>6. owned_bytes' = owned_bytes - Assembling[q] - Holding[q] + Assembling'[q] + Holding'[q]
  BY <1>5, SMTT(30)
<1>7. owned_bytes' <= RESOLVER_REPLY_ASSEMBLY_BYTE_LIMIT
  BY <1>1, Zenon DEF BudgetExact
<1>8. Cardinality(Open') - Cardinality(Open)
             = (metrics'.create_ok - Outcomes(metrics')) - (metrics.create_ok - Outcomes(metrics))
  <2>1. Open' = Open /\ Cardinality(Open) \in Nat
    BY OpenCount, Zenon DEF Open
  <2> QED BY <1>3, <2>1, SMTT(30)
<1>9. \A r \in Query \ {q} : assembly'[r] = assembly[r] /\ response'[r] = response[r]
  OBVIOUS
<1> QED BY <1>4, <1>6, <1>7, <1>8, <1>9, BudgetFollows, ZenonT(40)

\* resolver_supervisor_completion_destroy takes back the arrays given away.
LEMMA CompletionKeeps ==
    ASSUME BudgetInv, NEW q \in Query, resolver_supervisor_completion_destroy(q)
    PROVE  BudgetInv'
<1>1. /\ response[q] # NoResponse
      /\ owned_bytes' = Uncharge(response[q].dynamic_bytes)
      /\ response' = [response EXCEPT ![q] = NoResponse]
      /\ assembly' = assembly /\ metrics' = metrics
  BY Zenon DEF resolver_supervisor_completion_destroy
<1>2. CountersTyped /\ AssembliesOK /\ ResponsesOK /\ BudgetExact
  BY Zenon DEF BudgetInv
<1>3. /\ response'[q] = NoResponse /\ \A r \in Query \ {q} : response'[r] = response[r]
      /\ response' = [r \in Query |-> response'[r]]
  BY <1>1, <1>2 DEF CountersTyped
<1>4. \A r \in Query \ {q} : assembly'[r] = assembly[r] /\ response'[r] = response[r]
  BY <1>1, <1>3, Zenon
<1>5. AssembliesOK' /\ ResponsesOK'
  BY <1>1, <1>2, <1>3, ZenonT(40) DEF AssembliesOK, ResponsesOK
<1>6. /\ Holding[q] = response[q].dynamic_bytes /\ Holding'[q] = 0
      /\ Assembling'[q] = Assembling[q] /\ Assembling[q] \in Nat /\ Holding[q] \in Nat
      /\ owned_bytes \in Nat /\ owned_bytes >= Holding[q]
  <2>1. /\ Holding[q] <= SumFunction(Holding) /\ SumFunction(Assembling) \in Nat /\ SumFunction(Holding) \in Nat
        /\ Assembling[q] \in Nat /\ Holding[q] \in Nat
    BY <1>2, ChargesBelow, Zenon
  <2>2. BUDGET_BYTES \in Nat
    BY LookupAssumption, Zenon
  <2>3. /\ Holding[q] = response[q].dynamic_bytes /\ Holding'[q] = 0 /\ Assembling'[q] = Assembling[q]
    BY <1>1, <1>3 DEF Assembling, Holding, ResponseCharge
  <2>4. owned_bytes = BUDGET_BYTES + SumFunction(Assembling) + SumFunction(Holding)
    BY <1>2, ZenonT(40) DEF BudgetExact
  <2> QED BY <2>1, <2>2, <2>3, <2>4, SMTT(30)
<1>7. owned_bytes' = owned_bytes - Holding[q] /\ owned_bytes' \in Nat
  BY <1>1, <1>6 DEF Uncharge
<1>8. CountersTyped'
  BY <1>1, <1>2, <1>3, <1>7, ZenonT(40) DEF CountersTyped
<1>9. owned_bytes' = owned_bytes - Assembling[q] - Holding[q] + Assembling'[q] + Holding'[q]
  BY <1>6, <1>7, SMTT(30)
<1>10. owned_bytes' <= RESOLVER_REPLY_ASSEMBLY_BYTE_LIMIT
  BY <1>2, <1>6, <1>7, LookupAssumption, SMTT(30) DEF BudgetExact
<1>11. Cardinality(Open') - Cardinality(Open)
             = (metrics'.create_ok - Outcomes(metrics')) - (metrics.create_ok - Outcomes(metrics))
  <2>1. Open' = Open /\ Cardinality(Open) \in Nat
    BY <1>1, OpenCount, Zenon DEF Open
  <2>2. metrics.create_ok - Outcomes(metrics) \in Int
    <3>1. metrics \in [create_ok : Nat, complete : Nat, limit : Nat, memory : Nat, protocol : Nat, abandoned : Nat]
      BY <1>2, Zenon DEF CountersTyped
    <3> QED BY <3>1, SMTT(30) DEF Outcomes
  <2> QED BY <1>1, <2>1, <2>2, SMTT(30)
<1> QED BY <1>4, <1>5, <1>8, <1>9, <1>10, <1>11, BudgetFollows, Zenon

\* A packet that is accepted charges the arrays it allocated.
LEMMA ConsumeKeeps ==
    ASSUME BudgetInv, NEW q \in Query, assembly[q] # NoAssembly, NEW b, AssemblyOK(q, b),
           assembly' = [assembly EXCEPT ![q] = b],
           owned_bytes' = owned_bytes + b.dynamic_bytes - assembly[q].dynamic_bytes,
           owned_bytes' <= RESOLVER_REPLY_ASSEMBLY_BYTE_LIMIT,
           response' = response, metrics' = metrics
    PROVE  BudgetInv'
<1>2. CountersTyped /\ AssembliesOK /\ ResponsesOK /\ BudgetExact
  BY Zenon DEF BudgetInv
<1>3. /\ assembly'[q] = b /\ \A r \in Query \ {q} : assembly'[r] = assembly[r]
      /\ assembly' = [r \in Query |-> assembly'[r]]
  BY <1>2 DEF CountersTyped
<1>4. \A r \in Query \ {q} : assembly'[r] = assembly[r] /\ response'[r] = response[r]
  BY <1>3, Zenon
<1>5. AssembliesOK' /\ ResponsesOK'
  BY <1>2, <1>3, Zenon DEF AssembliesOK, ResponsesOK
<1>6. b # NoAssembly
  <2>1. b.state \in {"BEGIN", "CNAME", "RECORD", "END"} /\ NoAssembly.state = "NONE"
    BY Zenon DEF AssemblyOK, NoAssembly
  <2> QED BY <2>1, Zenon
<1>7. /\ Assembling[q] = assembly[q].dynamic_bytes + ASSEMBLY_BYTES
      /\ Assembling'[q] = b.dynamic_bytes + ASSEMBLY_BYTES
      /\ Holding'[q] = Holding[q] /\ Holding[q] \in Nat
      /\ assembly[q].dynamic_bytes \in Nat /\ b.dynamic_bytes \in Nat /\ ASSEMBLY_BYTES \in Nat
      /\ owned_bytes \in Nat /\ owned_bytes >= Assembling[q]
  <2>1. /\ Assembling[q] <= SumFunction(Assembling) /\ SumFunction(Assembling) \in Nat /\ SumFunction(Holding) \in Nat
        /\ Holding[q] \in Nat
    BY <1>2, ChargesBelow, SMTT(30)
  <2>2. assembly[q].dynamic_bytes \in Nat /\ b.dynamic_bytes \in Nat /\ ASSEMBLY_BYTES \in Nat /\ BUDGET_BYTES \in Nat
    BY <1>2, LookupAssumption, ZenonT(40) DEF AssembliesOK, AssemblyOK
  <2>3. /\ Assembling[q] = assembly[q].dynamic_bytes + ASSEMBLY_BYTES
        /\ Assembling'[q] = b.dynamic_bytes + ASSEMBLY_BYTES /\ Holding'[q] = Holding[q]
    BY <1>3, <1>6, <2>2, SMTT(30) DEF Assembling, Holding, AssemblyCharge
  <2>4. owned_bytes = BUDGET_BYTES + SumFunction(Assembling) + SumFunction(Holding)
    BY <1>2, ZenonT(40) DEF BudgetExact
  <2> QED BY <2>1, <2>2, <2>3, <2>4, SMTT(30)
<1>8. CountersTyped'
  <2>1. owned_bytes' \in Nat
    <3> DEFINE n == assembly[q].dynamic_bytes
               m == b.dynamic_bytes
    <3>1. /\ owned_bytes' = owned_bytes + m - n /\ n \in Nat /\ m \in Nat /\ owned_bytes \in Nat
          /\ ASSEMBLY_BYTES \in Nat /\ owned_bytes >= n + ASSEMBLY_BYTES
      BY <1>7, Zenon
    <3> HIDE DEF n, m
    <3> QED BY <3>1
  <2> QED BY <1>2, <1>3, <2>1, ZenonT(40) DEF CountersTyped
<1>9. owned_bytes' = owned_bytes - Assembling[q] - Holding[q] + Assembling'[q] + Holding'[q]
  BY <1>7
<1>11. Cardinality(Open') - Cardinality(Open)
             = (metrics'.create_ok - Outcomes(metrics')) - (metrics.create_ok - Outcomes(metrics))
  <2>1. Open' = Open /\ Cardinality(Open) \in Nat
    BY <1>3, <1>6, OpenCount, Zenon DEF Open
  <2>2. metrics.create_ok - Outcomes(metrics) \in Int
    <3>1. metrics \in [create_ok : Nat, complete : Nat, limit : Nat, memory : Nat, protocol : Nat, abandoned : Nat]
      BY <1>2, Zenon DEF CountersTyped
    <3> QED BY <3>1 DEF Outcomes
  <2> QED BY <2>1, <2>2
<1> QED BY <1>4, <1>5, <1>8, <1>9, <1>11, BudgetFollows, Zenon

\* resolver_supervisor_helper_result_finish moves the arrays' charge from the
\* assembly to the completion, or drops it with a result nobody gets.
LEMMA FinishKeeps ==
    ASSUME BudgetInv, NEW q \in Query, assembly[q] # NoAssembly, response[q] = NoResponse, NEW a, CompleteOK(q, a),
           a.dynamic_bytes = assembly[q].dynamic_bytes,
           resolver_supervisor_helper_result_finish(q, a)
    PROVE  BudgetInv'
<1> DEFINE given == [status |-> a.status, payload |-> a.payload, dynamic_bytes |-> a.dynamic_bytes,
                     publication |-> resolver_supervisor_result_publish(q, a)]
<1>1. PICK dropped \in BOOLEAN :
         /\ assembly' = [assembly EXCEPT ![q] = NoAssembly]
         /\ metrics' = [metrics EXCEPT !.complete = @ + 1]
         /\ IF dropped
            THEN owned_bytes' = Uncharge(ASSEMBLY_BYTES + a.dynamic_bytes) /\ response' = response
            ELSE owned_bytes' = Uncharge(ASSEMBLY_BYTES) /\ response' = [response EXCEPT ![q] = given]
  <2>1. /\ assembly' = [assembly EXCEPT ![q] = NoAssembly]
        /\ metrics' = [metrics EXCEPT !.complete = @ + 1]
        /\ \/ owned_bytes' = Uncharge(ASSEMBLY_BYTES + a.dynamic_bytes) /\ response' = response
           \/ owned_bytes' = Uncharge(ASSEMBLY_BYTES) /\ response' = [response EXCEPT ![q] = given]
    BY Zenon DEF resolver_supervisor_helper_result_finish
  <2>2. CASE owned_bytes' = Uncharge(ASSEMBLY_BYTES + a.dynamic_bytes) /\ response' = response
    <3>1. TRUE \in BOOLEAN
      OBVIOUS
    <3> QED BY <2>1, <2>2, <3>1, Zenon
  <2>3. CASE owned_bytes' = Uncharge(ASSEMBLY_BYTES) /\ response' = [response EXCEPT ![q] = given]
    <3>1. FALSE \in BOOLEAN
      OBVIOUS
    <3> QED BY <2>1, <2>3, <3>1, Zenon
  <2> QED BY <2>1, <2>2, <2>3, Zenon
<1>2. CountersTyped /\ AssembliesOK /\ ResponsesOK /\ BudgetExact
  BY Zenon DEF BudgetInv
<1>3. /\ assembly'[q] = NoAssembly /\ \A r \in Query \ {q} : assembly'[r] = assembly[r]
      /\ assembly' = [r \in Query |-> assembly'[r]]
  BY <1>1, <1>2, SMTT(30) DEF CountersTyped
<1>4. assembly[q].dynamic_bytes \in Nat /\ ASSEMBLY_BYTES \in Nat /\ BUDGET_BYTES \in Nat
  BY <1>2, LookupAssumption DEF AssembliesOK, AssemblyOK
<1>5. ResponseOK(q, given) /\ given # NoResponse /\ given.dynamic_bytes = assembly[q].dynamic_bytes
  <2>1. resolver_supervisor_result_publish(q, a) \in {"VALID", "INVALID"}
    BY ZenonT(40) DEF resolver_supervisor_result_publish
  <2>2. given.publication = "VALID" => Sound(q, given.status, given.payload)
    BY PublishedIsSound, ZenonT(40)
  <2>3. a.status \in 1 .. 10 /\ a.payload \in Result(QueryType[q])
    BY ZenonT(40) DEF CompleteOK
  <2>4. given \in [status : 1 .. 10, payload : Result(QueryType[q]), dynamic_bytes : Nat,
               publication : {"VALID", "INVALID", "LIMIT", "TIME"}]
    BY <1>4, <2>1, <2>3, ZenonT(40)
  <2>5. given # NoResponse
    BY <2>3 DEF NoResponse
  <2> QED BY <2>2, <2>4, <2>5, Zenon DEF ResponseOK
<1> HIDE DEF given
<1>6. /\ IF dropped THEN response'[q] = response[q] ELSE response'[q] = given
      /\ \A r \in Query \ {q} : response'[r] = response[r]
      /\ response' = [r \in Query |-> response'[r]]
  BY <1>1, <1>2 DEF CountersTyped
<1>7. \A r \in Query \ {q} : assembly'[r] = assembly[r] /\ response'[r] = response[r]
  BY <1>3, <1>6, ZenonT(40)
<1>8. AssembliesOK'
  BY <1>2, <1>3, Zenon DEF AssembliesOK
<1>9. ResponsesOK'
  BY <1>2, <1>5, <1>6, ZenonT(40) DEF ResponsesOK
<1>10. /\ Assembling[q] = assembly[q].dynamic_bytes + ASSEMBLY_BYTES /\ Assembling'[q] = 0 /\ Holding[q] = 0
       /\ owned_bytes \in Nat /\ owned_bytes >= Assembling[q]
       /\ Holding'[q] = IF dropped THEN 0 ELSE assembly[q].dynamic_bytes
  <2>1. /\ Assembling[q] <= SumFunction(Assembling) /\ SumFunction(Assembling) \in Nat /\ SumFunction(Holding) \in Nat
    BY <1>2, ChargesBelow, Zenon
  <2>2. /\ Assembling[q] = assembly[q].dynamic_bytes + ASSEMBLY_BYTES /\ Assembling'[q] = 0 /\ Holding[q] = 0
    BY <1>3, <1>4 DEF Assembling, Holding, AssemblyCharge, ResponseCharge
  <2>3. Holding'[q] = IF dropped THEN 0 ELSE assembly[q].dynamic_bytes
    BY <1>5, <1>6 DEF Holding, ResponseCharge
  <2>4. owned_bytes = BUDGET_BYTES + SumFunction(Assembling) + SumFunction(Holding)
    BY <1>2, Zenon DEF BudgetExact
  <2> QED BY <1>4, <2>1, <2>2, <2>3, <2>4, SMTT(30)
<1>11. owned_bytes' = owned_bytes - Assembling[q] - Holding[q] + Assembling'[q] + Holding'[q] /\ owned_bytes' \in Nat
       /\ owned_bytes' <= owned_bytes
  BY <1>1, <1>4, <1>10, SMTT(30) DEF Uncharge
<1>12. owned_bytes' <= RESOLVER_REPLY_ASSEMBLY_BYTE_LIMIT
  BY <1>2, <1>10, <1>11, LookupAssumption, SMTT(30) DEF BudgetExact
<1>13. /\ metrics' \in [create_ok : Nat, complete : Nat, limit : Nat, memory : Nat, protocol : Nat, abandoned : Nat]
       /\ (metrics'.create_ok - Outcomes(metrics')) - (metrics.create_ok - Outcomes(metrics)) = -1
  <2>1. metrics \in [create_ok : Nat, complete : Nat, limit : Nat, memory : Nat, protocol : Nat, abandoned : Nat]
    BY <1>2, Zenon DEF CountersTyped
  <2> QED BY <1>1, <2>1 DEF Outcomes
<1>14. CountersTyped'
  BY <1>3, <1>6, <1>11, <1>13, ZenonT(40) DEF CountersTyped
<1>15. Cardinality(Open') - Cardinality(Open)
             = (metrics'.create_ok - Outcomes(metrics')) - (metrics.create_ok - Outcomes(metrics))
  <2>1. Cardinality(Open') = Cardinality(Open) - 1 /\ Cardinality(Open) \in Nat
    BY <1>3, OpenCount
  <2> QED BY <1>13, <2>1, SMTT(30)
<1> QED BY <1>7, <1>8, <1>9, <1>11, <1>12, <1>14, <1>15, BudgetFollows, ZenonT(40)

\* A query is asked once: its assembly ends before its response exists.
Once == \A q \in Query : /\ q \in ended => assembly[q] = NoAssembly
                         /\ response[q] # NoResponse => q \in ended

\* The inductive invariant.
LookupInvariant == BudgetInv /\ Once

\* An assembly that ends stays ended.
LEMMA OnceMoves ==
    ASSUME BudgetInv, Once, NEW q \in Query,
           assembly' = [assembly EXCEPT ![q] = NoAssembly], ended' = ended \cup {q},
           \A r \in Query \ {q} : response'[r] = response[r]
    PROVE  Once'
<1>1. assembly'[q] = NoAssembly /\ \A r \in Query \ {q} : assembly'[r] = assembly[r]
  BY DEF BudgetInv, CountersTyped
<1> QED BY <1>1, Zenon DEF Once

\* resolver_supervisor_helper_drain, in each of its outcomes.
LEMMA DrainKeeps ==
    ASSUME LookupInvariant, NEW q \in Query, resolver_supervisor_helper_drain(q)
    PROVE  LookupInvariant'
<1>1. PICK memory :
          LET outcome == resolver_ipc_assembly_packet_consume(assembly[q], Head(wire[q]), memory)
          IN  \/ /\ outcome.status = "OK"
                 /\ assembly' = [assembly EXCEPT ![q] = outcome.assembly]
                 /\ owned_bytes' = owned_bytes + outcome.assembly.dynamic_bytes - assembly[q].dynamic_bytes
                 /\ UNCHANGED <<response, metrics, ended>>
              \/ /\ outcome.status = "COMPLETE"
                 /\ resolver_supervisor_helper_result_finish(q, outcome.assembly)
              \/ /\ outcome.status \in {"LIMIT", "MEMORY", "PROTOCOL"}
                 /\ resolver_ipc_assembly_destroy(q, resolver_ipc_assembly_metrics_terminal_record(outcome.status))
                 /\ UNCHANGED response
  BY Zenon DEF resolver_supervisor_helper_drain
<1> DEFINE out == resolver_ipc_assembly_packet_consume(assembly[q], Head(wire[q]), memory)
<1>2. /\ CountersTyped /\ AssembliesOK /\ ResponsesOK /\ BudgetExact /\ BudgetInv /\ Once
      /\ assembly[q] # NoAssembly
  BY Zenon DEF LookupInvariant, BudgetInv, resolver_supervisor_helper_drain
<1>3. /\ out.status = "OK" =>
           /\ AssemblyOK(q, out.assembly)
           /\ owned_bytes + out.assembly.dynamic_bytes - assembly[q].dynamic_bytes
                 <= RESOLVER_REPLY_ASSEMBLY_BYTE_LIMIT
      /\ out.status = "COMPLETE" =>
           CompleteOK(q, out.assembly) /\ out.assembly.dynamic_bytes = assembly[q].dynamic_bytes
  <2>1. /\ owned_bytes \in Nat /\ owned_bytes <= RESOLVER_REPLY_ASSEMBLY_BYTE_LIMIT
        /\ AssemblyOK(q, assembly[q])
    BY <1>2, ZenonT(40) DEF CountersTyped, BudgetExact, AssembliesOK
  <2> DEFINE a == assembly[q] packet == Head(wire[q]) o == resolver_ipc_assembly_packet_consume(a, packet, memory)
  <2>2. AssemblyOK(q, a) /\ o = resolver_ipc_assembly_packet_consume(a, packet, memory)
    BY <2>1, ZenonT(40)
  <2> HIDE DEF a, packet, o
  <2>3. /\ o.status = "OK" =>
             /\ AssemblyOK(q, o.assembly)
             /\ owned_bytes + o.assembly.dynamic_bytes - a.dynamic_bytes <= RESOLVER_REPLY_ASSEMBLY_BYTE_LIMIT
        /\ o.status = "COMPLETE" => CompleteOK(q, o.assembly) /\ o.assembly.dynamic_bytes = a.dynamic_bytes
    BY <2>1, <2>2, PacketConsumed, SMTT(30)
  <2> QED BY <2>3, Zenon DEF a, packet, o
<1>4. response[q] = NoResponse
  BY <1>2, Zenon DEF Once
<1>5. CASE /\ out.status = "OK"
           /\ assembly' = [assembly EXCEPT ![q] = out.assembly]
           /\ owned_bytes' = owned_bytes + out.assembly.dynamic_bytes - assembly[q].dynamic_bytes
           /\ UNCHANGED <<response, metrics, ended>>
  <2> HIDE DEF out
  <2>1. BudgetInv'
    BY <1>2, <1>3, <1>5, ConsumeKeeps, ZenonT(40)
  <2>2. \A r \in Query \ {q} : assembly'[r] = assembly[r]
    BY <1>2, <1>5 DEF CountersTyped
  <2>3. q \notin ended
    BY <1>2, Zenon DEF Once
  <2>4. Once'
    BY <1>2, <1>5, <2>2, <2>3, ZenonT(40) DEF Once
  <2> QED BY <2>1, <2>4, ZenonT(40) DEF LookupInvariant
<1>6. CASE /\ out.status = "COMPLETE"
           /\ resolver_supervisor_helper_result_finish(q, out.assembly)
  <2> HIDE DEF out
  <2>1. BudgetInv'
    BY <1>2, <1>3, <1>4, <1>6, FinishKeeps, ZenonT(40)
  <2>2. assembly' = [assembly EXCEPT ![q] = NoAssembly] /\ ended' = ended \cup {q}
    BY <1>6, Zenon DEF resolver_supervisor_helper_result_finish
  <2>3. \A r \in Query \ {q} : response'[r] = response[r]
    <3>1. \/ response' = response
          \/ response' = [response EXCEPT ![q] =
                 [status |-> out.assembly.status, payload |-> out.assembly.payload,
                  dynamic_bytes |-> out.assembly.dynamic_bytes,
                  publication |-> resolver_supervisor_result_publish(q, out.assembly)]]
      BY <1>6, ZenonT(40) DEF resolver_supervisor_helper_result_finish
    <3> DEFINE given == [status |-> out.assembly.status, payload |-> out.assembly.payload,
                  dynamic_bytes |-> out.assembly.dynamic_bytes,
                  publication |-> resolver_supervisor_result_publish(q, out.assembly)]
    <3>2. response' = response \/ response' = [response EXCEPT ![q] = given]
      BY <3>1
    <3> HIDE DEF given
    <3> QED BY <1>2, <3>2, SMTT(30) DEF CountersTyped
  <2>4. Once'
    BY <1>2, <2>2, <2>3, OnceMoves, ZenonT(40)
  <2> QED BY <2>1, <2>4, Zenon DEF LookupInvariant
<1>7. CASE /\ out.status \in {"LIMIT", "MEMORY", "PROTOCOL"}
           /\ resolver_ipc_assembly_destroy(q, resolver_ipc_assembly_metrics_terminal_record(out.status))
           /\ UNCHANGED response
  <2> HIDE DEF out
  <2>1. resolver_ipc_assembly_metrics_terminal_record(out.status) \in {"limit", "memory", "protocol", "abandoned"}
    BY ZenonT(40) DEF resolver_ipc_assembly_metrics_terminal_record
  <2>2. BudgetInv'
    BY <1>2, <1>7, <2>1, DestroyKeeps, ZenonT(40)
  <2>3. Once'
    BY <1>2, <1>7, OnceMoves, ZenonT(40) DEF resolver_ipc_assembly_destroy
  <2> QED BY <2>2, <2>3, Zenon DEF LookupInvariant
<1> QED BY <1>1, <1>5, <1>6, <1>7, Zenon

-----------------------------------------------------------------------------
(* The theorems *)

\* Nothing is charged at first.
LEMMA LookupInit == Init => LookupInvariant
<1> SUFFICES ASSUME Init PROVE LookupInvariant
  OBVIOUS
<1>1. /\ assembly = [q \in Query |-> NoAssembly] /\ response = [q \in Query |-> NoResponse]
      /\ owned_bytes = BUDGET_BYTES /\ ended = {}
      /\ metrics = [create_ok |-> 0, complete |-> 0, limit |-> 0, memory |-> 0, protocol |-> 0, abandoned |-> 0]
  BY ZenonT(40) DEF Init
<1>2. CountersTyped
  BY <1>1, LookupAssumption, Zenon DEF CountersTyped
<1>3. AssembliesOK /\ ResponsesOK /\ Once
  BY <1>1 DEF AssembliesOK, ResponsesOK, Once
<1>4. SumFunction(Assembling) = 0 /\ SumFunction(Holding) = 0
  <2>1. Assembling \in [Query -> Nat] /\ Holding \in [Query -> Nat]
        /\ \A q \in Query : Assembling[q] = 0 /\ Holding[q] = 0
    BY <1>1 DEF Assembling, Holding, AssemblyCharge, ResponseCharge
  <2>2. \A f \in [Query -> Nat] : (\A q \in Query : f[q] = 0) => SumFunction(f) = 0
    BY SumZero, LookupAssumption, ZenonT(40)
  <2> QED BY <2>1, <2>2, ZenonT(40)
<1>5. {q \in Query : assembly[q] # NoAssembly} = {}
  BY <1>1
<1>6. BudgetExact
  <2>1. Cardinality({q \in Query : assembly[q] # NoAssembly}) = 0
    BY <1>5, FS_EmptySet, ZenonT(40)
  <2>2. /\ owned_bytes = BUDGET_BYTES + SumFunction(Assembling) + SumFunction(Holding)
        /\ owned_bytes <= RESOLVER_REPLY_ASSEMBLY_BYTE_LIMIT
    BY <1>1, <1>4, LookupAssumption, SMTT(30)
  <2>3. metrics.create_ok = 0 + metrics.complete + metrics.limit + metrics.memory
                              + metrics.protocol + metrics.abandoned
    BY <1>1
  <2> QED BY <2>1, <2>2, <2>3, Zenon DEF BudgetExact
<1> QED BY <1>2, <1>3, <1>6, ZenonT(40) DEF LookupInvariant, BudgetInv

\* Every step keeps the invariant.
LEMMA LookupStep == LookupInvariant /\ [Next]_vars => LookupInvariant'
<1> SUFFICES ASSUME LookupInvariant, [Next]_vars PROVE LookupInvariant'
  OBVIOUS
<1>1. BudgetInv /\ Once /\ CountersTyped
  BY Zenon DEF LookupInvariant, BudgetInv
<1>2. ASSUME UNCHANGED <<assembly, response, owned_bytes, metrics, ended>> PROVE LookupInvariant'
  BY <1>1, <1>2, QuietKeeps, ZenonT(40) DEF LookupInvariant, Once
<1>3. CASE UNCHANGED vars
  BY <1>2, <1>3, Zenon DEF vars
<1>4. ASSUME NEW q \in Query, HelperStep(q) \/ BrokenSend(q) \/ Die(q) \/ StrayPacket(q) PROVE LookupInvariant'
  BY <1>2, <1>4, Zenon
     DEF HelperStep, resolver_helper_run, Ask, resolver_helper_packet_send, BrokenSend, Die, StrayPacket
<1>5. ASSUME NEW q \in Query, resolver_supervisor_helper_job_assign(q) PROVE LookupInvariant'
  <2>0. assembly[q] = NoAssembly /\ q \notin ended /\ response[q] = NoResponse
    BY <1>1, <1>5, Zenon DEF resolver_supervisor_helper_job_assign, Once
  <2>1. CASE /\ owned_bytes <= RESOLVER_REPLY_ASSEMBLY_BYTE_LIMIT - ASSEMBLY_BYTES
             /\ resolver_ipc_assembly_create(q) /\ response' = response /\ ended' = ended
    <3>1. BudgetInv'
      BY <1>1, <2>0, <2>1, CreateKeeps, Zenon
    <3>2. PICK new : assembly' = [assembly EXCEPT ![q] = new]
      BY <2>1, Zenon DEF resolver_ipc_assembly_create
    <3>3. \A r \in Query \ {q} : assembly'[r] = assembly[r]
      BY <1>1, <3>2 DEF CountersTyped
    <3>4. Once'
      BY <1>1, <2>0, <2>1, <3>3, ZenonT(40) DEF Once
    <3> QED BY <3>1, <3>4, Zenon DEF LookupInvariant
  <2>2. CASE /\ Unsent(q, "PERMANENT_ERROR", "TIME") \/ Unsent(q, "LIMIT", "LIMIT")
             /\ metrics' = [metrics EXCEPT !.create_ok = @ + 1, !.abandoned = @ + 1]
             /\ ended' = ended \cup {q} /\ UNCHANGED <<assembly, owned_bytes>>
    <3>1. /\ ResponsesOK' /\ response' = [r \in Query |-> response'[r]]
          /\ \A r \in Query \ {q} : response'[r] = response[r]
          /\ Holding'[q] = Holding[q]
      BY <1>1, <2>0, <2>2, UnsentOK, Zenon
    <3>2. BudgetInv'
      BY <1>1, <2>2, <3>1, RefusalKeeps, ZenonT(40)
    <3>3. Once'
      BY <1>1, <2>0, <2>2, <3>1, ZenonT(40) DEF Once
    <3> QED BY <3>2, <3>3, Zenon DEF LookupInvariant
  <2> QED BY <1>5, <2>1, <2>2, Zenon DEF resolver_supervisor_helper_job_assign
<1>6. ASSUME NEW q \in Query, HelperGone(q) \/ Deadline(q) PROVE LookupInvariant'
  <2>1. assembly[q] # NoAssembly /\ resolver_ipc_assembly_destroy(q, "abandoned") /\ response' = response
    BY <1>6, Zenon DEF HelperGone, Deadline
  <2>2. BudgetInv'
    BY <1>1, <2>1, DestroyKeeps, ZenonT(40)
  <2>3. Once'
    BY <1>1, <2>1, OnceMoves, Zenon DEF resolver_ipc_assembly_destroy
  <2> QED BY <2>2, <2>3, Zenon DEF LookupInvariant
<1>7. ASSUME NEW q \in Query, resolver_supervisor_completion_destroy(q) PROVE LookupInvariant'
  <2>1. BudgetInv'
    BY <1>1, <1>7, CompletionKeeps, Zenon
  <2>2. assembly' = assembly /\ ended' = ended /\ response' = [response EXCEPT ![q] = NoResponse]
    BY <1>7, Zenon DEF resolver_supervisor_completion_destroy
  <2>3. response'[q] = NoResponse /\ \A r \in Query \ {q} : response'[r] = response[r]
    BY <1>1, <2>2 DEF CountersTyped
  <2>4. Once'
    BY <1>1, <2>2, <2>3, Zenon DEF Once
  <2> QED BY <2>1, <2>4, Zenon DEF LookupInvariant
<1>8. ASSUME NEW q \in Query, SendTime(q) PROVE LookupInvariant'
  <2>1. /\ assembly[q] # NoAssembly /\ resolver_ipc_assembly_destroy(q, "abandoned")
        /\ Unsent(q, "PERMANENT_ERROR", "TIME")
    BY <1>8, Zenon DEF SendTime
  <2>2. response[q] = NoResponse
    BY <1>1, <2>1, Zenon DEF Once
  <2>3. /\ ResponsesOK' /\ response' = [r \in Query |-> response'[r]]
        /\ \A r \in Query \ {q} : response'[r] = response[r]
        /\ Holding'[q] = Holding[q]
    BY <1>1, <2>1, <2>2, UnsentOK, Zenon
  <2>4. BudgetInv'
    BY <1>1, <2>1, <2>3, DestroyMoves, ZenonT(40)
  <2>5. Once'
    BY <1>1, <2>1, <2>3, OnceMoves, Zenon DEF resolver_ipc_assembly_destroy
  <2> QED BY <2>4, <2>5, Zenon DEF LookupInvariant
<1> QED BY <1>3, <1>4, <1>5, <1>6, <1>7, <1>8, DrainKeeps, Zenon DEF Next, SupervisorStep

\* So it always holds.
LEMMA LookupHolds == Spec => []LookupInvariant
BY LookupInit, LookupStep, PTL DEF Spec

\* owned_bytes is at every moment exactly what the live assemblies and the
\* results they gave away occupy, never exceeds the limit, and every assembly
\* that was created is counted under exactly one outcome (ipc.c): for any
\* queries, zones, packets, deaths, deadlines and failing allocations.
THEOREM BudgetIsExact == Spec => []BudgetExact
<1>1. LookupInvariant => BudgetExact
  BY Zenon DEF LookupInvariant, BudgetInv
<1> QED BY <1>1, LookupHolds, PTL

\* A result that the supervisor publishes as VALID answers the question that was
\* asked, along a chain of aliases without a gap or a cycle, with records exactly
\* when it says OK and no TTL above an alias's on the way: whatever packets the
\* helper sent.
THEOREM ResultsAreSound == Spec => []CompleteIsSound
<1>1. LookupInvariant => CompleteIsSound
  BY Zenon DEF LookupInvariant, BudgetInv, ResponsesOK, ResponseOK, Sound, CompleteIsSound, StatusOf
<1> QED BY <1>1, LookupHolds, PTL
=============================================================================

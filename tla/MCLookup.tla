------------------------------ MODULE MCLookup ------------------------------
(***************************************************************************)
(* Lookup on small zones: four names and every alias graph that can be     *)
(* reached from the question.                                              *)
(***************************************************************************)
EXTENDS Lookup

MCNames == {<<1, 9>>, <<2, 9>>, <<3, 8>>, <<4, 8>>}
MCQueryName == [q \in Query |-> <<1, 9>>]
MCQueryType == [q \in Query |-> IF q = 1 THEN "SRV" ELSE "A"]
MCRecordBytes == [t \in QueryTypes |-> IF t = "SRV" THEN 2 ELSE 1]

AliasTTL(name) == CASE name[1] = 1 -> 3 [] name[1] = 2 -> 1 [] name[1] = 3 -> 2 [] name[1] = 4 -> 1

MCEntries(name) ==
    {[kind |-> "cname", target |-> target, ttl |-> AliasTTL(name)] : target \in MCNames}
    \cup {[kind |-> "data", ttls |-> <<2>>], [kind |-> "data", ttls |-> <<4, 2>>],
          [kind |-> "nodata"], [kind |-> "nxdomain"]}

Default == [kind |-> "nodata"]

\* Names that the question does not reach hold the default.
MCReached(z) ==
    LET within[hops \in 0 .. 3] ==
            IF hops = 0 THEN {<<1, 9>>}
            ELSE within[hops - 1] \cup {z[n].target : n \in {m \in within[hops - 1] : z[m].kind = "cname"}}
    IN  within[3]

MCZones ==
    {z \in [MCNames -> UNION {MCEntries(n) : n \in MCNames}] :
        /\ \A n \in MCNames : z[n] \in MCEntries(n)
        /\ \A n \in MCNames \ MCReached(z) : z[n] = Default}

\* A few of them, for two queries and every fault.
MCFewZones ==
    {z \in MCZones :
        \/ z[<<1, 9>>] = [kind |-> "nodata"]
        \/ /\ z[<<1, 9>>] = [kind |-> "cname", target |-> <<2, 9>>, ttl |-> 3]
           /\ z[<<2, 9>>] \in {[kind |-> "data", ttls |-> <<4, 2>>],
                               [kind |-> "cname", target |-> <<3, 8>>, ttl |-> 1]}
           /\ z[<<3, 8>>] \in {Default, [kind |-> "data", ttls |-> <<2>>]}}

Soa(owner, minimum, ttl) == [soa |-> TRUE, sane |-> TRUE, owner |-> owner, minimum |-> minimum, ttl |-> ttl]

MCAuthorities ==
    <<Soa(<<>>, 1, 1), Soa(<<9>>, 3, 5), Soa(<<8>>, 5, 4),
      [soa |-> FALSE, sane |-> FALSE, owner |-> <<1, 9>>, minimum |-> 0, ttl |-> 0]>>

Plain == [ours |-> TRUE, tc |-> FALSE, question |-> <<1, 9>>, rcode |-> "noerror",
          answers |-> <<>>, authorities |-> <<>>]
Reply(r) == [errno |-> "none", response |-> r]
Failure(e) == [errno |-> e, response |-> Plain]

MCErrorReplies ==
    {Failure("EPERM"), Failure("ETIMEDOUT"), Reply([Plain EXCEPT !.ours = FALSE]),
     Reply([Plain EXCEPT !.rcode = "servfail"]), Reply([Plain EXCEPT !.rcode = "refused"]),
     Reply([Plain EXCEPT !.authorities = <<Soa(<<7>>, 1, 1)>>])}

\* One failure is enough where the faults are elsewhere.
MCOneErrorReply == {Failure("ETIMEDOUT")}
=============================================================================

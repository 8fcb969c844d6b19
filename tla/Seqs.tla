-------------------------------- MODULE Seqs --------------------------------
(***************************************************************************)
(* Operators on sequences, under the names they have in SequencesExt.      *)
(* That module also brings in bags, behind which the prover takes ten      *)
(* times as long for every obligation, so the specifications with theorems *)
(* take the few they need from here.                                       *)
(***************************************************************************)
EXTENDS Naturals, Sequences, Functions

Cons(e, s) == <<e>> \o s
Front(s) == SubSeq(s, 1, Len(s) - 1)
Last(s) == s[Len(s)]
RemoveAt(s, i) == SubSeq(s, 1, i - 1) \o SubSeq(s, i + 1, Len(s))

Reverse(s) == [i \in 1..Len(s) |-> s[Len(s) - i + 1]]

\* s begins t; s ends t.
IsPrefix(s, t) == Len(s) <= Len(t) /\ SubSeq(s, 1, Len(s)) = SubSeq(t, 1, Len(s))
IsSuffix(s, t) == Len(s) <= Len(t) /\ s = SubSeq(t, Len(t) - Len(s) + 1, Len(t))

\* The members of a sequence of sequences, one after the other.
FlattenSeq(seqs) ==
    LET upTo[n \in 0..Len(seqs)] == IF n = 0 THEN <<>> ELSE upTo[n - 1] \o seqs[n]
    IN  upTo[Len(seqs)]
=============================================================================

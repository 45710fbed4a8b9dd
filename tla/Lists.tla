-------------------------------- MODULE Lists --------------------------------
(* What the formats need of sequences.  A fold goes from index to index, so *)
(* that proofs can follow it; those of SequencesExt go through sets of      *)
(* indices.                                                                 *)
EXTENDS Integers, Sequences

Front(s) == SubSeq(s, 1, Len(s) - 1)
Last(s)  == s[Len(s)]
Least(S) == CHOOSE i \in S : \A j \in S : i <= j
Greatest(S) == CHOOSE i \in S : \A j \in S : j <= i

IsStrictPrefix(s, t) == Len(s) < Len(t) /\ SubSeq(t, 1, Len(s)) = s

ToSet(s) == {s[k] : k \in DOMAIN s}

Reversed(s) == [k \in DOMAIN s |-> s[Len(s) + 1 - k]]

Fold(op(_, _), base, s) ==
  LET upTo[k \in 0 .. Len(s)] == IF k = 0 THEN base ELSE op(upTo[k - 1], s[k])
  IN upTo[Len(s)]

(* The elements of ss, which are sequences, one after the other.            *)
Concat(ss) == Fold(LAMBDA s, t : s \o t, <<>>, ss)
==============================================================================

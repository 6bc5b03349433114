------------------------------- MODULE Common -------------------------------
(* What the component modules share.                                       *)
EXTENDS Integers, Sequences, FiniteSets, TLC

CONSTANT Absent   \* nil, a missing map entry, and a component that takes no part

Maximum(S) == CHOOSE x \in S : \A y \in S : y <= x
Minimum(S) == CHOOSE x \in S : \A y \in S : x <= y

(* f, and g where f says nothing.                                          *)
Over(f, g) == [x \in DOMAIN f \cup DOMAIN g |-> IF x \in DOMAIN f THEN f[x] ELSE g[x]]

Elements(s) == {s[i] : i \in DOMAIN s}

(* Where the key is that comes at position n/2, counted from 0, when the n *)
(* keys are sorted.                                                        *)
MedianIndex(key) ==
    LET half == Cardinality(DOMAIN key) \div 2
        below(i) == {j \in DOMAIN key : key[j] < key[i]}
        upTo(i) == {j \in DOMAIN key : key[j] <= key[i]}
    IN CHOOSE i \in DOMAIN key : Cardinality(below(i)) <= half /\ half < Cardinality(upTo(i))
=============================================================================

---------------------------- MODULE MCBalancers ----------------------------
(* Balancers with two virtual nodes per address; two of them share a hash. *)
EXTENDS Balancers

MCHashOf(a, i) == (<<<<1, 4>>, <<2, 5>>, <<4, 0>>>>)[a][i]

\* What makes the hashing consistent: when one address leaves the list, the
\* keys of the others stay where they are.
ASSUME OnlyItsKeysMove ==
    \A l \in Lists : \A h \in KeyHashes : \A a \in ToSet(l) :
        LET rest == SelectSeq(l, LAMBDA b : b # a)
        IN Owner(l, h) # a => Owner(rest, h) = Owner(l, h)
=============================================================================

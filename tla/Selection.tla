------------------------------- MODULE Selection -------------------------------
(***************************************************************************)
(* What a loop with an append keeps of a sequence: the elements at some of *)
(* its positions, in their order.                                          *)
(***************************************************************************)
EXTENDS Integers, Sequences, FiniteSets

\* The members of a set of positions, one after the other.
InOrder(S) ==
    CHOOSE f \in [1 .. Cardinality(S) -> S] :
        \A k, l \in 1 .. Cardinality(S) : k < l => f[k] < f[l]

\* The elements of s at the positions S.
Selected(s, S) == LET kept == InOrder(S) IN [k \in DOMAIN kept |-> s[kept[k]]]
=============================================================================

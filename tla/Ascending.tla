------------------------------ MODULE Ascending ------------------------------
(***************************************************************************)
(* The loops of the compilers that keep some of the elements of a vector,  *)
(* in their order.                                                         *)
(***************************************************************************)
EXTENDS Naturals, Sequences

(* The elements of S up to n, a set of positions, in ascending order. *)
InOrder(S, n) ==
    LET kept[k \in 0..n] ==
            IF k = 0 THEN << >> ELSE IF k \in S THEN Append(kept[k - 1], k) ELSE kept[k - 1]
    IN  kept[n]
==============================================================================

------------------------------- MODULE Lists --------------------------------
(***************************************************************************)
(* What is left of a list when some of it is taken out, and where a thing  *)
(* stands in an order.  (SelectSeq is the same, counted out element by     *)
(* element.)                                                               *)
(***************************************************************************)
EXTENDS Naturals, FiniteSets

(* The place of k among the numbers in K, from 1.                          *)
Rank(K, k) == Cardinality({j \in K : j <= k})

(* The members of the list s at the places in K, in the order of s.        *)
Sifted(s, K) ==
  [n \in 1 .. Cardinality(K) |-> s[CHOOSE k \in K : Rank(K, k) = n]]
=============================================================================

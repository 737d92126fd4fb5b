-------------------------------- MODULE Loops --------------------------------
(***************************************************************************)
(* The loop that the parts without state share: it walks a list and pushes *)
(* some of its entries.                                                    *)
(***************************************************************************)
EXTENDS Integers, Sequences, FiniteSets

\* What such a loop keeps of the list: the entries at these positions, in the
\* order of the list.
Kept(list, positions) ==
  [k \in 1 .. Cardinality(positions) |->
     list[CHOOSE i \in positions : Cardinality({j \in positions : j < i}) = k - 1]]
=============================================================================

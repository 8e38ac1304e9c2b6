---------------------------- MODULE MCStorefront ----------------------------
(* Storefront for TLC: model values; those that no bound tells apart are      *)
(* interchangeable.                                                           *)
EXTENDS Storefront, TLC

CONSTANTS u1

\* u1 makes one request at a time, the others up to three.
MixedTabs == [u \in Users |-> IF u = u1 THEN 1 ELSE 3]
TwoTabs == [u \in Users |-> 2]

StorefrontSymmetry ==
    Permutations(Requests) \cup Permutations(Restaurants) \cup Permutations(Items)
=============================================================================

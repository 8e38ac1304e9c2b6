----------------------------- MODULE MCSessions -----------------------------
(* Sessions for TLC: users, tabs, requests and versions are interchangeable. *)
EXTENDS Sessions, TLC

SessionSymmetry ==
    Permutations(Users) \cup Permutations(Tabs) \cup Permutations(Requests)
      \cup Permutations(Versions)
=============================================================================

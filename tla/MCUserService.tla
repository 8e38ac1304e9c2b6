--------------------------- MODULE MCUserService ---------------------------
(* UserService for TLC: requests and the ordinary users are interchangeable. *)
EXTENDS UserService, TLC

UserSymmetry == Permutations(Requests) \cup Permutations(Users \ {Admin})
=============================================================================

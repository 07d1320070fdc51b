----------------------------- MODULE MCSessions -----------------------------
(***************************************************************************)
(* Small instances of Sessions.  Fold goroutines, refill requests and      *)
(* rooms are interchangeable.                                              *)
(***************************************************************************)
EXTENDS SessionsProperties, TLC

Symmetry == Permutations(Folds) \cup Permutations(Claims) \cup Permutations(Rooms)
=============================================================================

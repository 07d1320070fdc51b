------------------------------ MODULE MCRounds ------------------------------
(***************************************************************************)
(* Small instances of Rounds.  Players other than the host, rounds, keys   *)
(* and sockets are interchangeable, so safety runs use their permutations; *)
(* liveness runs use none.                                                 *)
(***************************************************************************)
EXTENDS RoundsProperties, TLC

Symmetry ==
  Permutations(Users \ {Host}) \cup Permutations(RoundIDs)
  \cup Permutations(Keys) \cup Permutations(HostConns)
=============================================================================

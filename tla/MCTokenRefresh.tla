---------------------------- MODULE MCTokenRefresh ----------------------------
(* Small instances of TokenRefresh. *)
EXTENDS TokenRefresh, TLC

Symmetric == Permutations(Procs)
=============================================================================

--------------------------- MODULE MCLeaderboard ---------------------------
(* Leaderboard on a small instance. *)
EXTENDS Leaderboard, TLC

CONSTANTS a1, a2, a3, a4

\* Every property treats all addresses alike, and none is about liveness.
AnyAddress == Permutations(Addresses)

=============================================================================

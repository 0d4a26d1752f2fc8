---------------------------- MODULE MCPoolRounds ----------------------------
(* PoolRounds on small instances. *)
EXTENDS PoolRoundsLedger, TLC

Symmetry == Permutations(Blocks)

\* Every failure except the one that loses a published round.
ToleratedFaults == Faults \ {"confirmAck"}

=============================================================================

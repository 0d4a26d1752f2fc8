------------------------ MODULE MCPersonalCoinbase ------------------------
(***************************************************************************)
(* Two addresses, four jobs in a ring of three, and a reconnection.        *)
(***************************************************************************)
EXTENDS PersonalCoinbase, TLC

CONSTANTS a1, a2

Symmetry == Permutations(Addresses)

=============================================================================

-------------------------- MODULE PoolRoundsLedger --------------------------
(* The reward service's tables implement the round ledger. *)
EXTENDS PoolRounds

BlockStatus(b) ==
    IF b \notin Inserted THEN "unknown"
    ELSE IF b \in confirmed THEN "confirmed"
    ELSE IF b \in orphaned THEN "orphaned" ELSE "pending"

Ledger == INSTANCE RoundLedger WITH
    open <- lastRound,
    winner <- closedBy,
    status <- [b \in Blocks |-> BlockStatus(b)],
    round <- roundOf

\* Read as a ledger, the rounds and blocks tables only ever take the ledger's
\* steps, whatever the goroutines, the failures and the restarts do: a round is
\* won once, by a block found in it, and settled blocks stay settled.
ImplementsLedger == Ledger!Spec

=============================================================================

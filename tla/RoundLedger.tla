----------------------------- MODULE RoundLedger -----------------------------
(***************************************************************************)
(* What the pool promises its miners about rounds, without the service:    *)
(* rounds are played one after the other, each is won by one confirmed     *)
(* block found in it, and nothing that is settled changes again. A block   *)
(* that turns out confirmed when its round has been won wins nothing.      *)
(***************************************************************************)
EXTENDS Integers

CONSTANTS Blocks, NoBlock, MaxRounds

VARIABLES
    open,    \* the round being played, 0 before the first
    winner,  \* the block each round was won with
    status,  \* what is known of each block
    round    \* the round each block was found in

ledger == <<open, winner, status, round>>

Init ==
    /\ open = 0
    /\ winner = [r \in 1 .. MaxRounds |-> NoBlock]
    /\ status = [b \in Blocks |-> "unknown"]
    /\ round = [b \in Blocks |-> 0]

FirstRound ==
    /\ open = 0 /\ open' = 1
    /\ UNCHANGED <<winner, status, round>>

\* A block is reported, in the round being played or, by a service that lags
\* behind, in an earlier one.
Submit(b) ==
    /\ status[b] = "unknown"
    /\ status' = [status EXCEPT ![b] = "pending"]
    /\ \E r \in 1 .. open : round' = [round EXCEPT ![b] = r]
    /\ UNCHANGED <<open, winner>>

Orphan(b) ==
    /\ status[b] = "pending"
    /\ status' = [status EXCEPT ![b] = "orphaned"]
    /\ UNCHANGED <<open, winner, round>>

\* The first confirmed block of the round being played wins it.
Win(b) ==
    /\ status[b] = "pending" /\ round[b] = open
    /\ status' = [status EXCEPT ![b] = "confirmed"]
    /\ winner' = [winner EXCEPT ![open] = b]
    /\ open' = open + 1
    /\ UNCHANGED round

TooLate(b) ==
    /\ status[b] = "pending" /\ round[b] < open
    /\ status' = [status EXCEPT ![b] = "confirmed"]
    /\ UNCHANGED <<open, winner, round>>

Next ==
    \/ FirstRound
    \/ \E b \in Blocks : Submit(b) \/ Orphan(b) \/ Win(b) \/ TooLate(b)

Spec == Init /\ [][Next]_ledger

=============================================================================

----------------------------- MODULE LiveBoard -----------------------------
(***************************************************************************)
(* What the pool promises a miner about his place, without any table: his  *)
(* best share stands while he is not silent for a week, it starts anew     *)
(* when he comes back after more than that, and a block that is found      *)
(* wipes the board.                                                        *)
(***************************************************************************)
EXTENDS Integers

CONSTANTS Addresses, Difficulties, Week, MaxTime

VARIABLES
    now,
    last,    \* the difficulty of the share just submitted, 0 after anything else
    best,    \* each miner's best share of the round and session, 0 before the first
    seen,    \* when he was last heard of
    board    \* what he is told: his best share and the time he has left, or nothing

liveboard == <<now, last, best, seen, board>>

\* He is on the board until he was silent for a week.
Told(b, s, t) ==
    [a \in Addresses |->
        IF b[a] > 0 /\ t - s[a] < Week
        THEN {[best |-> b[a], expiresIn |-> s[a] + Week - t]}
        ELSE {}]

Init ==
    /\ now = 0 /\ last = 0
    /\ best = [a \in Addresses |-> 0] /\ seen = [a \in Addresses |-> 0]
    /\ board = Told(best, seen, now)

Submit(a, d) ==
    /\ now' = now /\ last' = d
    /\ seen' = [seen EXCEPT ![a] = now]
    /\ best' = [best EXCEPT ![a] = IF now - seen[a] <= Week /\ @ > d THEN @ ELSE d]

WinBlock ==
    /\ now' = now /\ last' = 0
    /\ best' = [a \in Addresses |-> 0] /\ seen' = [a \in Addresses |-> 0]

Pass == now < MaxTime /\ now' = now + 1 /\ last' = 0 /\ UNCHANGED <<best, seen>>

Next ==
    /\ \/ \E a \in Addresses, d \in Difficulties : Submit(a, d)
       \/ WinBlock
       \/ Pass
    /\ board' = Told(best', seen', now')

Spec == Init /\ [][Next]_liveboard

=============================================================================

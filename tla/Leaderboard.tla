---------------------------- MODULE Leaderboard ----------------------------
(***************************************************************************)
(* The shares table as time passes, and what the ranking of it (Ranking)   *)
(* tells the service, the pages and the miners. The table is written by    *)
(* FlushShares, whose rows carry the time of their transaction and the     *)
(* round they were received in, and the round changes when a block is      *)
(* confirmed. A unit of time is longer than a transaction.                 *)
(***************************************************************************)
EXTENDS Ranking

CONSTANTS
    Addresses,
    Submitted,        \* the true difficulties the gateway sends, in hundredths
    KeepsFractions,   \* whether the column true_difficulty does
    MaxTime, MaxShares, MaxRounds    \* bounds of the instance

\* A share is accepted when it meets its job's difficulty, which is at least 1.
ASSUME MinersAssumption ==
    /\ IsFiniteSet(Addresses) /\ KeepsFractions \in BOOLEAN
    /\ \A d \in Submitted : d \in Nat /\ d >= 100
ASSUME BoundsAssumption == MaxTime \in Nat /\ MaxShares \in Nat /\ MaxRounds \in Nat \ {0}

\* What FlushShares' DOUBLE PRECISION becomes in the table. schema.sql makes the column
\* NUMERIC(78,0), which rounds to the nearest whole number; but it adds it only IF NOT
\* EXISTS, and a column that was DOUBLE PRECISION, as db.ts:194 has it, stays one.
Stored(hundredths) ==
    IF KeepsFractions THEN hundredths ELSE 100 * ((2 * hundredths + 100) \div 200)

Difficulties == {Stored(d) : d \in Submitted}

VARIABLES
    now, open, shares,
    last        \* history: the difficulty of the share just stored in the open round,
                \* 0 once time or the round goes on

vars == <<now, open, shares, last>>

Init == now = 0 /\ open = 1 /\ shares = {} /\ last = 0

\* A flush stores a share; one that was buffered before a block was confirmed goes to
\* the round that was closed by it.
Insert(a, d, round) ==
    /\ Cardinality(shares) < MaxShares
    /\ shares' = shares \cup {[address |-> a, round |-> round, diff |-> d, at |-> now]}
    /\ last' = IF round = open THEN d ELSE last
    /\ UNCHANGED <<now, open>>

NewRound ==
    /\ open < MaxRounds
    /\ open' = open + 1 /\ last' = 0
    /\ UNCHANGED <<now, shares>>

\* Time goes on to MaxTime, and stays there.
Pass ==
    /\ IF now < MaxTime
       THEN now' = now + 1 /\ last' = 0
       ELSE UNCHANGED <<now, last>>
    /\ UNCHANGED <<open, shares>>

Next ==
    \/ \E a \in Addresses, d \in Difficulties, round \in {open, open - 1} \ {0} : Insert(a, d, round)
    \/ NewRound
    \/ Pass

Spec == Init /\ [][Next]_vars

-----------------------------------------------------------------------------

Mine(a) == Of(RoundRows(shares, open), a)
Best(a) == IF Mine(a) = {} THEN 0 ELSE BestOf(Session(Mine(a)))
Seen(a) == IF Mine(a) = {} THEN 0 ELSE LastSeen(Mine(a))
Stats(a) == MinerStats(a, shares, open, now)

LivePromise == INSTANCE LiveBoard WITH
    best <- [a \in Addresses |-> Best(a)],
    seen <- [a \in Addresses |-> Seen(a)],
    board <- [a \in Addresses |-> MinerCard(Stats(a), now)]

\* What a miner's page says follows the promise at every step: sessions found anew
\* from the gaps between rows, in a window that moves, come to the same as a best
\* share that is kept, restarted after a silence of a week, and wiped by a block;
\* and the countdown ends just when he leaves the board.
ImplementsLiveBoard == LivePromise!Spec

\* Of "Your slot holds until someone submits a better share" (src/web/app/page.tsx:149),
\* what it says of ranks: one
\* gets worse only when the best share of another miner on the board rises above
\* the miner's own, and is lost only with the round or after a week of silence. (Miners
\* with equal best shares have the same rank, and which of them is paid for the last
\* slot it does not tell: with the next answer of GetTop21 it may be another one.)
SlotHolds ==
    [][open' = open =>
        LET was == [a \in Addresses |-> Stats(a)]
            is == [a \in Addresses |-> Stats(a)']
        IN  \A a \in Addresses : \A old \in was[a] :
                \/ is[a] = {} /\ now' - old.lastSeen >= Week
                \/ \E new \in is[a] :
                      \/ new.rank <= old.rank
                      \/ \E b \in Addresses : \E better \in is[b] :
                            /\ better.best > new.best
                            /\ \A before \in was[b] : better.best > before.best]_vars

\* Whoever the service pays is above the line of the leaderboard page, whichever order
\* each query puts equal shares in, or is left out there because more miners than the
\* page has rows are as good; above the line but unpaid are only miners who
\* tie with the last paid one; and the home page and the leaderboard agree with the
\* service on how many slots are open.
PaidAreShown ==
    LET standings == Standings(shares, open, now)
        leaderboard == GetLeaderboard(PageRows, shares, open, now)
        home == GetLeaderboard(Slots, shares, open, now)
    IN  \A top \in GetTop21(shares, open, now) :
        /\ \A entries \in leaderboard :
              /\ \A e \in top \ PaidRows(entries) :
                    Cardinality({f \in standings : f.best >= e.best}) > PageRows
              /\ UnpaidRows(entries) \cap top = {}
              /\ OpenSlots(entries) = Slots - Cardinality(top)
              /\ \A e \in PaidRows(entries) \ top : \A f \in top : e.best <= f.best /\ e.rank >= f.rank
        /\ \A entries \in home : SlotsFilled(entries) = Cardinality(top)

\* How far a whole number can lie above the difficulty it was rounded from.
Rounded == IF KeepsFractions THEN 50 ELSE 0

\* The statistics page's "Min Share to Enter Top 21" keeps out no miner who would get
\* in, but for what it is rounded by: when the list is full, everyone on it has at least
\* that share, less half a difficulty if the table keeps fractions, and, from a thousand
\* on, less the half percent by which two decimals may exceed a number. (It may
\* be too low, being the minimum over the last seven days, and it is shown when slots
\* are open.)
ThresholdNeverTooHigh ==
    \A threshold \in MinShareToEnter(MinTop21(shares, open, now)) :
        \A top \in GetTop21(shares, open, now) :
            Cardinality(top) = Slots =>
                \A e \in top :
                    IF threshold < 1000
                    THEN 100 * threshold <= e.best + Rounded
                    ELSE 200 * (100 * threshold) <= 201 * (e.best + Rounded)

=============================================================================

------------------------------ MODULE Ranking ------------------------------
(***************************************************************************)
(* Who is ranked, as the queries of the service (GetTop21) and of the site *)
(* (getLeaderboard, getMinerStats, getExtendedPoolStats) compute it from   *)
(* the shares table, and what the pages make of the answers.               *)
(*                                                                         *)
(* A row of the table is [address, round, diff, at]: diff is its           *)
(* true_difficulty in hundredths, which is what the gateway writes it with *)
(* (%.2f, datum_reward_socket.c:370), at its submitted_at. Maxima and gaps *)
(* do not change with equal rows, so the table is a set. The best of a row *)
(* of an answer is alltime_best, which orders it; nobody reads the         *)
(* best_share GetTop21 makes of it. The hashrate, the rental mark and the  *)
(* number of shares of a row of the leaderboard are left out, and so is    *)
(* is_stale, which no statement ever sets.                                 *)
(***************************************************************************)
EXTENDS Integers, FiniteSetsExt

CONSTANTS
    Week,       \* INTERVAL '7 days'
    Slots,      \* MAX_RANKED_SLOTS, 21
    PageRows,   \* the leaderboard page's limit, 100
    Steps       \* the hundredths of KH, MH and so on that best shares are printed in

ASSUME WindowAssumption == Week \in Nat \ {0}
ASSUME RowsAssumption == Slots \in Nat \ {0} /\ PageRows \in Nat /\ Slots <= PageRows
ASSUME StepsAssumption == Steps \subseteq Nat \ {0} /\ 10 \in Steps

RoundRows(shares, round) == {s \in shares : s.round = round}
Of(rows, a) == {s \in rows : s.address = a}

Recent(rows, now) == {s \in rows : s.at > now - Week}

BestOf(rows) == Max({s.diff : s \in rows})
LastSeen(rows) == Max({s.at : s \in rows})

-----------------------------------------------------------------------------
(* The ranking: WITH recent, gaps, session_starts, alltime *)

\* One miner's shares that come more than a week after his share before (LAG).
SessionStarts(mine) ==
    {s \in mine :
        /\ \E p \in mine : p.at < s.at
        /\ \A p \in mine : p.at < s.at => s.at - p.at > Week}

\* Mutated form of Session: all shares of the round count for ever.
WholeRound(mine) == mine

\* His shares since the last of them, or since -infinity.
Session(mine) == {s \in mine : \A t \in SessionStarts(mine) : s.at >= t.at}

\* Mutated form of Standings: the best share of the last seven days and no more.
StandingsOfSevenDays(shares, round, now) ==
    LET recent == Recent(RoundRows(shares, round), now)
    IN  {[address |-> a, best |-> BestOf(Of(recent, a)), lastSeen |-> LastSeen(Of(recent, a))] :
            a \in {s.address : s \in recent}}

\* recent JOIN alltime: who was seen in the last week, with the best share of his session.
Standings(shares, round, now) ==
    LET rows == RoundRows(shares, round)
        recent == Recent(rows, now)
    IN  {[address |-> a, best |-> BestOf(Session(Of(rows, a))), lastSeen |-> LastSeen(Of(recent, a))] :
            a \in {s.address : s \in recent}}

\* RANK() OVER (ORDER BY alltime_best DESC)
RankIn(e, standings) == 1 + Cardinality({f \in standings : f.best > e.best})

\* The answers ORDER BY alltime_best DESC LIMIT n may have: it does not say who of
\* several miners with the same best share comes first.
Firsts(standings, n) ==
    LET size == IF Cardinality(standings) < n THEN Cardinality(standings) ELSE n
    IN  {top \in SUBSET standings :
            /\ Cardinality(top) = size
            /\ \A e \in top, f \in standings \ top : e.best >= f.best}

Ranked(top, standings) ==
    {[address |-> e.address, best |-> e.best, rank |-> RankIn(e, standings)] : e \in top}

\* leaderboard.Service.GetTop21: whom the next coinbase pays.
GetTop21(shares, round, now) ==
    LET standings == Standings(shares, round, now)
    IN  {Ranked(top, standings) : top \in Firsts(standings, Slots)}

-----------------------------------------------------------------------------
(* The site's queries *)

GetLeaderboard(limit, shares, round, now) ==
    LET standings == Standings(shares, round, now)
    IN  {Ranked(top, standings) : top \in Firsts(standings, limit)}

\* The first of getMinerStats' three queries, the ranking again and one row of it, or none.
MinerStats(a, shares, round, now) ==
    LET standings == Standings(shares, round, now)
    IN  {[rank |-> RankIn(e, standings), best |-> e.best, lastSeen |-> e.lastSeen] :
            e \in {f \in standings : f.address = a}}

\* best_per_address: unlike the ranking's, of the last seven days and no more.
BestPerAddress(shares, round, now) ==
    LET recent == Recent(RoundRows(shares, round), now)
    IN  {[address |-> a, best |-> BestOf(Of(recent, a))] : a \in {s.address : s \in recent}}

\* Mutated form of RoundToWhole: a fraction is rounded up.
RoundUp(hundredths) == (hundredths + 99) \div 100

\* ROUND(...)::BIGINT of hundredths: to the nearest whole number, and from the middle
\* between two to the even one, as it is for a double. Whole numbers stay as they are.
RoundToWhole(hundredths) ==
    LET whole == hundredths \div 100
        rest == hundredths % 100
    IN  IF rest > 50 \/ (rest = 50 /\ whole % 2 = 1) THEN whole + 1 ELSE whole

\* getExtendedPoolStats' min_top21, a whole number; 0 is NULL.
MinTop21(shares, round, now) ==
    LET best == BestPerAddress(shares, round, now)
        first == {e \in best : RankIn(e, best) <= Slots}
    IN  IF first = {} THEN 0 ELSE RoundToWhole(Min({e.best : e \in first}))

-----------------------------------------------------------------------------
(* The pages *)

\* Mutated form of PaidRows: the last of them is below the line.
PaidRowsButLast(entries) == {e \in entries : e.rank < Slots}

\* LeaderboardPage: the rows above the line, the open slots that fill them up, and the
\* rows below it.
PaidRows(entries) == {e \in entries : e.rank <= Slots}
OpenSlots(entries) == Max({0, Slots - Cardinality(PaidRows(entries))})
UnpaidRows(entries) == {e \in entries : e.rank > Slots}

\* HomePage asks for as many rows as there are slots, and counts them.
SlotsFilled(entries) == Cardinality(entries)

\* What formatBestShare may print for a whole number: below a thousand itself, and two
\* decimals of the greatest of its units from there on. In the middle between two
\* of them it is the binary form of the quotient that decides (toFixed).
FormatBestShare(n) ==
    IF n < 1000 THEN {n}
    ELSE UNION {{t \in (n - s) .. (n + s) : t % s = 0 /\ 2 * t \in (2 * n - s) .. (2 * n + s)} :
            s \in {s \in Steps : 100 * s <= n /\ \A r \in Steps : 100 * r <= n => r <= s}}

\* StatsPage: "Min Share to Enter Top 21", of no difficulty ("Any share") without one.
MinShareToEnter(minTop21) == IF minTop21 # 0 THEN FormatBestShare(minTop21) ELSE {}

\* timeUntilExpiry; 0 is "Expired".
TimeUntilExpiry(lastSeen, now) == Max({0, lastSeen + Week - now})

\* MinerDetailPage: the card of a ranked miner; without one he is on no leaderboard.
MinerCard(stats, now) ==
    {[best |-> e.best, expiresIn |-> TimeUntilExpiry(e.lastSeen, now)] : e \in stats}

=============================================================================

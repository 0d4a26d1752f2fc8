--------------------------- MODULE CoinbaseSplit ---------------------------
(***************************************************************************)
(* How a block reward is divided: coinbase.BuildOutputs for the shared     *)
(* pool, the two outputs of the solo pool, and the amounts buildSnapshot   *)
(* stores with a found block. All amounts are satoshis.                    *)
(*                                                                         *)
(* int64(float64(total) * 0.021) is modelled by the exact floor of the     *)
(* product: the double nearest to 0.021 lies above it, and for any total   *)
(* below 10^13 satoshis the rounding error is far less than 1/1000. It is  *)
(* computed in two parts because TLC's integers have 32 bits.              *)
(***************************************************************************)
EXTENDS Integers, Sequences

CONSTANTS
    MaxRankedSlots,     \* 21
    FinderPerMille,     \* FinderPercent, in thousandths: 21
    PoolFeePerMille,    \* PoolFeePercent, in thousandths: 21
    SoloFeePerMille,    \* SoloFeePercent, in thousandths: 10
    PoolFeeAddress

ASSUME SlotsAssumption == MaxRankedSlots \in Nat \ {0}
ASSUME PercentAssumption ==
    /\ FinderPerMille \in Nat /\ PoolFeePerMille \in Nat /\ SoloFeePerMille \in Nat
    /\ FinderPerMille + PoolFeePerMille <= 1000 /\ SoloFeePerMille <= 1000

\* The subsidy as the service, the gateway and the site have it; only the subsidy-only
\* coinbase reckons it from the height.
SubsidySats == 312500000

\* floor(total * perMille / 1000)
Cut(total, perMille) ==
    perMille * (total \div 1000) + (perMille * (total % 1000)) \div 1000

FinderAmount(total) == Cut(total, FinderPerMille)
PoolFeeBase(total) == Cut(total, PoolFeePerMille)
Remaining(total) == total - FinderAmount(total) - PoolFeeBase(total)
PerSlot(total) == Remaining(total) \div MaxRankedSlots

\* Mutated form of Dust: the remainder of the division is forgotten.
NoDust(total) == 0

Dust(total) == Remaining(total) - PerSlot(total) * MaxRankedSlots

\* Mutated form of FilledSlots: more than MaxRankedSlots miners are paid.
AllFilled(rankedCount) == rankedCount

FilledSlots(rankedCount) ==
    IF rankedCount > MaxRankedSlots THEN MaxRankedSlots ELSE rankedCount

PoolFeeOut(total, rankedCount) ==
    PoolFeeBase(total) + PerSlot(total) * (MaxRankedSlots - FilledSlots(rankedCount)) + Dust(total)

-----------------------------------------------------------------------------
(* Output lists *)

Output(address, amount) == [address |-> address, amount |-> amount]

\* The finder, the ranked miners in rank order, the pool.
BuildOutputs(miner, total, ranked) ==
    <<Output(miner, FinderAmount(total))>>
    \o [i \in 1 .. FilledSlots(Len(ranked)) |-> Output(ranked[i], PerSlot(total))]
    \o <<Output(PoolFeeAddress, PoolFeeOut(total, Len(ranked)))>>

\* solo.Handler.GetCoinbaseOutputs.
SoloOutputs(miner, total) ==
    <<Output(miner, total - Cut(total, SoloFeePerMille)),
      Output(PoolFeeAddress, Cut(total, SoloFeePerMille))>>

\* buildSnapshot's entries, rank by rank, of the subsidy and the fees that were reported.
Snapshot(feesSats, ranked) ==
    LET total == SubsidySats + feesSats
    IN  [i \in 1 .. Len(ranked) |-> Output(ranked[i], PerSlot(total))]

\* The site's own division of the reward, which it shows as an estimate.
CalcPayouts(subsidy, fees) ==
    LET total == subsidy + fees
        finder == Cut(total, FinderPerMille)
        poolFee == Cut(total, PoolFeePerMille)
    IN  [finder |-> finder, poolFee |-> poolFee,
         perSlot |-> (total - finder - poolFee) \div MaxRankedSlots]

=============================================================================

------------------------------ MODULE Coinbase ------------------------------
(***************************************************************************)
(* From a reward to a coinbase: CoinbaseSplit's outputs, asked for through *)
(* RewardSocket, written by CoinbaseLayout. A request names a miner, a     *)
(* reward, how many miners are ranked, and what the coinbase is written    *)
(* for: tags, template, type of firmware. Some of the gateway's calls are  *)
(* still to be made; the others are over.                                  *)
(***************************************************************************)
EXTENDS CoinbaseSplit, RewardSocket, SequencesExt

CONSTANTS
    SizeLimit, WeightLimit,
    Requests,
    ScriptLen(_, _)   \* of an address, for a kind of addresses; 0: it has no script

\* A miner is named by his rank, or is not ranked. The tags are the lengths of two
\* strings; "one tag should never exceed 64 bytes" (datum_coinbaser.c:118), and the code
\* needs the first one to be shorter than 84. The unique id is pushed with or without
\* a prime id. The template is the size and the weight of its transactions. A script has
\* at most the 64 bytes the gateway gives it (datum_coinbaser.c:888) and at least the 21
\* without which it would not stop looking at a room of less than 30 (line 226).
ASSUME RequestsAssumption ==
    \A r \in Requests :
        /\ r.total \in Nat /\ r.ranked \in Nat
        /\ r.tags \in (0 .. 83) \X Nat /\ r.uidLen \in {4, 8}
        /\ r.template \in Nat \X Nat /\ r.type \in 0 .. 5
        /\ r.calls \subseteq Calls
        /\ \A a \in {PoolFeeAddress, r.miner} \cup 1 .. r.ranked :
              ScriptLen(a, r.scripts) \in {0} \cup 21 .. 64

ASSUME LimitsAssumption == SizeLimit \in Nat /\ WeightLimit \in Nat

\* The number of outputs is written as one byte; the service has 21 slots.
ASSUME OutputsAssumption == MaxRankedSlots <= 246

\* The gateway asks for the job's outputs and for the miner's own; the pool is not
\* ranked.
ASSUME CoinbaseAssumption ==
    /\ {"job", "miner"} \subseteq {c \in Calls \ BadNames : kindOf[c] = "coinbase"}
    /\ PoolFeeAddress \notin Nat \ {0}

VARIABLES
    request,
    outputs,     \* BuildOutputs' answer for the request's miner
    generated,   \* whether the following are
    job,         \* the stratum job, with the outputs of the pool's own request
    paying,      \* the bytes its type has for outputs
    coinbases    \* its coinbases for the request's type

coinbaseVars == <<generated, job, paying, coinbases>>
allVars == <<request, outputs, coinbaseVars, vars>>

Layout == INSTANCE CoinbaseLayout

\* The fees that datum_reward_block_found reports with every block.
ReportedFees == 0

-----------------------------------------------------------------------------

RankedIn(r) == [i \in 1 .. r.ranked |-> i]
Divided(r) == BuildOutputs(r.miner, r.total, RankedIn(r))

\* What the service divides for a block: the subsidy it knows and the fees it is told,
\* which is what the block's value exceeds that subsidy by.
Asked(value) == IF value > SubsidySats THEN value ELSE SubsidySats

\* What the gateway is sent for a miner.
Sent(r, miner) ==
    LET divided == BuildOutputs(miner, Asked(r.total), RankedIn(r))
    IN  [i \in DOMAIN divided |->
            [value |-> divided[i].amount,
             scriptLen |-> ScriptLen(divided[i].address, r.scripts)]]

\* Without an answer there are none.
Answered(c, sent) == IF answer[c] = "ok" THEN sent ELSE <<>>

JobOf(r) ==
    Layout!JobWithOutputs(
        [inputLen |-> Layout!InputLen(4, r.tags, r.uidLen),
         value |-> r.total, poolLen |-> 22, outputs |-> <<>>,
         txSize |-> r.template[1], txWeight |-> r.template[2]],
        Answered("job", Sent(r, PoolFeeAddress)))

\* A miner without a coinb2 of its own is sent the job's.
PersonalOf(j, r) ==
    IF answer["miner"] = "ok"
    THEN Layout!PersonalCoinbase(j, r.type, Sent(r, r.miner))
    ELSE Layout!SharedCoinbase(j, r.type)

\* The calls that have been made are over and were answered, but for those that are not
\* answered ever.
Unanswered(c) == c \in request.calls \cup BadNames

CoinbaseInit ==
    /\ request \in Requests
    /\ outputs = Divided(request)
    /\ generated = FALSE /\ job = <<>> /\ coinbases = <<>> /\ paying = 0
    /\ call = [c \in Calls |-> IF c \in request.calls THEN "none" ELSE "returned"]
    /\ answer = [c \in Calls |-> IF Unanswered(c) \/ kindOf[c] = "share" THEN "none" ELSE "ok"]
    /\ server = [c \in Calls |-> IF c \in request.calls THEN "none" ELSE "closed"]
    /\ lines = [c \in Calls |-> 0] /\ reply = [c \in Calls |-> "none"] /\ tasks = {}
    /\ handled = [c \in Calls |-> IF Unanswered(c) THEN 0 ELSE 1]
    /\ up = TRUE /\ stops = IF request.calls = {} THEN MaxStops ELSE 0

Generate ==
    /\ ~generated /\ call["job"] = "returned" /\ call["miner"] = "returned"
    /\ generated' = TRUE
    /\ job' = JobOf(request)
    /\ coinbases' = [shared |-> Layout!SharedCoinbase(job', request.type),
                     personal |-> PersonalOf(job', request),
                     subsidy |-> Layout!SubsidyOnly(job', SubsidySats),
                     empty |-> Layout!EmptyCoinbase(job')]
    /\ paying' = Layout!FitToTemplate(job', request.type)
    /\ UNCHANGED <<request, outputs, vars>>

SocketStep == Next /\ UNCHANGED <<request, outputs, coinbaseVars>>

Finished == generated /\ (\A c \in Calls : call[c] = "returned") /\ UNCHANGED allVars

CoinbaseNext == Generate \/ SocketStep \/ Finished

CoinbaseSpec == CoinbaseInit /\ [][CoinbaseNext]_allVars

\* The gateway's calls go on.
FairCoinbaseSpec == CoinbaseSpec /\ Fairness

-----------------------------------------------------------------------------

Amounts(outs) == [i \in DOMAIN outs |-> outs[i].amount]
SumOf(outs) == SumFunction(Amounts(outs))
PaidTo(a, outs) ==
    SumFunctionOnSet(Amounts(outs), {i \in DOMAIN outs : outs[i].address = a})

Transaction(coinbase) == coinbase.coinb1 \o coinbase.coinb2
TotalOf(coinbase) ==
    LET tx == Transaction(coinbase)
    IN  SumFunctionOnSet([i \in DOMAIN tx |-> tx[i].value],
                         {i \in DOMAIN tx : tx[i].kind = "output"})
BytesOf(coinbase) ==
    LET tx == Transaction(coinbase)
    IN  12 + SumFunction([i \in DOMAIN tx |-> tx[i].bytes])

\* An input, a sequence number, a count and as many outputs, a lock time; and the
\* extranonce goes into the input or into an output of its own, once.
IsTransaction(coinbase) ==
    LET tx == Transaction(coinbase)
        n == Len(tx)
        last == coinbase.coinb1[Len(coinbase.coinb1)].kind
        OfKind(kind) == {i \in DOMAIN tx : tx[i].kind = kind}
    IN  /\ tx[1].kind \in {"open_input", "input"}
        /\ OfKind("sequence") = {2} /\ OfKind("count") = {3} /\ OfKind("locktime") = {n}
        /\ tx[3].value = n - 4
        /\ OfKind("extranonce") = IF tx[1].kind = "input" THEN {Len(coinbase.coinb1)} ELSE {}
        /\ last \in {"open_input", "extranonce"}

\* Type 0 was continued behind the finished empty coinbase.
Garbled ==
    request.type = 0 /\ ~Layout!SpaceForExtranonce(job) /\ job.outputs # <<>>

-----------------------------------------------------------------------------
(* The division of the reward *)

\* What BuildOutputs checks before it returns, and panics on: the outputs of a
\* template sum to the reward exactly, and none is negative; and so do the solo pool's.
SumIsExact ==
    \A outs \in {outputs, SoloOutputs(request.miner, request.total)} :
        /\ SumOf(outs) = request.total
        /\ \A i \in DOMAIN outs : outs[i].amount >= 0

\* However long the leaderboard is, each of the first 21 gets the same amount,
\* the finder his bonus on top of it, nobody further down anything, and the pool
\* with a full leaderboard no more than its fee and less than 21 satoshis. The list stored
\* with the block, if made from the same leaderboard (of at most 21 miners, GetTop21's
\* limit), names those whom the service had paid, in their order, and nobody with more
\* than he was paid; nor does the site's estimate promise more. Both leave out the fees.
EachIsPaidHisShare ==
    LET total == request.total
        Bonus(a) == IF a = request.miner THEN FinderAmount(total) ELSE 0
    IN  /\ \A i \in 1 .. request.ranked :
              PaidTo(i, outputs) =
                  Bonus(i) + IF i <= MaxRankedSlots THEN PerSlot(total) ELSE 0
        /\ request.ranked >= MaxRankedSlots /\ request.miner # PoolFeeAddress =>
              PaidTo(PoolFeeAddress, outputs) - PoolFeeBase(total) \in 0 .. MaxRankedSlots - 1
        /\ total >= SubsidySats =>
              \A i \in 1 .. Len(outputs) - 2 :
                  /\ CalcPayouts(SubsidySats, 0).perSlot <= outputs[i + 1].amount
                  /\ request.ranked <= MaxRankedSlots =>
                        LET stored == Snapshot(ReportedFees, RankedIn(request))[i]
                        IN  /\ stored.address = outputs[i + 1].address
                            /\ stored.amount <= outputs[i + 1].amount

-----------------------------------------------------------------------------
(* The coinbase *)

\* However long the configured tags are, the input declares the length of what it
\* pushes, and stays below the hundred bytes of a coinbase input, with the
\* extranonce's fifteen if they go there.
InputIsValid ==
    generated =>
    LET fitted == Layout!TagsFitted(request.tags)
        en == IF Layout!SpaceForExtranonce(job) THEN 15 ELSE 0
    IN  /\ Layout!TagBytes(fitted.tags) = fitted.k
        /\ job.inputLen + en <= 100

\* The shared coinbase of every type reads as one transaction, whatever outputs
\* fitted and wherever coinb1 ends: the declared count, written before the
\* outputs are, is the number of outputs. Not so type 0 when the input has no room
\* for the extranonce and there are outputs (Garbled): it is written behind the empty one.
SharedIsTransaction ==
    generated =>
    /\ IsTransaction(coinbases.empty) /\ IsTransaction(coinbases.subsidy)
    /\ ~Garbled => IsTransaction(coinbases.shared)

\* The shared coinbase pays the reward to the satoshi, whatever outputs were left
\* out for space or for an address nobody can be paid at, and if the service divided
\* more than the block is worth; and when all of them fit, everyone who is owed a satoshi
\* is paid it, in the service's order. When the service does not answer the pool's
\* address is paid it all.
SharedPaysTheReward ==
    generated =>
    LET outs == job.outputs
        tx == Transaction(coinbases.shared)
        cost == SumFunction([k \in DOMAIN outs |-> outs[k].scriptLen + 9])
        owed == Layout!Written(Layout!Picked(outs, {k \in DOMAIN outs : outs[k].value > 0}))
        paid == Layout!Picked(tx, {i \in DOMAIN tx : tx[i].kind = "output" /\ tx[i].value > 0})
    IN  ~Garbled =>
          /\ TotalOf(coinbases.shared) = request.total
          /\ cost <= paying /\ request.total >= SubsidySats => IsPrefix(owed, paid)
          /\ answer["job"] = "none" /\ request.total > 0 =>
                paid = <<Layout!Output(request.total, job.poolLen)>>

\* A type's maximum is exceeded by no more than the eighteen bytes that the code's
\* sum of fixed parts leaves out (the signet commitment and three more), and a
\* block that pays any miner exceeds the template's weight by no more than those.
OverrunIsBounded ==
    generated =>
    LET bytes == BytesOf(coinbases.shared)
    IN  ~Garbled =>
          /\ bytes <= Layout!MaxSize[request.type] + 18
          /\ \/ paying < 31 \/ job.outputs = <<>>
             \/ 4 * (80 + 3 + bytes) + 36 + request.template[2] <= WeightLimit + 64

\* A miner's own coinbase is a transaction that pays the reward to the satoshi, whatever
\* the service divided, and the bonus first to the miner if there is one and he can be
\* paid; whichever of the two requests was answered. Not so behind type 2's coinb1, and
\* not when the input has no room for the extranonce: coinb1 then counts the outputs
\* that the job had room for, or none.
PersonalPaysTheReward ==
    LET tx == Transaction(coinbases.personal)
        bonus == Layout!Output(FinderAmount(request.total), ScriptLen(request.miner, request.scripts))
    IN  generated /\ request.type # 2 /\ Layout!SpaceForExtranonce(job) =>
          /\ IsTransaction(coinbases.personal)
          /\ TotalOf(coinbases.personal) = request.total
          /\ answer["miner"] = "ok" /\ request.total >= SubsidySats
               /\ bonus.value > 0 /\ bonus.bytes > 9 => tx[4] = bonus

\* What the comment on datum_generate_personal_coinb2 says, its layout "is inferred
\* from the already-built shared coinb2[0]": with any type's coinb1 it makes a
\* transaction.
PersonalIsTransaction ==
    generated /\ ~Garbled => IsTransaction(coinbases.personal)

=============================================================================

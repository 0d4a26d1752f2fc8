--------------------------- MODULE CoinbaseLayout ---------------------------
(***************************************************************************)
(* How the gateway writes a coinbase transaction around the extranonce     *)
(* (datum_coinbaser.c): coinb1, which the miner puts before its twelve     *)
(* bytes, and coinb2, which it puts after them, for six kinds of firmware  *)
(* ("types" 0 to 5), and the coinb2 of one miner's own.                    *)
(*                                                                         *)
(* A coinbase is a sequence of parts; a part is a stretch of bytes with a  *)
(* meaning. The bytes are counted and not written out. A job is a record:  *)
(*   inputLen                       cb_input_sz, see InputLen              *)
(*   value, poolLen                 coinbase_value, pool_addr_script_len   *)
(*   outputs                        available_coinbase_outputs             *)
(*   txSize, txWeight               of the template's transactions         *)
(***************************************************************************)
EXTENDS Integers, SequencesExt

CONSTANTS
    SizeLimit, WeightLimit   \* the template's limits

Types == 0 .. 5

\* max_sz of each type.
MaxSize == [t \in Types |->
    CASE t \in {0, 1} -> 500 [] t = 2 -> 755 [] t = 3 -> 6500 [] t = 4 -> 16000 [] t = 5 -> 2250]

\* The elements at some places of a sequence, in their order.
Picked(s, places) ==
    LET picked[k \in 0 .. Len(s)] ==
            IF k = 0 THEN <<>>
            ELSE IF k \in places THEN Append(picked[k - 1], s[k]) ELSE picked[k - 1]
    IN  picked[Len(s)]

Part(kind, bytes, value) == [kind |-> kind, bytes |-> bytes, value |-> value]

VarIntLen(n) == IF n < 253 THEN 1 ELSE 3

Sequence == Part("sequence", 4, 0)
Count(n) == Part("count", VarIntLen(n), n)
Output(value, scriptLen) == Part("output", 8 + 1 + scriptLen, value)
Extranonce == Part("extranonce", 8 + 1 + 2 + 2, 0)
DeadOutput == Output(0, 3)
Witness == Output(0, 38)
Signet == Output(0, 6)
LockTime == Part("locktime", 4, 0)

-----------------------------------------------------------------------------
(* The coinbase input *)

MaxTagSpace == 86

\* The space the two tags and their separators want.
TagsWanted(tags) ==
    IF tags[2] > 0 THEN tags[1] + tags[2] + 2 ELSE IF tags[1] > 0 THEN tags[1] + 1 ELSE 0

Excess(tags) == TagsWanted(tags) - MaxTagSpace

\* Mutated form of TagsFitted: the length is not changed with the tag.
TagsFittedStaleLength(tags) ==
    IF Excess(tags) <= 0 THEN [tags |-> tags, k |-> TagsWanted(tags)]
    ELSE [tags |-> <<tags[1], tags[2] - Excess(tags)>>, k |-> TagsWanted(tags)]

\* The second tag is shortened, or removed. k is the length that is pushed.
TagsFitted(tags) ==
    IF Excess(tags) <= 0 THEN [tags |-> tags, k |-> TagsWanted(tags)]
    ELSE IF tags[2] > Excess(tags)
         THEN [tags |-> <<tags[1], tags[2] - Excess(tags)>>, k |-> MaxTagSpace]
         ELSE [tags |-> <<tags[1], 0>>,
               k |-> TagsWanted(tags) - IF tags[2] > 0 THEN 1 ELSE 0]

\* The bytes written after the push: tag 0F tag 00, 0F tag 00, or tag 00.
TagBytes(tags) ==
    (IF tags[1] > 0 THEN tags[1] + 1 ELSE IF tags[2] > 0 THEN 1 ELSE 0)
    + (IF tags[2] > 0 THEN tags[2] + 1 ELSE 0)

\* cb_input_sz: the height, the tags' push (or an empty one), the unique id.
InputLen(heightLen, tags, uidLen) ==
    LET f == TagsFitted(tags)
        push == IF f.k = 0 THEN 2 ELSE (IF f.k <= 75 THEN 1 ELSE 2) + TagBytes(f.tags)
    IN  heightLen + push + uidLen

SpaceForExtranonce(job) == job.inputLen <= 85

\* The version, the previous output, the length and the input; with room for the
\* extranonce's push inside it, the input stays open.
OpenInput(job) == Part("open_input", 41 + 1 + job.inputLen + 3, 0)
ClosedInput(job) == Part("input", 41 + 1 + job.inputLen, 0)

\* coinb1 as every type starts it. Only type 2 never has room.
Start(job, t) ==
    IF t # 2 /\ SpaceForExtranonce(job) THEN <<OpenInput(job)>>
    ELSE <<ClosedInput(job), Sequence>>

-----------------------------------------------------------------------------
(* The end of every coinbase, and the empty one *)

\* Mutated form of Rest: the pool is paid as in the empty coinbase.
RestPaysAll(job, paid) ==
    <<IF job.value > paid THEN Output(job.value, job.poolLen) ELSE DeadOutput,
      Witness, Signet, LockTime>>

\* The pool takes what is left, or a dead output its place.
Rest(job, paid) ==
    <<IF job.value > paid THEN Output(job.value - paid, job.poolLen) ELSE DeadOutput,
      Witness, Signet, LockTime>>

Coinbase(coinb1, coinb2) == [coinb1 |-> coinb1, coinb2 |-> coinb2]

\* Type 0, "empty": the pool is paid everything.
EmptyCoinbase(job) ==
    IF SpaceForExtranonce(job)
    THEN Coinbase(Start(job, 0), <<Sequence, Count(3)>> \o Rest(job, 0))
    ELSE Coinbase(Start(job, 0) \o <<Count(4), Extranonce>>, Rest(job, 0))

\* subsidy_only_coinbase: the pool alone, and no commitments.
SubsidyOnly(job, subsidy) ==
    LET pay == <<Output(subsidy, job.poolLen), LockTime>>
    IN  IF SpaceForExtranonce(job)
        THEN Coinbase(Start(job, 0), <<Sequence, Count(1)>> \o pay)
        ELSE Coinbase(Start(job, 0) \o <<Count(2), Extranonce>>, pay)

-----------------------------------------------------------------------------
(* Choosing the outputs that fit *)

\* addr_2_output_script knows no script for the address: a length of 0.
Convertible(o) == o.scriptLen > 0

\* datum_coinbaser_thread: the service's outputs become the job's.
JobWithOutputs(job, outputs) ==
    [job EXCEPT !.outputs = Picked(outputs, {k \in DOMAIN outputs : Convertible(outputs[k])})]

\* cb_req_sz: what the comment above it counts as the bytes of the fixed parts.
FixedBytes(job, t) ==
    119 + job.poolLen + job.inputLen
    + (IF t = 2 \/ ~SpaceForExtranonce(job) THEN 10 ELSE 0)

\* Mutated form of FitToTemplate: the fixed parts are not counted.
FitForgetsFixed(job, t) == MaxSize[t]

\* datum_stratum_coinbase_fit_to_template: the bytes left for outputs.
FitToTemplate(job, t) ==
    LET fixed == FixedBytes(job, t)
        all == MaxSize[t] + fixed
        bySize == SizeLimit - (job.txSize + 85 + 36) - fixed
        byWeight == (WeightLimit - (job.txWeight + 340 + 36)) \div 4 - fixed
        tooBig == all + job.txSize + 85 + 36 > SizeLimit
        tooHeavy == 4 * all + job.txWeight + 340 + 36 > WeightLimit
        room == IF tooHeavy THEN byWeight ELSE IF tooBig THEN bySize ELSE all
    IN  IF (tooBig /\ bySize < 0) \/ (tooHeavy /\ byWeight < 0) THEN 0
        ELSE IF room < MaxSize[t] - fixed THEN room ELSE MaxSize[t] - fixed

\* uint64 arithmetic: an amount of -1 wraps the sum, or exceeds every value.
StaysWithin(sum, job) == sum \in 0 .. job.value

\* What one more output makes of a pass over the list. chosen holds places in the list;
\* leading counts the outputs that special_coinb1 takes into coinb1.
Visited(job, k, p) ==
    LET o == job.outputs[k]
        cost == o.scriptLen + 9
        leads == ~p.leadFull /\ cost <= p.leadRoom
    IN  IF p.over \/ cost > p.room \/ ~StaysWithin(p.sum + o.value, job) THEN p
        ELSE [chosen |-> p.chosen \cup {k},
              room |-> p.room - cost,
              sum |-> p.sum + o.value,
              leading |-> p.leading + (IF leads THEN 1 ELSE 0),
              leadRoom |-> p.leadRoom - (IF leads THEN cost ELSE 0),
              leadFull |-> ~leads,
              over |-> p.room - cost < 30 \/ p.sum + o.value >= job.value]

\* The code makes the pass twice, to count the outputs and to write them, and stops the
\* second time at the same place: the count it stops at has been raised by then and is
\* never used up.
Scan(job, room, leadRoom) ==
    LET scan[k \in 0 .. Len(job.outputs)] ==
            IF k = 0
            THEN [chosen |-> {}, room |-> room, sum |-> 0, leading |-> 0,
                  leadRoom |-> leadRoom, leadFull |-> FALSE, over |-> FALSE]
            ELSE Visited(job, k, scan[k - 1])
    IN  scan[Len(job.outputs)]

-----------------------------------------------------------------------------
(* generate_coinbase_txns_for_stratum_job_subtypebysize *)

\* Half of what is left of 300 hex digits after coinb1's start (46 bytes and the input).
LeadRoom(job) ==
    LET half == (300 - 2 * (46 + job.inputLen)) \div 2 IN IF half < 0 THEN 0 ELSE half

\* Mutated form of OutputCount: the signet commitment is forgotten.
OutputCountNoSignet(n, enInInput) == n + (IF enInInput THEN 2 ELSE 3)

\* The pool or dead output, the two commitments, and the extranonce's output.
OutputCount(n, enInInput) == n + (IF enInInput THEN 3 ELSE 4)

Written(outputs) ==
    [i \in DOMAIN outputs |-> Output(outputs[i].value, outputs[i].scriptLen)]

\* An output goes to coinb1 by its place in the list, not among the chosen ones.
LeadingOutputs(k, leading) == k <= leading

\* coinb1 and coinb2 are continued where they are: "from" is the coinbase so far.
SubtypeBySize(job, t, from) ==
    LET special == t = 2
        enInInput == ~special /\ SpaceForExtranonce(job)
        scan == Scan(job, FitToTemplate(job, t), IF special THEN LeadRoom(job) ELSE 0)
        count == Count(OutputCount(Cardinality(scan.chosen), enInInput))
        leads == {k \in scan.chosen : special /\ LeadingOutputs(k, scan.leading)}
        Those(places) == Written(Picked(job.outputs, places))
        trail == Those(scan.chosen \ leads) \o Rest(job, scan.sum)
    IN  IF enInInput
        THEN Coinbase(from.coinb1, <<Sequence, count>> \o trail)
        ELSE Coinbase(from.coinb1 \o <<count>> \o Those(leads) \o <<Extranonce>>,
                      from.coinb2 \o trail)

\* generate_coinbase_txns_for_stratum_job: type 0 is begun as the empty coinbase
\* and then continued, the others are begun with their first parts. Without
\* outputs every type is the empty coinbase.
SharedCoinbase(job, t) ==
    IF job.outputs = <<>> THEN EmptyCoinbase(job)
    ELSE SubtypeBySize(job, t,
             IF t = 0 THEN EmptyCoinbase(job) ELSE Coinbase(Start(job, t), <<>>))

-----------------------------------------------------------------------------
(* datum_generate_personal_coinb2 *)

SumOfValues(outputs) == SumFunction([k \in DOMAIN outputs |-> outputs[k].value])

\* An output is left out when its amount is not positive or its address has no
\* script.
Payable(o) == o.value > 0 /\ Convertible(o)
Paid(outputs) == Picked(outputs, {k \in DOMAIN outputs : Payable(outputs[k])})

NoCoinb2 == <<>>

\* Mutated form of PersonalCoinb2: the output for the rest is not counted.
PersonalCountsPaid(job, outputs) ==
    LET paid == Paid(outputs)
        enInInput == Head(SharedCoinbase(job, 0).coinb2) = Sequence
        head == IF enInInput THEN <<Sequence, Count(Len(paid) + 2)>> ELSE <<>>
    IN  IF paid = <<>> \/ SumOfValues(paid) > job.value THEN NoCoinb2
        ELSE head \o Written(paid) \o Rest(job, SumOfValues(paid))

\* The miner's own outputs; NoCoinb2 where the caller must fall back.
PersonalCoinb2(job, outputs) ==
    LET paid == Paid(outputs)
        enInInput == Head(SharedCoinbase(job, 0).coinb2) = Sequence
        head == IF enInInput THEN <<Sequence, Count(Len(paid) + 3)>> ELSE <<>>
    IN  IF paid = <<>> \/ SumOfValues(paid) > job.value THEN NoCoinb2
        ELSE head \o Written(paid) \o Rest(job, SumOfValues(paid))

\* What a miner of a type is sent and its shares are rebuilt from.
PersonalCoinbase(job, t, outputs) ==
    LET personal == PersonalCoinb2(job, outputs)
    IN  IF personal = NoCoinb2 THEN SharedCoinbase(job, t)
        ELSE Coinbase(SharedCoinbase(job, t).coinb1, personal)

=============================================================================

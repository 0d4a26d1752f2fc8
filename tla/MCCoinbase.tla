----------------------------- MODULE MCCoinbase -----------------------------
(***************************************************************************)
(* A grid of rewards, leaderboards, jobs and types of firmware has its     *)
(* answers already; a few requests go through the socket, and so do        *)
(* reports of shares and blocks.                                           *)
(***************************************************************************)
EXTENDS Coinbase

\* The coinbaser thread asks for the job's outputs, the stratum server for a miner's
\* own; it reports a share, a block, and a block whose finder has a strange name.
CallsMade == {"job", "miner", "share", "block", "strange"}
StrangeNames == {"strange"}
KindOf == [c \in CallsMade |->
    CASE c \in {"job", "miner"} -> "coinbase"
      [] c = "share" -> "share"
      [] c \in {"block", "strange"} -> "block_found"]

\* Miner i is ranked i-th; 99 is never ranked; 0 is the pool.
Finders == {99, 1, 2, 22, PoolFeeAddress}

\* Witness programs of 22 bytes, Taproot, and a mixture in which the second
\* miner's address is none the gateway knows.
Scripts == {"segwit", "taproot", "mixed"}
ScriptLength(a, scripts) ==
    CASE a = PoolFeeAddress -> 22
      [] a # PoolFeeAddress /\ scripts = "segwit" -> 22
      [] a # PoolFeeAddress /\ scripts = "taproot" -> 34
      [] a # PoolFeeAddress /\ scripts = "mixed" -> IF a = 2 THEN 0 ELSE IF a % 3 = 0 THEN 34 ELSE 25

\* The subsidy with several amounts of fees, and tiny rewards where everything
\* is rounded.
Rewards == {0, 1, 20, 21, 47, 48, 999, 1000, 1001, 21000, 312500000, 312500001,
            312500999, 312512345, 325000000, 500000000, 937500000}
RankedCounts == {0, 1, 2, 20, 21, 22, 25}

\* No tags, short ones, and such as leave no room for the extranonce.
Tags == {<<0, 0>>, <<0, 10>>, <<9, 0>>, <<40, 20>>, <<60, 60>>, <<64, 30>>}

\* Sizes and weights of the template's transactions: none, and several that leave
\* little room or less than none; the last consists of witnesses.
Templates == {<<0, 0>>, <<998800, 3995200>>, <<999000, 3996000>>, <<999700, 3998800>>,
              <<999800, 3999200>>, <<999990, 3999960>>, <<3998800, 3998900>>}

Request(finders, totals, ranked, scripts, tags, uids, templates, types, calls) ==
    [miner : finders, total : totals, ranked : ranked, scripts : scripts, tags : tags,
     uidLen : uids, template : templates, type : types, calls : {calls}]

\* Requests with outputs of all sorts, with and without room for the extranonce in
\* the input, and one of a small reward.
Carried ==
    Request({1}, {312512345}, {20}, {"mixed"}, {<<9, 0>>, <<60, 60>>}, {4}, {<<0, 0>>}, {0, 2, 3},
            {"job", "miner"})
    \cup Request({1}, {156250000}, {2}, {"segwit"}, {<<9, 0>>}, {4}, {<<0, 0>>}, {3}, {"job", "miner"})

Reporting ==
    Request({1}, {0}, {0}, {"segwit"}, {<<9, 0>>}, {4}, {<<0, 1>>}, {3},
            {"share", "block", "strange"})

Over ==
    Request(Finders, Rewards, RankedCounts, {"segwit"}, {<<9, 0>>}, {4}, {<<0, 0>>}, {3}, {})
    \cup Request({99}, {156250000, 312512345}, {0, 2, 20, 25}, Scripts, Tags, {4, 8}, Templates, 0 .. 5, {})

RequestsMade == Carried \cup Reporting \cup Over

=============================================================================

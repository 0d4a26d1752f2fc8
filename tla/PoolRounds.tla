----------------------------- MODULE PoolRounds -----------------------------
(***************************************************************************)
(* The shared pool's rounds and blocks, as the reward service keeps them:  *)
(* poolHandler and its goroutines (cmd/server/main.go), the block part of  *)
(* leaderboard.Service, and the rounds and blocks tables they share.       *)
(*                                                                         *)
(* Concurrent actors:                                                      *)
(*   - one BlockFound handler per block, on its own connection goroutine;  *)
(*   - the confirmation loop (startConfirmationLoop / checkConfirmations); *)
(*   - the leaderboard refresh (refreshLeaderboard);                       *)
(*   - the process itself, which starts, is told to stop, and dies;        *)
(*   - the Bitcoin chain, seen through getblockheader.                     *)
(* Every lock release and every database or RPC call is a step boundary.   *)
(*                                                                         *)
(* What the leaderboard holds is abstracted to the round it was queried    *)
(* for: top21 is a round id, or NoRound for the nil slice.                 *)
(***************************************************************************)
EXTENDS Integers, FiniteSets

CONSTANTS
    Blocks,       \* the block hashes the pool's miners can find
    NoBlock,      \* SQL NULL in rounds.block_id
    MaxRounds,    \* bound on round ids: one more than there are blocks suffices
    MaxReorgs,    \* bound on the chain's reorganisations
    MaxStops,     \* bound on the stops and crashes of the process
    FaultKinds    \* which external calls may fail (see Faults)

\* A call named "x" may fail without effect; "xAck" names a statement that
\* takes effect in the database although the caller is told it failed.
Faults == {"seed", "list", "rpc", "record", "recordAck", "orphan", "orphanAck",
           "confirm", "confirmAck", "top21"}

RoundIds == 1 .. MaxRounds
NoRound == 0

ASSUME RoundsAssumption == MaxRounds \in Nat \ {0}
ASSUME BlocksAssumption == IsFiniteSet(Blocks) /\ NoBlock \notin Blocks
ASSUME BoundsAssumption == MaxReorgs \in Nat /\ MaxStops \in Nat
ASSUME FaultsAssumption == FaultKinds \subseteq Faults

VARIABLES
    \* The database: survives every crash.
    lastRound,    \* id of the newest row of rounds, NoRound before the bootstrap
    closedBy,     \* rounds.block_id; a round has ended_at set iff it is not NoBlock
    roundOf,      \* blocks.round_id, NoRound for a hash that has no row
    foundAt,      \* blocks.found_at, as the position in insertion order
    confirmed,    \* hashes of the rows with blocks.confirmed
    orphaned,     \* hashes of the rows with blocks.is_orphaned
    \* The process.
    proc,         \* "down", "up", "stopping" (ctx cancelled, process alive)
    serving,      \* the socket server accepts connections
    roundID,      \* poolHandler.roundID
    top21,        \* the round poolHandler.top21 was queried for
    blockPending, \* poolHandler.blockPending, a channel of capacity one, is full
    \* The confirmation loop.
    loopPc,       \* where the loop is
    batch,        \* the fetched blocks it has not looked at yet
    current,      \* the block whose status it is about to write
    pending,      \* checkConfirmations' pending counter is not zero
    newRound,     \* ConfirmBlock's result, not published yet
    \* The refresh.
    refreshPc, refreshRound,
    \* The BlockFound handlers.
    handlerPc, handlerRound,
    \* The chain.
    chain,        \* what getblockheader says of a hash
    reorgs, stops,
    missed        \* history: unconfirmed blocks that an unnoticed error hides from
                  \* this process until it lists the table

dbVars == <<lastRound, closedBy, roundOf, foundAt, confirmed, orphaned>>
procVars == <<proc, serving>>
cacheVars == <<roundID, top21>>
loopVars == <<loopPc, batch, current, pending, newRound>>
refreshVars == <<refreshPc, refreshRound>>
handlerVars == <<handlerPc, handlerRound, missed>>
envVars == <<chain, reorgs, stops>>
vars == <<dbVars, procVars, cacheVars, blockPending, loopVars, refreshVars,
          handlerVars, envVars>>

-----------------------------------------------------------------------------
(* Tables *)

Inserted == {b \in Blocks : roundOf[b] # NoRound}
Rounds == 1 .. lastRound
OpenRounds == {r \in Rounds : closedBy[r] = NoBlock}

\* Mutated form of Unconfirmed: confirmed is not part of the WHERE clause.
UnconfirmedWithConfirmed == Inserted \ orphaned

\* The rows GetUnconfirmedBlocks selects.
Unconfirmed == Inserted \ (confirmed \cup orphaned)

\* ORDER BY found_at ASC.
IsOldest(b, S) == b \in S /\ \A c \in S : foundAt[b] <= foundAt[c]

MayFail(kind) == kind \in FaultKinds

\* The confirmation loop's calls carry ctx, which a stop cancels.
LoopCallFails(kind) == MayFail(kind) \/ proc = "stopping"

-----------------------------------------------------------------------------
(* The process *)

Init ==
    /\ lastRound = NoRound
    /\ closedBy = [r \in RoundIds |-> NoBlock]
    /\ roundOf = [b \in Blocks |-> NoRound]
    /\ foundAt = [b \in Blocks |-> 0]
    /\ confirmed = {} /\ orphaned = {}
    /\ proc = "down" /\ serving = FALSE
    /\ roundID = NoRound /\ top21 = NoRound /\ blockPending = FALSE
    /\ loopPc = "exited" /\ batch = {} /\ current = NoBlock
    /\ pending = FALSE /\ newRound = NoRound
    /\ refreshPc = "idle" /\ refreshRound = NoRound
    /\ handlerPc = [b \in Blocks |-> "none"]
    /\ handlerRound = [b \in Blocks |-> NoRound]
    /\ chain = [b \in Blocks |-> "unseen"]
    /\ reorgs = 0 /\ stops = 0
    /\ missed = {}

\* Mutated form of Bootstrap: every start inserts a round.
BootstrapAlways ==
    IF lastRound < MaxRounds THEN lastRound' = lastRound + 1 ELSE lastRound' = lastRound

\* schema.sql's last statement: a first round if no round is open.
Bootstrap ==
    IF OpenRounds = {} /\ lastRound < MaxRounds
    THEN lastRound' = lastRound + 1
    ELSE lastRound' = lastRound

\* main: connect, read the active round (the newest open one), start the loops,
\* then load the leaderboard before the socket accepts connections.
Start ==
    /\ proc = "down"
    /\ Bootstrap
    /\ roundID' \in {r \in 1 .. lastRound' : closedBy[r] = NoBlock}
    /\ \A r \in 1 .. lastRound' : closedBy[r] = NoBlock => r <= roundID'
    /\ proc' = "up" /\ serving' = FALSE
    /\ top21' = NoRound /\ blockPending' = FALSE
    /\ loopPc' = "seed" /\ batch' = {} /\ current' = NoBlock
    /\ pending' = FALSE /\ newRound' = NoRound
    /\ refreshPc' = "idle" /\ refreshRound' = NoRound
    /\ UNCHANGED <<closedBy, roundOf, foundAt, confirmed, orphaned, handlerVars, envVars>>

\* SIGTERM or SIGINT cancels ctx; the process lives on for its final flush.
Terminate ==
    /\ proc = "up" /\ stops < MaxStops
    /\ proc' = "stopping" /\ stops' = stops + 1
    /\ UNCHANGED <<dbVars, serving, cacheVars, blockPending, loopVars,
                   refreshVars, handlerVars, chain, reorgs>>

\* The process ends: everything in memory is gone, the handlers' connections
\* break, and the gateway does not send their blocks again.
Die ==
    /\ proc' = "down" /\ serving' = FALSE
    /\ roundID' = NoRound /\ top21' = NoRound /\ blockPending' = FALSE
    /\ loopPc' = "exited" /\ batch' = {} /\ current' = NoBlock
    /\ pending' = FALSE /\ newRound' = NoRound
    /\ refreshPc' = "idle" /\ refreshRound' = NoRound
    /\ handlerPc' = [b \in Blocks |->
          IF handlerPc[b] \in {"record", "signal"} THEN "done" ELSE handlerPc[b]]
    /\ missed' = {}
    /\ UNCHANGED <<dbVars, handlerRound, chain, reorgs>>

\* main returns after the final flush, or the process is killed.
Exit == proc = "stopping" /\ Die /\ UNCHANGED stops
Crash == proc # "down" /\ stops < MaxStops /\ stops' = stops + 1 /\ Die

-----------------------------------------------------------------------------
(* BlockFound, one handler per block *)

\* The handler copies roundID under the read lock and releases it.
BlockFound(b) ==
    /\ serving /\ handlerPc[b] = "none"
    /\ handlerPc' = [handlerPc EXCEPT ![b] = "record"]
    /\ handlerRound' = [handlerRound EXCEPT ![b] = roundID]
    /\ UNCHANGED <<dbVars, procVars, cacheVars, blockPending, loopVars, refreshVars,
                   envVars, missed>>

InsertBlock(b) ==
    /\ roundOf' = [roundOf EXCEPT ![b] = handlerRound[b]]
    /\ foundAt' = [foundAt EXCEPT ![b] = Cardinality(Inserted) + 1]
    /\ UNCHANGED <<lastRound, closedBy, confirmed, orphaned>>

\* RecordUnconfirmedBlock answers: with the row's id, or with an error. After an
\* error the handler returns without waking the loop, even if the row is there.
RecordUnconfirmedBlock(b) ==
    /\ handlerPc[b] = "record"
    /\ \/ /\ InsertBlock(b)
          /\ handlerPc' = [handlerPc EXCEPT ![b] = "signal"]
          /\ UNCHANGED missed
       \/ /\ MayFail("recordAck")
          /\ InsertBlock(b) /\ missed' = missed \cup {b}
          /\ handlerPc' = [handlerPc EXCEPT ![b] = "done"]
       \/ /\ MayFail("record")
          /\ handlerPc' = [handlerPc EXCEPT ![b] = "done"]
          /\ UNCHANGED <<dbVars, missed>>
    /\ UNCHANGED <<procVars, cacheVars, blockPending, loopVars, refreshVars,
                   handlerRound, envVars>>

\* Mutated form of SignalBlockPending: an unbuffered channel, which drops the
\* signal unless the loop is already waiting for it.
SignalUnbuffered(b) ==
    /\ handlerPc[b] = "signal"
    /\ blockPending' = (blockPending \/ loopPc = "idle")
    /\ handlerPc' = [handlerPc EXCEPT ![b] = "done"]
    /\ UNCHANGED <<dbVars, procVars, cacheVars, loopVars, refreshVars,
                   handlerRound, envVars, missed>>

\* The non-blocking send: it fills the channel, or finds it full.
SignalBlockPending(b) ==
    /\ handlerPc[b] = "signal"
    /\ blockPending' = TRUE
    /\ handlerPc' = [handlerPc EXCEPT ![b] = "done"]
    /\ UNCHANGED <<dbVars, procVars, cacheVars, loopVars, refreshVars,
                   handlerRound, envVars, missed>>

-----------------------------------------------------------------------------
(* The confirmation loop *)

\* Before its first wait the loop wakes itself if the table holds unconfirmed
\* blocks; an error of that query is ignored.
SeedFromTable ==
    /\ loopPc = "seed"
    /\ \/ blockPending' = (blockPending \/ Unconfirmed # {}) /\ UNCHANGED missed
       \/ LoopCallFails("seed") /\ missed' = Unconfirmed /\ UNCHANGED blockPending
    /\ loopPc' = "idle"
    /\ UNCHANGED <<dbVars, procVars, cacheVars, batch, current, pending, newRound,
                   refreshVars, handlerPc, handlerRound, envVars>>

\* case <-h.blockPending
Wake ==
    /\ loopPc = "idle" /\ blockPending
    /\ blockPending' = FALSE
    /\ loopPc' = "list"
    /\ UNCHANGED <<dbVars, procVars, cacheVars, batch, current, pending, newRound,
                   refreshVars, handlerVars, envVars>>

\* case <-ctx.Done(), in either of the loop's selects.
LoopCancelled ==
    /\ loopPc \in {"idle", "wait"} /\ proc = "stopping"
    /\ loopPc' = "exited"
    /\ UNCHANGED <<dbVars, procVars, cacheVars, blockPending, batch, current, pending,
                   newRound, refreshVars, handlerVars, envVars>>

\* Mutated form of ListUnconfirmed: confirmed = false is not part of the WHERE
\* clause.
ListWithConfirmed ==
    /\ loopPc = "list"
    /\ batch' = Inserted \ orphaned /\ pending' = FALSE
    /\ missed' = {} /\ loopPc' = "check"
    /\ UNCHANGED <<dbVars, procVars, cacheVars, blockPending, current, newRound,
                   refreshVars, handlerPc, handlerRound, envVars>>

\* checkConfirmations' query.
ListUnconfirmed ==
    /\ loopPc = "list"
    /\ batch' = Unconfirmed /\ pending' = FALSE
    /\ missed' = {} /\ loopPc' = "check"
    /\ UNCHANGED <<dbVars, procVars, cacheVars, blockPending, current, newRound,
                   refreshVars, handlerPc, handlerRound, envVars>>

\* "assume still pending; keep polling"
ListFails ==
    /\ loopPc = "list" /\ LoopCallFails("list")
    /\ loopPc' = "wait"
    /\ UNCHANGED <<dbVars, procVars, cacheVars, blockPending, batch, current, pending,
                   newRound, refreshVars, handlerVars, envVars>>

\* The RPC call for the next block of the batch gets an answer. "deep" stands
\* for two confirmations or more, "shallow" for none or one, "stale" for -1.
PollBlock(b) ==
    /\ loopPc = "check" /\ IsOldest(b, batch)
    /\ chain[b] # "unseen"
    /\ batch' = batch \ {b}
    /\ IF chain[b] = "shallow"
       THEN pending' = TRUE /\ UNCHANGED <<loopPc, current>>
       ELSE /\ loopPc' = IF chain[b] = "stale" THEN "orphan" ELSE "confirm"
            /\ current' = b
            /\ UNCHANGED pending
    /\ UNCHANGED <<dbVars, procVars, cacheVars, blockPending, newRound,
                   refreshVars, handlerVars, envVars>>

\* The node does not know the hash, or the call fails: the block stays pending.
PollFails(b) ==
    /\ loopPc = "check" /\ IsOldest(b, batch)
    /\ chain[b] = "unseen" \/ MayFail("rpc")
    /\ batch' = batch \ {b}
    /\ pending' = TRUE
    /\ UNCHANGED <<dbVars, procVars, cacheVars, blockPending, loopPc, current, newRound,
                   refreshVars, handlerVars, envVars>>

\* An error of either statement counts the block as pending and goes on.
CallFailed ==
    /\ pending' = TRUE
    /\ loopPc' = "check" /\ current' = NoBlock
    /\ UNCHANGED newRound

SetOrphaned ==
    /\ orphaned' = orphaned \cup {current}
    /\ UNCHANGED <<lastRound, closedBy, roundOf, foundAt, confirmed>>

MarkOrphaned ==
    /\ loopPc = "orphan"
    /\ \/ /\ SetOrphaned
          /\ loopPc' = "check" /\ current' = NoBlock
          /\ UNCHANGED <<pending, newRound>>
       \/ MayFail("orphanAck") /\ SetOrphaned /\ CallFailed
       \/ LoopCallFails("orphan") /\ UNCHANGED dbVars /\ CallFailed
    /\ UNCHANGED <<procVars, cacheVars, blockPending, batch, refreshVars, handlerVars, envVars>>

\* Mutated form of CloseRound: the alreadyClosed check is missing.
CloseRoundUnchecked ==
    /\ lastRound < MaxRounds
    /\ confirmed' = confirmed \cup {current}
    /\ closedBy' = [closedBy EXCEPT ![roundOf[current]] = current]
    /\ lastRound' = lastRound + 1
    /\ UNCHANGED <<roundOf, foundAt, orphaned>>

\* Mutated form of CloseRound: it closes the service's round, not the block's.
CloseServiceRound ==
    /\ lastRound < MaxRounds
    /\ confirmed' = confirmed \cup {current}
    /\ closedBy' = [closedBy EXCEPT ![roundID] = current]
    /\ lastRound' = lastRound + 1
    /\ UNCHANGED <<roundOf, foundAt, orphaned>>

\* ConfirmBlock's transaction. The first confirmed block of a round closes it
\* and opens the next one; for a later one only the flag is set.
CloseRound ==
    LET r == roundOf[current]
    IN  /\ confirmed' = confirmed \cup {current}
        /\ IF closedBy[r] # NoBlock
           THEN UNCHANGED <<closedBy, lastRound>>
           ELSE /\ lastRound < MaxRounds
                /\ closedBy' = [closedBy EXCEPT ![r] = current]
                /\ lastRound' = lastRound + 1
        /\ UNCHANGED <<roundOf, foundAt, orphaned>>

\* ConfirmBlock's result: the round it opened, or the block's own round when
\* that one was closed already.
ConfirmResult ==
    LET r == roundOf[current]
    IN  IF closedBy[r] # NoBlock THEN r ELSE lastRound + 1

ConfirmBlock ==
    /\ loopPc = "confirm"
    /\ \/ /\ CloseRound
          /\ newRound' = ConfirmResult
          /\ loopPc' = "publish" /\ UNCHANGED <<current, pending>>
       \/ MayFail("confirmAck") /\ CloseRound /\ CallFailed
       \/ LoopCallFails("confirm") /\ UNCHANGED dbVars /\ CallFailed
    /\ UNCHANGED <<procVars, cacheVars, blockPending, batch, refreshVars, handlerVars, envVars>>

\* Mutated form of PublishRound: only the leaderboard is reset.
PublishOnlyReset ==
    /\ loopPc = "publish"
    /\ top21' = NoRound
    /\ loopPc' = "check" /\ current' = NoBlock /\ newRound' = NoRound
    /\ UNCHANGED <<dbVars, procVars, roundID, blockPending, batch, pending,
                   refreshVars, handlerVars, envVars>>

\* Under the write lock: the new round and an empty leaderboard, together.
PublishRound ==
    /\ loopPc = "publish"
    /\ roundID' = newRound
    /\ top21' = NoRound
    /\ loopPc' = "check" /\ current' = NoBlock /\ newRound' = NoRound
    /\ UNCHANGED <<dbVars, procVars, blockPending, batch, pending,
                   refreshVars, handlerVars, envVars>>

\* Mutated form of FinishPass: one pass per wake-up.
FinishPassIdle ==
    /\ loopPc = "check" /\ batch = {}
    /\ loopPc' = "idle"
    /\ UNCHANGED <<dbVars, procVars, cacheVars, blockPending, batch, current, pending,
                   newRound, refreshVars, handlerVars, envVars>>

\* The pass is over: wait for the ticker while something is pending.
FinishPass ==
    /\ loopPc = "check" /\ batch = {}
    /\ loopPc' = IF pending THEN "wait" ELSE "idle"
    /\ UNCHANGED <<dbVars, procVars, cacheVars, blockPending, batch, current, pending,
                   newRound, refreshVars, handlerVars, envVars>>

\* case <-ticker.C
Tick ==
    /\ loopPc = "wait"
    /\ loopPc' = "list"
    /\ UNCHANGED <<dbVars, procVars, cacheVars, blockPending, batch, current, pending,
                   newRound, refreshVars, handlerVars, envVars>>

-----------------------------------------------------------------------------
(* The leaderboard refresh *)

\* refreshLeaderboard copies roundID under the read lock: once from main, before
\* the socket server starts, then whenever the ticker fires.
RefreshBegin ==
    /\ proc = "up" \/ (proc = "stopping" /\ ~serving)
    /\ refreshPc = "idle"
    /\ refreshRound' = roundID
    /\ refreshPc' = "query"
    /\ UNCHANGED <<dbVars, procVars, cacheVars, blockPending, loopVars, handlerVars, envVars>>

\* Mutated form of RefreshStore: a leaderboard that is there is kept.
RefreshStoreOnce ==
    /\ refreshPc = "query"
    /\ top21' = IF top21 = NoRound THEN refreshRound ELSE top21
    /\ refreshPc' = "idle" /\ refreshRound' = NoRound
    /\ serving' = TRUE
    /\ UNCHANGED <<dbVars, proc, roundID, blockPending, loopVars, handlerVars, envVars>>

\* GetTop21 answers and its entries are stored under the write lock. When main's
\* own refresh returns, the socket server starts.
RefreshStore ==
    /\ refreshPc = "query"
    /\ top21' = refreshRound
    /\ refreshPc' = "idle" /\ refreshRound' = NoRound
    /\ serving' = TRUE
    /\ UNCHANGED <<dbVars, proc, roundID, blockPending, loopVars, handlerVars, envVars>>

RefreshFails ==
    /\ refreshPc = "query" /\ LoopCallFails("top21")
    /\ refreshPc' = "idle" /\ refreshRound' = NoRound
    /\ serving' = TRUE
    /\ UNCHANGED <<dbVars, proc, cacheVars, blockPending, loopVars, handlerVars, envVars>>

-----------------------------------------------------------------------------
(* The chain (external): a block is relayed, buried, or reorganised away and  *)
(* back.                                                                       *)

ChainStep(b, from, to) ==
    /\ chain[b] = from
    /\ chain' = [chain EXCEPT ![b] = to]
    /\ UNCHANGED <<dbVars, procVars, cacheVars, blockPending, loopVars, refreshVars,
                   handlerVars, stops>>

Propagate(b) == ChainStep(b, "unseen", "shallow") /\ UNCHANGED reorgs
Bury(b) == ChainStep(b, "shallow", "deep") /\ UNCHANGED reorgs
Reorg(b) ==
    /\ reorgs < MaxReorgs /\ reorgs' = reorgs + 1
    /\ \/ ChainStep(b, "shallow", "stale")
       \/ ChainStep(b, "deep", "stale")
       \/ ChainStep(b, "stale", "shallow")

-----------------------------------------------------------------------------

Loop ==
    \/ SeedFromTable \/ Wake \/ LoopCancelled
    \/ ListUnconfirmed \/ ListFails
    \/ \E b \in Blocks : PollBlock(b) \/ PollFails(b)
    \/ MarkOrphaned \/ ConfirmBlock \/ PublishRound
    \/ FinishPass \/ Tick

Handler(b) == BlockFound(b) \/ RecordUnconfirmedBlock(b) \/ SignalBlockPending(b)
Refresh == RefreshBegin \/ RefreshStore \/ RefreshFails
Process == Start \/ Terminate \/ Exit \/ Crash
Chain(b) == Propagate(b) \/ Bury(b) \/ Reorg(b)

Next ==
    \/ Process \/ Loop \/ Refresh
    \/ \E b \in Blocks : Handler(b) \/ Chain(b)

Spec == Init /\ [][Next]_vars

\* The loop is a goroutine that always takes its next step, the ticker fires,
\* handlers run to their end, systemd restarts the process, and blocks are
\* relayed and buried. A call that may fail does not fail for ever when it is
\* repeated for ever: strong fairness on the answers.
Fairness ==
    /\ WF_vars(Start) /\ WF_vars(Exit)
    /\ WF_vars(Loop)
    /\ SF_vars(ListUnconfirmed)
    /\ \A b \in Blocks : SF_vars(PollBlock(b))
    /\ SF_vars(MarkOrphaned /\ current \in orphaned')
    /\ SF_vars(ConfirmBlock /\ current \in confirmed')
    /\ WF_vars(Refresh) /\ SF_vars(RefreshStore)
    /\ \A b \in Blocks :
          /\ WF_vars(RecordUnconfirmedBlock(b)) /\ WF_vars(SignalBlockPending(b))
          /\ WF_vars(Propagate(b)) /\ WF_vars(Bury(b))

FairSpec == Spec /\ Fairness

-----------------------------------------------------------------------------
(* Properties *)

\* Every variable keeps its type.
FlagsOK == serving \in BOOLEAN /\ blockPending \in BOOLEAN /\ pending \in BOOLEAN
ValuesOK ==
    /\ lastRound \in 0 .. MaxRounds
    /\ closedBy \in [RoundIds -> Blocks \cup {NoBlock}]
    /\ roundOf \in [Blocks -> 0 .. MaxRounds]
    /\ foundAt \in [Blocks -> Nat]
    /\ confirmed \subseteq Blocks /\ orphaned \subseteq Blocks
    /\ proc \in {"down", "up", "stopping"}
    /\ roundID \in 0 .. MaxRounds /\ top21 \in 0 .. MaxRounds
    /\ loopPc \in {"seed", "idle", "list", "check", "orphan", "confirm", "publish",
                   "wait", "exited"}
    /\ batch \subseteq Blocks /\ current \in Blocks \cup {NoBlock}
    /\ newRound \in 0 .. MaxRounds
    /\ refreshPc \in {"idle", "query"} /\ refreshRound \in 0 .. MaxRounds
    /\ handlerPc \in [Blocks -> {"none", "record", "signal", "done"}]
    /\ handlerRound \in [Blocks -> 0 .. MaxRounds]
    /\ chain \in [Blocks -> {"unseen", "shallow", "deep", "stale"}]
    /\ reorgs \in 0 .. MaxReorgs /\ stops \in 0 .. MaxStops
    /\ missed \subseteq Blocks
TypeOK == FlagsOK /\ ValuesOK

\* From the first start on there is exactly one open round, the newest, whatever
\* blocks are confirmed in whatever order and wherever the process dies: what
\* db.ActiveRoundID and the web pages rely on.
OneOpenRound == lastRound > 0 => OpenRounds = {lastRound}

\* The block a round is closed with was found in that round and is confirmed, and
\* a confirmed block never leaves its round open.
RoundsClosedByTheirBlocks ==
    /\ \A r \in Rounds : closedBy[r] # NoBlock =>
          closedBy[r] \in confirmed /\ roundOf[closedBy[r]] = r
    /\ \A b \in confirmed : closedBy[roundOf[b]] # NoBlock

\* No block is ever both confirmed and orphaned, although getblockheader is asked
\* long before the answer is written and the chain reorganises in between: the
\* loop never looks again at a block it has settled.
SettledOnce == confirmed \cap orphaned = {}

\* While the loop sleeps in a live service, every unconfirmed block has a wake-up
\* coming: the channel is full, or the block's handler is about to fill it. The send is
\* non-blocking and may be dropped, so this is what makes dropping it safe. The
\* exceptions are the blocks that two unnoticed errors hide from it: of the seed
\* query, and of an INSERT that took effect.
NoLostWakeup ==
    proc = "up" /\ loopPc = "idle" /\ ~blockPending =>
        \A b \in Unconfirmed \ missed : handlerPc[b] = "signal"

\* Blocks confirmed when another block had closed their round already.
LateBlocks(r) == {b \in confirmed : roundOf[b] = r /\ closedBy[r] # b}

\* The only ways the service's round can differ from the open one: the new round
\* is about to be published, or a second block of the service's round has been
\* confirmed. (Given that no commit of ConfirmBlock is reported as an error.)
RoundIDAgesOnlyByLateBlocks ==
    proc # "down" /\ roundID # lastRound =>
        \/ loopPc = "publish" /\ newRound = lastRound
        \/ LateBlocks(roundID) # {}

\* Every block in the table is in the end confirmed or orphaned, through restarts,
\* failing calls and reorganisations, if neither of those two errors happens.
PendingBlocksSettle ==
    \A b \in Blocks : b \in Unconfirmed ~> b \in confirmed \cup orphaned

\* Whatever a refresh raced with, the cached leaderboard is again and again the
\* one of the service's round.
LeaderboardCatchesUp == []<>(proc = "up" /\ top21 = roundID)

\* What ConfirmBlock's comment and the log line after it say, "new round opened":
\* once the loop has published a confirmation the service is in the open round.
ServiceRoundIsOpen ==
    proc # "down" /\ loopPc # "publish" => roundID \in OpenRounds

-----------------------------------------------------------------------------
(* The inductive invariant behind the safety properties *)

\* The tables: all rounds but the newest are closed, and blocks keep to them.
TablesInv ==
    /\ \A r \in RoundIds : closedBy[r] # NoBlock <=> r < lastRound
    /\ \A b \in Blocks : roundOf[b] <= lastRound
    /\ RoundsClosedByTheirBlocks
    /\ confirmed \subseteq Inserted /\ orphaned \subseteq Inserted
    /\ SettledOnce

\* The process: what the loop holds is still unsettled, and every round id in
\* memory is the id of a row.
MemoryInv ==
    /\ batch \subseteq Unconfirmed
    /\ loopPc \in {"orphan", "confirm"} => current \in Unconfirmed \ batch
    /\ loopPc = "publish" => newRound \in Rounds
    /\ proc # "down" => roundID \in Rounds
    /\ proc = "down" => ~serving /\ loopPc = "exited" /\ refreshPc = "idle"
    /\ \A b \in Blocks : handlerPc[b] \in {"none", "record"} => roundOf[b] = NoRound
    /\ \A b \in Blocks : handlerPc[b] = "record" => handlerRound[b] \in Rounds

\* Whatever the loop, the handlers, the failures and the restarts do, these hold
\* together; the safety properties follow from them. In particular the loop never
\* acts on a block that was settled since it listed it, however long ago the list
\* and the answer of the node are.
IInv == TypeOK /\ TablesInv /\ MemoryInv

\* While a pass has found nothing to wait for, the loop still holds every
\* unconfirmed block it can know of, or a wake-up for it is coming.
Held(b) ==
    \/ b \in batch
    \/ loopPc \in {"orphan", "confirm"} /\ b = current
    \/ handlerPc[b] = "signal"

WakeupInv ==
    /\ proc = "up" => loopPc # "exited"
    /\ NoLostWakeup
    /\ /\ proc = "up" /\ ~blockPending /\ ~pending
       /\ loopPc \in {"check", "orphan", "confirm", "publish"}
       => \A b \in Unconfirmed \ missed : Held(b)

RoundIDInv ==
    /\ RoundIDAgesOnlyByLateBlocks
    /\ loopPc = "publish" /\ newRound # lastRound => LateBlocks(newRound) # {}

=============================================================================

------------------------------ MODULE SoloPool ------------------------------
(***************************************************************************)
(* The solo pool (internal/solo/handler.go): blocks of the solo_blocks     *)
(* table, a confirmation loop of their own, and the buffered worker        *)
(* activity. No rounds, no leaderboard: each block stands alone.           *)
(*                                                                         *)
(* A block may be reported more than once; ON CONFLICT (hash) DO NOTHING   *)
(* makes the second report harmless. The statuses "deep", "shallow" and    *)
(* "stale" of a block stand for two confirmations or more, none or one,    *)
(* and -1.                                                                 *)
(***************************************************************************)
EXTENDS Integers, FiniteSets

CONSTANTS
    Blocks,       \* the block hashes the solo miners can find
    NoBlock,
    MaxReports,   \* bound on the reports of one block
    MaxReorgs,    \* bound on the chain's reorganisations
    MaxStops,     \* bound on the stops of the process
    FaultKinds    \* which external calls may fail

\* As in PoolRounds; "rows" is an error in the middle of reading a result, which
\* ends the iteration over it.
Faults == {"seed", "list", "rows", "rpc", "insert", "insertAck", "update", "updateAck"}

ASSUME BlocksAssumption == NoBlock \notin Blocks
ASSUME BoundsAssumption == MaxReports \in Nat /\ MaxReorgs \in Nat /\ MaxStops \in Nat
ASSUME FaultsAssumption == FaultKinds \subseteq Faults

VARIABLES
    inserted, confirmed, orphaned,       \* solo_blocks: its rows and their flags
    proc,                                \* "up", "stopping", "down"
    blockPending,                        \* the channel of capacity one is full
    loopPc, batch, current, pending,     \* the confirmation loop
    reports,                             \* how often each block was reported
    handlers,                            \* BlockFound handlers about to signal
    chain, reorgs, stops,
    missed                               \* history: blocks this process has lost sight of

dbVars == <<inserted, confirmed, orphaned>>
loopVars == <<loopPc, batch, current, pending>>
handlerVars == <<reports, handlers>>
envVars == <<chain, reorgs, stops>>
vars == <<dbVars, proc, blockPending, loopVars, handlerVars, envVars, missed>>

\* Mutated form of Unconfirmed: confirmed is not part of the WHERE clause.
UnconfirmedWithConfirmed == inserted \ orphaned

\* confirmed = false AND is_orphaned = false
Unconfirmed == inserted \ (confirmed \cup orphaned)

MayFail(kind) == kind \in FaultKinds
LoopCallFails(kind) == MayFail(kind) \/ proc = "stopping"

Init ==
    /\ inserted = {} /\ confirmed = {} /\ orphaned = {}
    /\ proc = "up" /\ blockPending = FALSE
    /\ loopPc = "seed" /\ batch = {} /\ current = NoBlock /\ pending = FALSE
    /\ reports = [b \in Blocks |-> 0]
    /\ handlers = [b \in Blocks |-> 0]
    /\ chain = [b \in Blocks |-> "unseen"]
    /\ reorgs = 0 /\ stops = 0
    /\ missed = {}

-----------------------------------------------------------------------------
(* BlockFound *)

\* The INSERT answers. After an error the handler returns without a signal.
BlockFound(b) ==
    /\ proc # "down" /\ reports[b] < MaxReports
    /\ reports' = [reports EXCEPT ![b] = @ + 1]
    /\ \/ /\ inserted' = inserted \cup {b}
          /\ handlers' = [handlers EXCEPT ![b] = @ + 1]
          /\ UNCHANGED missed
       \/ /\ MayFail("insertAck")
          /\ inserted' = inserted \cup {b} /\ missed' = missed \cup ({b} \ inserted)
          /\ UNCHANGED handlers
       \/ MayFail("insert") /\ UNCHANGED <<inserted, handlers, missed>>
    /\ UNCHANGED <<confirmed, orphaned, proc, blockPending, loopVars, envVars>>

\* Mutated form of SignalBlockPending: an unbuffered channel.
SignalUnbuffered(b) ==
    /\ handlers[b] > 0
    /\ handlers' = [handlers EXCEPT ![b] = @ - 1]
    /\ blockPending' = (blockPending \/ loopPc = "idle")
    /\ UNCHANGED <<dbVars, proc, loopVars, reports, envVars, missed>>

SignalBlockPending(b) ==
    /\ handlers[b] > 0
    /\ handlers' = [handlers EXCEPT ![b] = @ - 1]
    /\ blockPending' = TRUE
    /\ UNCHANGED <<dbVars, proc, loopVars, reports, envVars, missed>>

-----------------------------------------------------------------------------
(* StartConfirmationLoop *)

\* The count query; its error is ignored.
SeedFromTable ==
    /\ loopPc = "seed"
    /\ \/ blockPending' = (blockPending \/ Unconfirmed # {}) /\ UNCHANGED missed
       \/ LoopCallFails("seed") /\ missed' = Unconfirmed /\ UNCHANGED blockPending
    /\ loopPc' = "idle"
    /\ UNCHANGED <<dbVars, proc, batch, current, pending, handlerVars, envVars>>

Wake ==
    /\ loopPc = "idle" /\ blockPending
    /\ blockPending' = FALSE /\ loopPc' = "list"
    /\ UNCHANGED <<dbVars, proc, batch, current, pending, handlerVars, envVars, missed>>

LoopCancelled ==
    /\ loopPc \in {"idle", "wait"} /\ proc = "stopping"
    /\ loopPc' = "exited"
    /\ UNCHANGED <<dbVars, proc, blockPending, batch, current, pending, handlerVars, envVars, missed>>

Tick ==
    /\ loopPc = "wait" /\ loopPc' = "list"
    /\ UNCHANGED <<dbVars, proc, blockPending, batch, current, pending, handlerVars, envVars, missed>>

-----------------------------------------------------------------------------
(* checkConfirmations *)

\* The rows are scanned until rows.Next says no. rows.Err is not consulted, so a
\* result that breaks off passes for a short one.
ListUnconfirmed ==
    /\ loopPc = "list"
    /\ \/ batch' = Unconfirmed
       \/ LoopCallFails("rows") /\ batch' \in SUBSET Unconfirmed
    /\ missed' = Unconfirmed \ batch'
    /\ pending' = FALSE /\ loopPc' = "check"
    /\ UNCHANGED <<dbVars, proc, blockPending, current, handlerVars, envVars>>

ListFails ==
    /\ loopPc = "list" /\ LoopCallFails("list")
    /\ loopPc' = "wait"
    /\ UNCHANGED <<dbVars, proc, blockPending, batch, current, pending, handlerVars, envVars, missed>>

\* The RPC call for one block of the batch (no ORDER BY) gets an answer.
PollBlock(b) ==
    /\ loopPc = "check" /\ b \in batch /\ chain[b] # "unseen"
    /\ batch' = batch \ {b}
    /\ IF chain[b] = "shallow"
       THEN pending' = TRUE /\ UNCHANGED <<loopPc, current>>
       ELSE /\ loopPc' = IF chain[b] = "stale" THEN "orphan" ELSE "confirm"
            /\ current' = b
            /\ UNCHANGED pending
    /\ UNCHANGED <<dbVars, proc, blockPending, handlerVars, envVars, missed>>

PollFails(b) ==
    /\ loopPc = "check" /\ b \in batch
    /\ chain[b] = "unseen" \/ MayFail("rpc")
    /\ batch' = batch \ {b} /\ pending' = TRUE
    /\ UNCHANGED <<dbVars, proc, blockPending, loopPc, current, handlerVars, envVars, missed>>

\* The flag the loop is about to set, from the answer it has.
SetFlag ==
    \/ /\ loopPc = "orphan" /\ orphaned' = orphaned \cup {current}
       /\ UNCHANGED <<inserted, confirmed>>
    \/ /\ loopPc = "confirm" /\ confirmed' = confirmed \cup {current}
       /\ UNCHANGED <<inserted, orphaned>>

UpdateBlock ==
    /\ loopPc \in {"orphan", "confirm"}
    /\ \/ SetFlag /\ UNCHANGED pending
       \/ MayFail("updateAck") /\ SetFlag /\ pending' = TRUE
       \/ LoopCallFails("update") /\ pending' = TRUE /\ UNCHANGED dbVars
    /\ loopPc' = "check" /\ current' = NoBlock
    /\ UNCHANGED <<proc, blockPending, batch, handlerVars, envVars, missed>>

\* Mutated form of FinishPass: one pass per wake-up.
FinishPassIdle ==
    /\ loopPc = "check" /\ batch = {}
    /\ loopPc' = "idle"
    /\ UNCHANGED <<dbVars, proc, blockPending, batch, current, pending, handlerVars, envVars, missed>>

FinishPass ==
    /\ loopPc = "check" /\ batch = {}
    /\ loopPc' = IF pending THEN "wait" ELSE "idle"
    /\ UNCHANGED <<dbVars, proc, blockPending, batch, current, pending, handlerVars, envVars, missed>>

-----------------------------------------------------------------------------
(* The process and the chain (external) *)

Terminate ==
    /\ proc = "up" /\ stops < MaxStops
    /\ proc' = "stopping" /\ stops' = stops + 1
    /\ UNCHANGED <<dbVars, blockPending, loopVars, handlerVars, chain, reorgs, missed>>

Die ==
    /\ proc' = "down" /\ blockPending' = FALSE
    /\ loopPc' = "exited" /\ batch' = {} /\ current' = NoBlock /\ pending' = FALSE
    /\ handlers' = [b \in Blocks |-> 0]
    /\ missed' = {}
    /\ UNCHANGED <<dbVars, reports, chain, reorgs>>

Exit == proc = "stopping" /\ Die /\ UNCHANGED stops
Crash == proc # "down" /\ stops < MaxStops /\ stops' = stops + 1 /\ Die

Start ==
    /\ proc = "down" /\ proc' = "up" /\ loopPc' = "seed"
    /\ UNCHANGED <<dbVars, blockPending, batch, current, pending, handlerVars, envVars, missed>>

ChainStep(b, from, to) ==
    /\ chain[b] = from
    /\ chain' = [chain EXCEPT ![b] = to]
    /\ UNCHANGED <<dbVars, proc, blockPending, loopVars, handlerVars, stops, missed>>

Propagate(b) == ChainStep(b, "unseen", "shallow") /\ UNCHANGED reorgs
Bury(b) == ChainStep(b, "shallow", "deep") /\ UNCHANGED reorgs
Reorg(b) ==
    /\ reorgs < MaxReorgs /\ reorgs' = reorgs + 1
    /\ \/ ChainStep(b, "shallow", "stale")
       \/ ChainStep(b, "deep", "stale")
       \/ ChainStep(b, "stale", "shallow")

-----------------------------------------------------------------------------

Loop ==
    \/ SeedFromTable \/ Wake \/ LoopCancelled \/ Tick
    \/ ListUnconfirmed \/ ListFails
    \/ \E b \in Blocks : PollBlock(b) \/ PollFails(b)
    \/ UpdateBlock \/ FinishPass

Next ==
    \/ Loop
    \/ \E b \in Blocks : BlockFound(b) \/ SignalBlockPending(b)
    \/ \E b \in Blocks : Propagate(b) \/ Bury(b) \/ Reorg(b)
    \/ Terminate \/ Exit \/ Crash \/ Start

Spec == Init /\ [][Next]_vars

\* As in PoolRounds.
Fairness ==
    /\ WF_vars(Start) /\ WF_vars(Exit)
    /\ WF_vars(Loop)
    /\ SF_vars(ListUnconfirmed)
    /\ \A b \in Blocks : SF_vars(PollBlock(b))
    /\ SF_vars(UpdateBlock /\ current \in confirmed' \cup orphaned')
    /\ \A b \in Blocks :
          WF_vars(SignalBlockPending(b)) /\ WF_vars(Propagate(b)) /\ WF_vars(Bury(b))

FairSpec == Spec /\ Fairness

-----------------------------------------------------------------------------
(* The site's list of solo blocks *)

GetSoloBlocks == inserted

StatusBadge(b) ==
    CASE b \in orphaned -> "Orphaned"
      [] b \in confirmed \ orphaned -> "Confirmed"
      [] OTHER -> "Pending"

-----------------------------------------------------------------------------
(* Properties *)

\* Every variable keeps its type.
TypeOK ==
    /\ inserted \subseteq Blocks /\ confirmed \subseteq Blocks /\ orphaned \subseteq Blocks
    /\ proc \in {"up", "stopping", "down"} /\ blockPending \in BOOLEAN
    /\ loopPc \in {"seed", "idle", "list", "check", "orphan", "confirm", "wait", "exited"}
    /\ batch \subseteq Blocks /\ current \in Blocks \cup {NoBlock} /\ pending \in BOOLEAN
    /\ reports \in [Blocks -> 0 .. MaxReports] /\ handlers \in [Blocks -> 0 .. MaxReports]
    /\ chain \in [Blocks -> {"unseen", "shallow", "deep", "stale"}]
    /\ reorgs \in 0 .. MaxReorgs /\ stops \in 0 .. MaxStops
    /\ missed \subseteq Blocks

\* No solo block is both confirmed and orphaned, although it may be reported again
\* after it was settled and the chain moves between the answer and the UPDATE.
SettledOnce == confirmed \cap orphaned = {}

\* While the loop sleeps in a live service, every unconfirmed block has a wake-up
\* coming, and dropping a signal on the full channel is safe. The exceptions are
\* the blocks three unnoticed errors hide from it: of the seed query, of an INSERT
\* that took effect, and in the middle of a result.
NoLostWakeup ==
    proc = "up" /\ loopPc = "idle" /\ ~blockPending =>
        \A b \in Unconfirmed \ missed : handlers[b] > 0

\* Every block the site lists as pending is in the end listed as confirmed or orphaned,
\* or hidden from the loop by one of those errors.
PendingBlocksSettle ==
    \A b \in Blocks :
        b \in GetSoloBlocks /\ StatusBadge(b) = "Pending" ~>
            StatusBadge(b) # "Pending" \/ b \in missed

=============================================================================

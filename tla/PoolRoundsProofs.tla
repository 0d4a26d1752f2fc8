-------------------------- MODULE PoolRoundsProofs --------------------------
(***************************************************************************)
(* Proofs about PoolRounds, for every set of blocks, every bound and every *)
(* choice of failing calls.                                                *)
(***************************************************************************)
EXTENDS PoolRoundsLedger, FiniteSetTheorems, TLAPS

\* A count of table rows is a number.
LEMMA InsertedCount ==
    Cardinality(Inserted) \in Nat
<1>1. IsFiniteSet(Inserted)
  BY BlocksAssumption, FS_Subset, Inserted \subseteq Blocks DEF Inserted
<1> QED BY <1>1, FS_CardinalityType

\* The initial state satisfies the inductive invariant.
LEMMA InitIInv == Init => IInv
<1> SUFFICES ASSUME Init PROVE IInv
  OBVIOUS
<1> USE RoundsAssumption, BlocksAssumption, BoundsAssumption DEF Init, NoRound, RoundIds
<1>1. FlagsOK
  BY DEF FlagsOK
<1>2. ValuesOK
  BY DEF ValuesOK
<1>3. TablesInv
  BY DEF TablesInv, RoundsClosedByTheirBlocks, SettledOnce, Rounds, Inserted
<1>4. MemoryInv
  BY DEF MemoryInv, Rounds, Inserted, Unconfirmed
<1> QED BY <1>1, <1>2, <1>3, <1>4 DEF IInv, TypeOK


\* A start opens the first round or none, and reads the open one.
LEMMA StartRounds ==
    ASSUME IInv, Start
    PROVE  /\ UNCHANGED lastRound \/ (lastRound = 0 /\ lastRound' = 1)
           /\ roundID' = lastRound' /\ lastRound' \in 1 .. MaxRounds
<1> USE RoundsAssumption DEF IInv, NoRound, RoundIds
<1>1. CASE lastRound = 0
  <2>1. \A r \in RoundIds : closedBy[r] = NoBlock
    BY <1>1 DEF TablesInv
  <2>2. OpenRounds = {}
    BY <1>1 DEF OpenRounds, Rounds
  <2>3. lastRound' = 1
    BY <1>1, <2>2 DEF Start, Bootstrap
  <2> QED BY <1>1, <2>1, <2>3 DEF Start
<1>2. CASE lastRound > 0
  <2>1. lastRound \in OpenRounds
    BY <1>2 DEF OpenRounds, TablesInv, TypeOK, ValuesOK, Rounds
  <2>2. lastRound' = lastRound
    BY <2>1 DEF Start, Bootstrap
  <2> QED
    BY <1>2, <2>1, <2>2 DEF Start, OpenRounds, Rounds, TypeOK, ValuesOK
<1> QED BY <1>1, <1>2 DEF TypeOK, ValuesOK

\* Every step keeps the flags Boolean.
LEMMA FlagsStep ==
    ASSUME IInv, [Next]_vars
    PROVE  FlagsOK'
<1> USE RoundsAssumption, BlocksAssumption, BoundsAssumption
        DEF IInv, NoRound, RoundIds, vars, dbVars, procVars, cacheVars, loopVars,
            refreshVars, handlerVars, envVars
<1>1. CASE Start
  BY <1>1 DEF Start, Bootstrap, TypeOK, FlagsOK
<1>2. CASE Terminate
  BY <1>2 DEF Terminate, TypeOK, FlagsOK
<1>3. CASE Exit
  BY <1>3 DEF Exit, Die, TypeOK, FlagsOK
<1>4. CASE Crash
  BY <1>4 DEF Crash, Die, TypeOK, FlagsOK
<1>5. CASE SeedFromTable
  BY <1>5 DEF SeedFromTable, TypeOK, FlagsOK
<1>6. CASE Wake
  BY <1>6 DEF Wake, TypeOK, FlagsOK
<1>7. CASE LoopCancelled
  BY <1>7 DEF LoopCancelled, TypeOK, FlagsOK
<1>8. CASE ListUnconfirmed
  BY <1>8 DEF ListUnconfirmed, TypeOK, FlagsOK
<1>9. CASE ListFails
  BY <1>9 DEF ListFails, TypeOK, FlagsOK
<1>10. ASSUME NEW b \in Blocks, PollBlock(b) PROVE FlagsOK'
  BY <1>10 DEF PollBlock, TypeOK, FlagsOK
<1>11. ASSUME NEW b \in Blocks, PollFails(b) PROVE FlagsOK'
  BY <1>11 DEF PollFails, TypeOK, FlagsOK
<1>12. CASE MarkOrphaned
  BY <1>12 DEF MarkOrphaned, SetOrphaned, CallFailed, TypeOK, FlagsOK
<1>13. CASE ConfirmBlock
  BY <1>13 DEF ConfirmBlock, CloseRound, CallFailed, TypeOK, FlagsOK
<1>14. CASE PublishRound
  BY <1>14 DEF PublishRound, TypeOK, FlagsOK
<1>15. CASE FinishPass
  BY <1>15 DEF FinishPass, TypeOK, FlagsOK
<1>16. CASE Tick
  BY <1>16 DEF Tick, TypeOK, FlagsOK
<1>17. CASE RefreshBegin
  BY <1>17 DEF RefreshBegin, TypeOK, FlagsOK
<1>18. CASE RefreshStore
  BY <1>18 DEF RefreshStore, TypeOK, FlagsOK
<1>19. CASE RefreshFails
  BY <1>19 DEF RefreshFails, TypeOK, FlagsOK
<1>20. ASSUME NEW b \in Blocks, BlockFound(b) PROVE FlagsOK'
  BY <1>20 DEF BlockFound, TypeOK, FlagsOK
<1>21. ASSUME NEW b \in Blocks, RecordUnconfirmedBlock(b) PROVE FlagsOK'
  BY <1>21 DEF RecordUnconfirmedBlock, InsertBlock, TypeOK, FlagsOK
<1>22. ASSUME NEW b \in Blocks, SignalBlockPending(b) PROVE FlagsOK'
  BY <1>22 DEF SignalBlockPending, TypeOK, FlagsOK
<1>23. ASSUME NEW b \in Blocks, Propagate(b) PROVE FlagsOK'
  BY <1>23 DEF Propagate, ChainStep, TypeOK, FlagsOK
<1>24. ASSUME NEW b \in Blocks, Bury(b) PROVE FlagsOK'
  BY <1>24 DEF Bury, ChainStep, TypeOK, FlagsOK
<1>25. ASSUME NEW b \in Blocks, Reorg(b) PROVE FlagsOK'
  <2>1. /\ UNCHANGED <<dbVars, procVars, cacheVars, blockPending, loopVars, refreshVars,
                       handlerVars, stops>>
        /\ reorgs' = reorgs + 1 /\ reorgs < MaxReorgs
        /\ \E to \in {"shallow", "stale"} : chain' = [chain EXCEPT ![b] = to]
    BY <1>25 DEF Reorg, ChainStep
  <2> QED BY <2>1 DEF TypeOK, FlagsOK
<1>26. CASE UNCHANGED vars
  BY <1>26 DEF TypeOK, FlagsOK
<1> QED
  BY <1>1, <1>2, <1>3, <1>4, <1>5, <1>6, <1>7, <1>8, <1>9, <1>10, <1>11, <1>12,
     <1>13, <1>14, <1>15, <1>16, <1>17, <1>18, <1>19, <1>20, <1>21, <1>22,
     <1>23, <1>24, <1>25, <1>26
  DEF Next, Process, Loop, Refresh, Handler, Chain

\* Every step keeps the other variables in their types.
LEMMA ValuesStep ==
    ASSUME IInv, [Next]_vars
    PROVE  ValuesOK'
<1> USE RoundsAssumption, BlocksAssumption, BoundsAssumption
        DEF IInv, NoRound, RoundIds, vars, dbVars, procVars, cacheVars, loopVars,
            refreshVars, handlerVars, envVars
<1>1. CASE Start
  BY <1>1 DEF Start, Bootstrap, TypeOK, ValuesOK
<1>2. CASE Terminate
  BY <1>2 DEF Terminate, TypeOK, ValuesOK
<1>3. CASE Exit
  BY <1>3 DEF Exit, Die, TypeOK, ValuesOK
<1>4. CASE Crash
  BY <1>4 DEF Crash, Die, TypeOK, ValuesOK
<1>5. CASE SeedFromTable
  BY <1>5 DEF SeedFromTable, Unconfirmed, Inserted, TypeOK, ValuesOK
<1>6. CASE Wake
  BY <1>6 DEF Wake, TypeOK, ValuesOK
<1>7. CASE LoopCancelled
  BY <1>7 DEF LoopCancelled, TypeOK, ValuesOK
<1>8. CASE ListUnconfirmed
  BY <1>8 DEF ListUnconfirmed, Unconfirmed, Inserted, TypeOK, ValuesOK
<1>9. CASE ListFails
  BY <1>9 DEF ListFails, TypeOK, ValuesOK
<1>10. ASSUME NEW b \in Blocks, PollBlock(b) PROVE ValuesOK'
  BY <1>10 DEF PollBlock, TypeOK, ValuesOK
<1>11. ASSUME NEW b \in Blocks, PollFails(b) PROVE ValuesOK'
  BY <1>11 DEF PollFails, TypeOK, ValuesOK
<1>12. CASE MarkOrphaned
  <2>1. current \in Blocks
    BY <1>12 DEF MarkOrphaned, MemoryInv, Unconfirmed, Inserted
  <2> QED BY <1>12, <2>1 DEF MarkOrphaned, SetOrphaned, CallFailed, TypeOK, ValuesOK
<1>13. CASE ConfirmBlock
  <2>1. current \in Blocks
    BY <1>13 DEF ConfirmBlock, MemoryInv, Unconfirmed, Inserted
  <2>2. /\ UNCHANGED <<procVars, cacheVars, batch, refreshVars, handlerVars, envVars>>
        /\ loopPc' \in {"publish", "check"} /\ current' \in {current, NoBlock}
        /\ \/ CloseRound /\ newRound' = ConfirmResult
           \/ CloseRound /\ UNCHANGED newRound
           \/ UNCHANGED dbVars /\ UNCHANGED newRound
    BY <1>13 DEF ConfirmBlock, CallFailed
  <2>3. CASE UNCHANGED dbVars /\ UNCHANGED newRound
    BY <2>1, <2>2, <2>3 DEF TypeOK, ValuesOK
  <2>4. CASE CloseRound
    <3>1. newRound' \in 0 .. MaxRounds
      BY <2>1, <2>2, <2>4 DEF CloseRound, ConfirmResult, TypeOK, ValuesOK
    <3> QED BY <2>1, <2>2, <2>4, <3>1 DEF CloseRound, TypeOK, ValuesOK
  <2> QED BY <2>2, <2>3, <2>4
<1>14. CASE PublishRound
  BY <1>14 DEF PublishRound, TypeOK, ValuesOK
<1>15. CASE FinishPass
  BY <1>15 DEF FinishPass, TypeOK, ValuesOK
<1>16. CASE Tick
  BY <1>16 DEF Tick, TypeOK, ValuesOK
<1>17. CASE RefreshBegin
  BY <1>17 DEF RefreshBegin, TypeOK, ValuesOK
<1>18. CASE RefreshStore
  BY <1>18 DEF RefreshStore, TypeOK, ValuesOK
<1>19. CASE RefreshFails
  BY <1>19 DEF RefreshFails, TypeOK, ValuesOK
<1>20. ASSUME NEW b \in Blocks, BlockFound(b) PROVE ValuesOK'
  BY <1>20 DEF BlockFound, TypeOK, ValuesOK
<1>21. ASSUME NEW b \in Blocks, RecordUnconfirmedBlock(b) PROVE ValuesOK'
  <2>1. /\ handlerRound[b] \in 0 .. MaxRounds
        /\ \E pc \in {"signal", "done"} : handlerPc' = [handlerPc EXCEPT ![b] = pc]
        /\ UNCHANGED <<lastRound, closedBy, confirmed, orphaned, procVars, cacheVars,
                       loopVars, refreshVars, handlerRound, envVars>>
        /\ missed' \in {missed, missed \cup {b}}
    BY <1>21 DEF RecordUnconfirmedBlock, InsertBlock, TypeOK, ValuesOK
  <2>2. CASE UNCHANGED dbVars
    BY <2>1, <2>2 DEF TypeOK, ValuesOK
  <2>3. CASE InsertBlock(b)
    BY <2>1, <2>3, InsertedCount DEF InsertBlock, TypeOK, ValuesOK
  <2> QED BY <1>21, <2>2, <2>3 DEF RecordUnconfirmedBlock
<1>22. ASSUME NEW b \in Blocks, SignalBlockPending(b) PROVE ValuesOK'
  BY <1>22 DEF SignalBlockPending, TypeOK, ValuesOK
<1>23. ASSUME NEW b \in Blocks, Propagate(b) PROVE ValuesOK'
  BY <1>23 DEF Propagate, ChainStep, TypeOK, ValuesOK
<1>24. ASSUME NEW b \in Blocks, Bury(b) PROVE ValuesOK'
  BY <1>24 DEF Bury, ChainStep, TypeOK, ValuesOK
<1>25. ASSUME NEW b \in Blocks, Reorg(b) PROVE ValuesOK'
  <2>1. /\ UNCHANGED <<dbVars, procVars, cacheVars, blockPending, loopVars, refreshVars,
                       handlerVars, stops>>
        /\ reorgs' = reorgs + 1 /\ reorgs < MaxReorgs
        /\ \E to \in {"shallow", "stale"} : chain' = [chain EXCEPT ![b] = to]
    BY <1>25 DEF Reorg, ChainStep
  <2> QED BY <2>1 DEF TypeOK, ValuesOK
<1>26. CASE UNCHANGED vars
  BY <1>26 DEF TypeOK, ValuesOK
<1> QED
  BY <1>1, <1>2, <1>3, <1>4, <1>5, <1>6, <1>7, <1>8, <1>9, <1>10, <1>11, <1>12,
     <1>13, <1>14, <1>15, <1>16, <1>17, <1>18, <1>19, <1>20, <1>21, <1>22,
     <1>23, <1>24, <1>25, <1>26
  DEF Next, Process, Loop, Refresh, Handler, Chain

\* Every step preserves what holds of the tables.
LEMMA TablesStep ==
    ASSUME IInv, [Next]_vars
    PROVE  TablesInv'
<1> USE RoundsAssumption, BlocksAssumption, BoundsAssumption
        DEF IInv, NoRound, RoundIds, vars, dbVars, procVars, cacheVars, loopVars,
            refreshVars, handlerVars, envVars
<1>1. CASE Start
  <2>1. UNCHANGED <<closedBy, roundOf, foundAt, confirmed, orphaned>>
    BY <1>1 DEF Start
  <2>2. CASE UNCHANGED lastRound
    BY <2>1, <2>2 DEF TablesInv, RoundsClosedByTheirBlocks, SettledOnce, Rounds, Inserted
  <2>3. CASE lastRound = 0 /\ lastRound' = 1
    <3>1. \A r \in RoundIds : closedBy[r] = NoBlock
      BY <2>3 DEF TablesInv
    <3> QED
      BY <2>1, <2>3, <3>1 DEF TablesInv, RoundsClosedByTheirBlocks, SettledOnce, Rounds,
         Inserted, TypeOK, ValuesOK
  <2> QED BY <1>1, <2>2, <2>3, StartRounds
<1>2. CASE Terminate
  BY <1>2 DEF Terminate, TablesInv, RoundsClosedByTheirBlocks, SettledOnce,
     Rounds, Inserted
<1>3. CASE Exit
  BY <1>3 DEF Exit, Die, TablesInv, RoundsClosedByTheirBlocks, SettledOnce,
     Rounds, Inserted
<1>4. CASE Crash
  BY <1>4 DEF Crash, Die, TablesInv, RoundsClosedByTheirBlocks, SettledOnce,
     Rounds, Inserted
<1>5. CASE SeedFromTable
  BY <1>5 DEF SeedFromTable, TablesInv, RoundsClosedByTheirBlocks, SettledOnce,
     Rounds, Inserted
<1>6. CASE Wake
  BY <1>6 DEF Wake, TablesInv, RoundsClosedByTheirBlocks, SettledOnce, Rounds,
     Inserted
<1>7. CASE LoopCancelled
  BY <1>7 DEF LoopCancelled, TablesInv, RoundsClosedByTheirBlocks, SettledOnce,
     Rounds, Inserted
<1>8. CASE ListUnconfirmed
  BY <1>8 DEF ListUnconfirmed, TablesInv, RoundsClosedByTheirBlocks,
     SettledOnce, Rounds, Inserted
<1>9. CASE ListFails
  BY <1>9 DEF ListFails, TablesInv, RoundsClosedByTheirBlocks, SettledOnce,
     Rounds, Inserted
<1>10. ASSUME NEW b \in Blocks, PollBlock(b) PROVE TablesInv'
  BY <1>10 DEF PollBlock, TablesInv, RoundsClosedByTheirBlocks, SettledOnce,
     Rounds, Inserted
<1>11. ASSUME NEW b \in Blocks, PollFails(b) PROVE TablesInv'
  BY <1>11 DEF PollFails, TablesInv, RoundsClosedByTheirBlocks, SettledOnce,
     Rounds, Inserted
<1>12. CASE MarkOrphaned
  BY <1>12 DEF MarkOrphaned, SetOrphaned, MemoryInv, Unconfirmed, TablesInv,
     RoundsClosedByTheirBlocks, SettledOnce, Rounds, Inserted
<1>13. CASE ConfirmBlock
  <2>1. /\ current \in Unconfirmed /\ current \in Blocks /\ current # NoBlock
        /\ roundOf[current] \in Rounds
    BY <1>13 DEF ConfirmBlock, MemoryInv, Unconfirmed, Inserted, TablesInv, Rounds,
       TypeOK, ValuesOK
  <2>2. CASE UNCHANGED dbVars
    BY <2>2 DEF TablesInv, RoundsClosedByTheirBlocks, SettledOnce, Rounds, Inserted
  <2>3. CASE CloseRound
    <3>1. /\ confirmed' = confirmed \cup {current}
          /\ UNCHANGED <<roundOf, foundAt, orphaned>> /\ Inserted' = Inserted
      BY <2>3 DEF CloseRound, Inserted
    <3>2. CASE closedBy[roundOf[current]] # NoBlock
      <4>1. UNCHANGED <<closedBy, lastRound>>
        BY <2>3, <3>2 DEF CloseRound
      <4> QED
        BY <2>1, <3>1, <3>2, <4>1 DEF TablesInv, RoundsClosedByTheirBlocks, SettledOnce,
           Rounds, Unconfirmed
    <3>3. CASE closedBy[roundOf[current]] = NoBlock
      <4>1. /\ lastRound < MaxRounds /\ roundOf[current] = lastRound
            /\ closedBy' = [closedBy EXCEPT ![lastRound] = current]
            /\ lastRound' = lastRound + 1
        BY <2>1, <2>3, <3>3 DEF CloseRound, TablesInv, Rounds, TypeOK, ValuesOK
      <4> QED
        BY <2>1, <3>1, <4>1 DEF TablesInv, RoundsClosedByTheirBlocks, SettledOnce, Rounds,
           Unconfirmed, TypeOK, ValuesOK
    <3> QED BY <3>2, <3>3
  <2> QED BY <1>13, <2>2, <2>3 DEF ConfirmBlock
<1>14. CASE PublishRound
  BY <1>14 DEF PublishRound, TablesInv, RoundsClosedByTheirBlocks, SettledOnce,
     Rounds, Inserted
<1>15. CASE FinishPass
  BY <1>15 DEF FinishPass, TablesInv, RoundsClosedByTheirBlocks, SettledOnce,
     Rounds, Inserted
<1>16. CASE Tick
  BY <1>16 DEF Tick, TablesInv, RoundsClosedByTheirBlocks, SettledOnce, Rounds,
     Inserted
<1>17. CASE RefreshBegin
  BY <1>17 DEF RefreshBegin, TablesInv, RoundsClosedByTheirBlocks, SettledOnce,
     Rounds, Inserted
<1>18. CASE RefreshStore
  BY <1>18 DEF RefreshStore, TablesInv, RoundsClosedByTheirBlocks, SettledOnce,
     Rounds, Inserted
<1>19. CASE RefreshFails
  BY <1>19 DEF RefreshFails, TablesInv, RoundsClosedByTheirBlocks, SettledOnce,
     Rounds, Inserted
<1>20. ASSUME NEW b \in Blocks, BlockFound(b) PROVE TablesInv'
  BY <1>20 DEF BlockFound, TablesInv, RoundsClosedByTheirBlocks, SettledOnce,
     Rounds, Inserted
<1>21. ASSUME NEW b \in Blocks, RecordUnconfirmedBlock(b) PROVE TablesInv'
  <2>1. /\ handlerPc[b] = "record" /\ handlerRound[b] \in 1 .. lastRound
        /\ b \notin Inserted
    BY <1>21 DEF RecordUnconfirmedBlock, MemoryInv, Inserted, Rounds
  <2>2. CASE UNCHANGED dbVars
    BY <2>2 DEF TablesInv, RoundsClosedByTheirBlocks, SettledOnce, Rounds, Inserted
  <2>3. CASE InsertBlock(b)
    <3>1. /\ roundOf' = [roundOf EXCEPT ![b] = handlerRound[b]]
          /\ UNCHANGED <<lastRound, closedBy, confirmed, orphaned>>
      BY <2>3 DEF InsertBlock
    <3>2. Inserted' = Inserted \cup {b}
      BY <2>1, <3>1 DEF Inserted, TypeOK, ValuesOK, TablesInv
    <3> QED
      BY <2>1, <3>1, <3>2 DEF TablesInv, RoundsClosedByTheirBlocks, SettledOnce, Rounds,
         TypeOK, ValuesOK
  <2> QED BY <1>21, <2>2, <2>3 DEF RecordUnconfirmedBlock
<1>22. ASSUME NEW b \in Blocks, SignalBlockPending(b) PROVE TablesInv'
  BY <1>22 DEF SignalBlockPending, TablesInv, RoundsClosedByTheirBlocks,
     SettledOnce, Rounds, Inserted
<1>23. ASSUME NEW b \in Blocks, Propagate(b) PROVE TablesInv'
  BY <1>23 DEF Propagate, ChainStep, TablesInv, RoundsClosedByTheirBlocks,
     SettledOnce, Rounds, Inserted
<1>24. ASSUME NEW b \in Blocks, Bury(b) PROVE TablesInv'
  BY <1>24 DEF Bury, ChainStep, TablesInv, RoundsClosedByTheirBlocks,
     SettledOnce, Rounds, Inserted
<1>25. ASSUME NEW b \in Blocks, Reorg(b) PROVE TablesInv'
  <2>1. /\ UNCHANGED <<dbVars, procVars, cacheVars, blockPending, loopVars, refreshVars,
                       handlerVars, stops>>
        /\ reorgs' = reorgs + 1 /\ reorgs < MaxReorgs
        /\ \E to \in {"shallow", "stale"} : chain' = [chain EXCEPT ![b] = to]
    BY <1>25 DEF Reorg, ChainStep
  <2> QED BY <2>1 DEF TablesInv, RoundsClosedByTheirBlocks, SettledOnce, Rounds, Inserted
<1>26. CASE UNCHANGED vars
  BY <1>26 DEF TablesInv, RoundsClosedByTheirBlocks, SettledOnce, Rounds,
     Inserted
<1> QED
  BY <1>1, <1>2, <1>3, <1>4, <1>5, <1>6, <1>7, <1>8, <1>9, <1>10, <1>11, <1>12,
     <1>13, <1>14, <1>15, <1>16, <1>17, <1>18, <1>19, <1>20, <1>21, <1>22,
     <1>23, <1>24, <1>25, <1>26
  DEF Next, Process, Loop, Refresh, Handler, Chain

\* Every step preserves what holds of the process.
LEMMA MemoryStep ==
    ASSUME IInv, [Next]_vars
    PROVE  MemoryInv'
<1> USE RoundsAssumption, BlocksAssumption, BoundsAssumption
        DEF IInv, NoRound, RoundIds, vars, dbVars, procVars, cacheVars, loopVars,
            refreshVars, handlerVars, envVars
<1>1. CASE Start
  <2>1. roundID' \in 1 .. lastRound'
    BY <1>1 DEF Start
  <2>2. lastRound \in Nat /\ lastRound' \in Nat /\ lastRound <= lastRound'
    BY <1>1 DEF Start, Bootstrap, TypeOK, ValuesOK
  <2>3. /\ batch' = {} /\ loopPc' = "seed" /\ proc' = "up" /\ proc = "down"
        /\ UNCHANGED <<roundOf, handlerPc, handlerRound>>
    BY <1>1 DEF Start
  <2>4. \A b \in Blocks : handlerPc[b] = "record" => handlerRound'[b] \in 1 .. lastRound'
    BY <2>2, <2>3 DEF MemoryInv, Rounds
  <2> QED BY <2>1, <2>3, <2>4 DEF MemoryInv, Rounds
<1>2. CASE Terminate
  BY <1>2 DEF Terminate, MemoryInv, Rounds, Inserted, Unconfirmed, TypeOK,
     ValuesOK
<1>3. CASE Exit
  BY <1>3 DEF Exit, Die, MemoryInv, Rounds, Inserted, Unconfirmed, TypeOK,
     ValuesOK
<1>4. CASE Crash
  BY <1>4 DEF Crash, Die, MemoryInv, Rounds, Inserted, Unconfirmed, TypeOK,
     ValuesOK
<1>5. CASE SeedFromTable
  BY <1>5 DEF SeedFromTable, MemoryInv, Rounds, Inserted, Unconfirmed, TypeOK,
     ValuesOK
<1>6. CASE Wake
  BY <1>6 DEF Wake, MemoryInv, Rounds, Inserted, Unconfirmed, TypeOK, ValuesOK
<1>7. CASE LoopCancelled
  BY <1>7 DEF LoopCancelled, MemoryInv, Rounds, Inserted, Unconfirmed, TypeOK,
     ValuesOK
<1>8. CASE ListUnconfirmed
  BY <1>8 DEF ListUnconfirmed, MemoryInv, Rounds, Inserted, Unconfirmed, TypeOK,
     ValuesOK
<1>9. CASE ListFails
  BY <1>9 DEF ListFails, MemoryInv, Rounds, Inserted, Unconfirmed, TypeOK,
     ValuesOK
<1>10. ASSUME NEW b \in Blocks, PollBlock(b) PROVE MemoryInv'
  <2>1. CASE chain[b] = "shallow"
    BY <1>10, <2>1 DEF PollBlock, IsOldest, MemoryInv, Rounds, Inserted, Unconfirmed
  <2>2. CASE chain[b] # "shallow"
    <3>1. /\ batch' = batch \ {b} /\ b \in batch
          /\ current' = b /\ loopPc = "check" /\ loopPc' \in {"orphan", "confirm"}
          /\ UNCHANGED <<dbVars, procVars, cacheVars, handlerVars, newRound, refreshVars>>
      BY <1>10, <2>2 DEF PollBlock, IsOldest
    <3> QED BY <3>1 DEF MemoryInv, Rounds, Inserted, Unconfirmed
  <2> QED BY <2>1, <2>2
<1>11. ASSUME NEW b \in Blocks, PollFails(b) PROVE MemoryInv'
  BY <1>11 DEF PollFails, MemoryInv, Rounds, Inserted, Unconfirmed, TypeOK,
     ValuesOK
<1>12. CASE MarkOrphaned
  BY <1>12 DEF MarkOrphaned, SetOrphaned, CallFailed, MemoryInv, Rounds, Inserted,
     Unconfirmed
<1>13. CASE ConfirmBlock
  <2>1. /\ loopPc = "confirm" /\ current \in Unconfirmed /\ current \notin batch
        /\ roundOf[current] \in Rounds /\ proc # "down"
    BY <1>13 DEF ConfirmBlock, MemoryInv, Unconfirmed, Inserted, TablesInv, Rounds,
       TypeOK, ValuesOK
  <2>2. /\ UNCHANGED <<procVars, cacheVars, batch, refreshVars, handlerVars, envVars>>
        /\ \/ CloseRound /\ newRound' = ConfirmResult /\ loopPc' = "publish"
           \/ (CloseRound \/ UNCHANGED dbVars) /\ loopPc' = "check"
    BY <1>13 DEF ConfirmBlock, CallFailed
  <2>3. CASE UNCHANGED dbVars /\ loopPc' = "check"
    BY <2>1, <2>2, <2>3 DEF MemoryInv, Rounds, Inserted, Unconfirmed
  <2>4. CASE CloseRound
    <3>1. UNCHANGED roundOf /\ Unconfirmed' = Unconfirmed \ {current}
      BY <2>4 DEF CloseRound, Inserted, Unconfirmed
    <3>2. lastRound' \in {lastRound, lastRound + 1} /\ ConfirmResult \in 1 .. lastRound'
      BY <2>1, <2>4 DEF CloseRound, ConfirmResult, Rounds, TypeOK, ValuesOK
    <3> QED BY <2>1, <2>2, <3>1, <3>2 DEF MemoryInv, Rounds, TypeOK, ValuesOK
  <2> QED BY <2>2, <2>3, <2>4
<1>14. CASE PublishRound
  BY <1>14 DEF PublishRound, MemoryInv, Rounds, Inserted, Unconfirmed, TypeOK,
     ValuesOK
<1>15. CASE FinishPass
  BY <1>15 DEF FinishPass, MemoryInv, Rounds, Inserted, Unconfirmed, TypeOK,
     ValuesOK
<1>16. CASE Tick
  BY <1>16 DEF Tick, MemoryInv, Rounds, Inserted, Unconfirmed, TypeOK, ValuesOK
<1>17. CASE RefreshBegin
  BY <1>17 DEF RefreshBegin, MemoryInv, Rounds, Inserted, Unconfirmed, TypeOK,
     ValuesOK
<1>18. CASE RefreshStore
  BY <1>18 DEF RefreshStore, MemoryInv, Rounds, Inserted, Unconfirmed, TypeOK,
     ValuesOK
<1>19. CASE RefreshFails
  BY <1>19 DEF RefreshFails, MemoryInv, Rounds, Inserted, Unconfirmed, TypeOK,
     ValuesOK
<1>20. ASSUME NEW b \in Blocks, BlockFound(b) PROVE MemoryInv'
  BY <1>20 DEF BlockFound, MemoryInv, Rounds, Inserted, Unconfirmed, TypeOK,
     ValuesOK
<1>21. ASSUME NEW b \in Blocks, RecordUnconfirmedBlock(b) PROVE MemoryInv'
  <2>1. /\ handlerPc[b] = "record" /\ handlerRound[b] \in 1 .. lastRound
        /\ b \notin Inserted
    BY <1>21 DEF RecordUnconfirmedBlock, MemoryInv, Inserted, Rounds
  <2>2. /\ \E pc \in {"signal", "done"} : handlerPc' = [handlerPc EXCEPT ![b] = pc]
        /\ UNCHANGED <<lastRound, closedBy, confirmed, orphaned, procVars, cacheVars,
                       loopVars, refreshVars, handlerRound, envVars>>
    BY <1>21 DEF RecordUnconfirmedBlock, InsertBlock
  <2>3. CASE UNCHANGED dbVars
    BY <2>1, <2>2, <2>3 DEF MemoryInv, Rounds, Inserted, Unconfirmed, TypeOK, ValuesOK
  <2>4. CASE InsertBlock(b)
    <3>1. roundOf' = [roundOf EXCEPT ![b] = handlerRound[b]]
      BY <2>4 DEF InsertBlock
    <3>2. Unconfirmed' = Unconfirmed \cup {b}
      BY <2>1, <2>2, <3>1 DEF Inserted, Unconfirmed, TypeOK, ValuesOK, TablesInv
    <3> QED BY <2>1, <2>2, <3>1, <3>2 DEF MemoryInv, Rounds, TypeOK, ValuesOK
  <2> QED BY <1>21, <2>3, <2>4 DEF RecordUnconfirmedBlock
<1>22. ASSUME NEW b \in Blocks, SignalBlockPending(b) PROVE MemoryInv'
  BY <1>22 DEF SignalBlockPending, MemoryInv, Rounds, Inserted, Unconfirmed,
     TypeOK, ValuesOK
<1>23. ASSUME NEW b \in Blocks, Propagate(b) PROVE MemoryInv'
  BY <1>23 DEF Propagate, ChainStep, MemoryInv, Rounds, Inserted, Unconfirmed,
     TypeOK, ValuesOK
<1>24. ASSUME NEW b \in Blocks, Bury(b) PROVE MemoryInv'
  BY <1>24 DEF Bury, ChainStep, MemoryInv, Rounds, Inserted, Unconfirmed,
     TypeOK, ValuesOK
<1>25. ASSUME NEW b \in Blocks, Reorg(b) PROVE MemoryInv'
  <2>1. /\ UNCHANGED <<dbVars, procVars, cacheVars, blockPending, loopVars, refreshVars,
                       handlerVars, stops>>
        /\ reorgs' = reorgs + 1 /\ reorgs < MaxReorgs
        /\ \E to \in {"shallow", "stale"} : chain' = [chain EXCEPT ![b] = to]
    BY <1>25 DEF Reorg, ChainStep
  <2> QED BY <2>1 DEF MemoryInv, Rounds, Inserted, Unconfirmed
<1>26. CASE UNCHANGED vars
  BY <1>26 DEF MemoryInv, Rounds, Inserted, Unconfirmed, TypeOK, ValuesOK
<1> QED
  BY <1>1, <1>2, <1>3, <1>4, <1>5, <1>6, <1>7, <1>8, <1>9, <1>10, <1>11, <1>12,
     <1>13, <1>14, <1>15, <1>16, <1>17, <1>18, <1>19, <1>20, <1>21, <1>22,
     <1>23, <1>24, <1>25, <1>26
  DEF Next, Process, Loop, Refresh, Handler, Chain

-----------------------------------------------------------------------------
(* Safety *)

\* The invariant holds of every reachable state.
THEOREM Invariance == Spec => []IInv
<1>1. IInv /\ [Next]_vars => IInv'
  BY FlagsStep, ValuesStep, TablesStep, MemoryStep DEF IInv, TypeOK
<1> QED BY InitIInv, <1>1, PTL DEF Spec

\* Type correctness of the rounds machine.
THEOREM TypeCorrect == Spec => []TypeOK
<1>1. IInv => TypeOK
  BY DEF IInv
<1> QED BY Invariance, <1>1, PTL

\* After the first start there is always exactly one open round, the newest:
\* ConfirmBlock's transaction and the bootstrap of a restart never leave the
\* table without an open round and never open a second one.
THEOREM AlwaysOneOpenRound == Spec => []OneOpenRound
<1>1. ASSUME IInv, lastRound > 0 PROVE OpenRounds = {lastRound}
  <2>1. lastRound \in 1 .. MaxRounds /\ lastRound \in Rounds
    BY <1>1, RoundsAssumption DEF IInv, TypeOK, ValuesOK, Rounds
  <2>2. \A r \in Rounds : closedBy[r] = NoBlock <=> r = lastRound
    BY <1>1, <2>1, RoundsAssumption DEF IInv, TablesInv, Rounds, RoundIds
  <2> QED BY <2>1, <2>2 DEF OpenRounds
<1>2. IInv => OneOpenRound
  BY <1>1 DEF OneOpenRound
<1> QED BY Invariance, <1>2, PTL

\* A round is closed by a confirmed block that was found in it, and a confirmed
\* block has closed its round or found it closed.
THEOREM RoundsAlwaysClosedByTheirBlocks == Spec => []RoundsClosedByTheirBlocks
<1>1. IInv => RoundsClosedByTheirBlocks
  BY DEF IInv, TablesInv
<1> QED BY Invariance, <1>1, PTL

\* checkConfirmations never settles a block twice.
THEOREM BlocksSettleOnce == Spec => []SettledOnce
<1>1. IInv => SettledOnce
  BY DEF IInv, TablesInv
<1> QED BY Invariance, <1>1, PTL

-----------------------------------------------------------------------------
(* Wake-ups *)

\* Every step keeps a wake-up for what the loop does not hold and can know of.
LEMMA WakeupStep ==
    ASSUME IInv, WakeupInv, [Next]_vars
    PROVE  WakeupInv'
<1> USE RoundsAssumption, BlocksAssumption, BoundsAssumption
        DEF IInv, NoRound, RoundIds, vars, dbVars, procVars, cacheVars, loopVars,
            refreshVars, handlerVars, envVars
<1>1. CASE Start
  BY <1>1 DEF Start, Bootstrap, WakeupInv, NoLostWakeup, Held, Unconfirmed,
     Inserted, TypeOK, ValuesOK, MemoryInv, MayFail, LoopCallFails
<1>2. CASE Terminate
  BY <1>2 DEF Terminate, WakeupInv, NoLostWakeup, Held, Unconfirmed, Inserted,
     TypeOK, ValuesOK, MemoryInv, MayFail, LoopCallFails
<1>3. CASE Exit
  BY <1>3 DEF Exit, Die, WakeupInv, NoLostWakeup, Held, Unconfirmed, Inserted,
     TypeOK, ValuesOK, MemoryInv, MayFail, LoopCallFails
<1>4. CASE Crash
  BY <1>4 DEF Crash, Die, WakeupInv, NoLostWakeup, Held, Unconfirmed, Inserted,
     TypeOK, ValuesOK, MemoryInv, MayFail, LoopCallFails
<1>5. CASE SeedFromTable
  BY <1>5 DEF SeedFromTable, WakeupInv, NoLostWakeup, Held, Unconfirmed,
     Inserted, TypeOK, ValuesOK, MemoryInv, MayFail, LoopCallFails
<1>6. CASE Wake
  BY <1>6 DEF Wake, WakeupInv, NoLostWakeup, Held, Unconfirmed, Inserted,
     TypeOK, ValuesOK, MemoryInv, MayFail, LoopCallFails
<1>7. CASE LoopCancelled
  BY <1>7 DEF LoopCancelled, WakeupInv, NoLostWakeup, Held, Unconfirmed,
     Inserted, TypeOK, ValuesOK, MemoryInv, MayFail, LoopCallFails
<1>8. CASE ListUnconfirmed
  BY <1>8 DEF ListUnconfirmed, WakeupInv, NoLostWakeup, Held, Unconfirmed,
     Inserted, TypeOK, ValuesOK, MemoryInv, MayFail, LoopCallFails
<1>9. CASE ListFails
  BY <1>9 DEF ListFails, WakeupInv, NoLostWakeup, Held, Unconfirmed, Inserted,
     TypeOK, ValuesOK, MemoryInv, MayFail, LoopCallFails
<1>10. ASSUME NEW b \in Blocks, PollBlock(b) PROVE WakeupInv'
  BY <1>10 DEF PollBlock, WakeupInv, NoLostWakeup, Held, Unconfirmed, Inserted,
     TypeOK, ValuesOK, MemoryInv, MayFail, LoopCallFails
<1>11. ASSUME NEW b \in Blocks, PollFails(b) PROVE WakeupInv'
  BY <1>11 DEF PollFails, WakeupInv, NoLostWakeup, Held, Unconfirmed, Inserted,
     TypeOK, ValuesOK, MemoryInv, MayFail, LoopCallFails
<1>12. CASE MarkOrphaned
  BY <1>12 DEF MarkOrphaned, SetOrphaned, CallFailed, WakeupInv, NoLostWakeup,
     Held, Unconfirmed, Inserted, TypeOK, ValuesOK, MemoryInv, MayFail,
     LoopCallFails
<1>13. CASE ConfirmBlock
  BY <1>13 DEF ConfirmBlock, CloseRound, CallFailed, WakeupInv, NoLostWakeup,
     Held, Unconfirmed, Inserted, TypeOK, ValuesOK, MemoryInv, MayFail,
     LoopCallFails
<1>14. CASE PublishRound
  BY <1>14 DEF PublishRound, WakeupInv, NoLostWakeup, Held, Unconfirmed,
     Inserted, TypeOK, ValuesOK, MemoryInv, MayFail, LoopCallFails
<1>15. CASE FinishPass
  BY <1>15 DEF FinishPass, WakeupInv, NoLostWakeup, Held, Unconfirmed, Inserted,
     TypeOK, ValuesOK, MemoryInv, MayFail, LoopCallFails
<1>16. CASE Tick
  BY <1>16 DEF Tick, WakeupInv, NoLostWakeup, Held, Unconfirmed, Inserted,
     TypeOK, ValuesOK, MemoryInv, MayFail, LoopCallFails
<1>17. CASE RefreshBegin
  BY <1>17 DEF RefreshBegin, WakeupInv, NoLostWakeup, Held, Unconfirmed,
     Inserted, TypeOK, ValuesOK, MemoryInv, MayFail, LoopCallFails
<1>18. CASE RefreshStore
  BY <1>18 DEF RefreshStore, WakeupInv, NoLostWakeup, Held, Unconfirmed,
     Inserted, TypeOK, ValuesOK, MemoryInv, MayFail, LoopCallFails
<1>19. CASE RefreshFails
  BY <1>19 DEF RefreshFails, WakeupInv, NoLostWakeup, Held, Unconfirmed,
     Inserted, TypeOK, ValuesOK, MemoryInv, MayFail, LoopCallFails
<1>20. ASSUME NEW b \in Blocks, BlockFound(b) PROVE WakeupInv'
  BY <1>20 DEF BlockFound, WakeupInv, NoLostWakeup, Held, Unconfirmed, Inserted,
     TypeOK, ValuesOK, MemoryInv, MayFail, LoopCallFails
<1>21. ASSUME NEW b \in Blocks, RecordUnconfirmedBlock(b) PROVE WakeupInv'
  BY <1>21 DEF RecordUnconfirmedBlock, InsertBlock, WakeupInv, NoLostWakeup,
     Held, Unconfirmed, Inserted, TypeOK, ValuesOK, MemoryInv, MayFail,
     LoopCallFails
<1>22. ASSUME NEW b \in Blocks, SignalBlockPending(b) PROVE WakeupInv'
  BY <1>22 DEF SignalBlockPending, WakeupInv, NoLostWakeup, Held, Unconfirmed,
     Inserted, TypeOK, ValuesOK, MemoryInv, MayFail, LoopCallFails
<1>23. ASSUME NEW b \in Blocks, Propagate(b) PROVE WakeupInv'
  BY <1>23 DEF Propagate, ChainStep, WakeupInv, NoLostWakeup, Held, Unconfirmed,
     Inserted, TypeOK, ValuesOK, MemoryInv, MayFail, LoopCallFails
<1>24. ASSUME NEW b \in Blocks, Bury(b) PROVE WakeupInv'
  BY <1>24 DEF Bury, ChainStep, WakeupInv, NoLostWakeup, Held, Unconfirmed,
     Inserted, TypeOK, ValuesOK, MemoryInv, MayFail, LoopCallFails
<1>25. ASSUME NEW b \in Blocks, Reorg(b) PROVE WakeupInv'
  <2>1. /\ UNCHANGED <<dbVars, procVars, cacheVars, blockPending, loopVars, refreshVars,
                       handlerVars, stops>>
        /\ reorgs' = reorgs + 1 /\ reorgs < MaxReorgs
        /\ \E to \in {"shallow", "stale"} : chain' = [chain EXCEPT ![b] = to]
    BY <1>25 DEF Reorg, ChainStep
  <2> QED BY <2>1 DEF WakeupInv, NoLostWakeup, Held, Unconfirmed, Inserted
<1>26. CASE UNCHANGED vars
  BY <1>26 DEF WakeupInv, NoLostWakeup, Held, Unconfirmed, Inserted, TypeOK,
     ValuesOK, MemoryInv, MayFail, LoopCallFails
<1> QED
  BY <1>1, <1>2, <1>3, <1>4, <1>5, <1>6, <1>7, <1>8, <1>9, <1>10, <1>11, <1>12,
     <1>13, <1>14, <1>15, <1>16, <1>17, <1>18, <1>19, <1>20, <1>21, <1>22,
     <1>23, <1>24, <1>25, <1>26
  DEF Next, Process, Loop, Refresh, Handler, Chain

\* The dropped signals of BlockFound lose no block: a sleeping loop has a wake-up
\* for each, for any number of blocks and whatever else fails.
THEOREM WakeupsAreNotLost == Spec => []NoLostWakeup
<1>1. Init => WakeupInv
  BY DEF Init, WakeupInv, NoLostWakeup
<1>2. IInv /\ WakeupInv /\ [Next]_vars => WakeupInv'
  BY WakeupStep
<1>3. WakeupInv => NoLostWakeup
  BY DEF WakeupInv
<1> QED BY Invariance, <1>1, <1>2, <1>3, PTL DEF Spec

-----------------------------------------------------------------------------
(* The round in memory *)

\* No commit of ConfirmBlock takes effect and is reported as an error.
NoLostCommit == "confirmAck" \notin FaultKinds

\* Then a step makes the round in memory differ from the open one only through
\* a late block.
LEMMA RoundIDStep ==
    ASSUME IInv, RoundIDInv, NoLostCommit, [Next]_vars
    PROVE  RoundIDInv'
<1> USE RoundsAssumption, BlocksAssumption, BoundsAssumption
        DEF IInv, NoRound, RoundIds, vars, dbVars, procVars, cacheVars, loopVars,
            refreshVars, handlerVars, envVars
<1>1. CASE Start
  BY <1>1, StartRounds DEF Start, RoundIDInv, RoundIDAgesOnlyByLateBlocks
<1>2. CASE Terminate
  BY <1>2 DEF Terminate, RoundIDInv, RoundIDAgesOnlyByLateBlocks, LateBlocks,
     MemoryInv, Rounds, TypeOK, ValuesOK
<1>3. CASE Exit
  BY <1>3 DEF Exit, Die, RoundIDInv, RoundIDAgesOnlyByLateBlocks, LateBlocks,
     MemoryInv, Rounds, TypeOK, ValuesOK
<1>4. CASE Crash
  BY <1>4 DEF Crash, Die, RoundIDInv, RoundIDAgesOnlyByLateBlocks, LateBlocks,
     MemoryInv, Rounds, TypeOK, ValuesOK
<1>5. CASE SeedFromTable
  BY <1>5 DEF SeedFromTable, RoundIDInv, RoundIDAgesOnlyByLateBlocks,
     LateBlocks, MemoryInv, Rounds, TypeOK, ValuesOK
<1>6. CASE Wake
  BY <1>6 DEF Wake, RoundIDInv, RoundIDAgesOnlyByLateBlocks, LateBlocks,
     MemoryInv, Rounds, TypeOK, ValuesOK
<1>7. CASE LoopCancelled
  BY <1>7 DEF LoopCancelled, RoundIDInv, RoundIDAgesOnlyByLateBlocks,
     LateBlocks, MemoryInv, Rounds, TypeOK, ValuesOK
<1>8. CASE ListUnconfirmed
  BY <1>8 DEF ListUnconfirmed, RoundIDInv, RoundIDAgesOnlyByLateBlocks,
     LateBlocks, MemoryInv, Rounds, TypeOK, ValuesOK
<1>9. CASE ListFails
  BY <1>9 DEF ListFails, RoundIDInv, RoundIDAgesOnlyByLateBlocks, LateBlocks,
     MemoryInv, Rounds, TypeOK, ValuesOK
<1>10. ASSUME NEW b \in Blocks, PollBlock(b) PROVE RoundIDInv'
  BY <1>10 DEF PollBlock, RoundIDInv, RoundIDAgesOnlyByLateBlocks, LateBlocks,
     MemoryInv, Rounds, TypeOK, ValuesOK
<1>11. ASSUME NEW b \in Blocks, PollFails(b) PROVE RoundIDInv'
  BY <1>11 DEF PollFails, RoundIDInv, RoundIDAgesOnlyByLateBlocks, LateBlocks,
     MemoryInv, Rounds, TypeOK, ValuesOK
<1>12. CASE MarkOrphaned
  BY <1>12 DEF MarkOrphaned, SetOrphaned, CallFailed, RoundIDInv,
     RoundIDAgesOnlyByLateBlocks, LateBlocks, MemoryInv, Rounds, TypeOK,
     ValuesOK
<1>13. CASE ConfirmBlock
  <2>1. /\ loopPc = "confirm" /\ current \in Unconfirmed
        /\ current \in Blocks /\ current # NoBlock
        /\ roundOf[current] \in Rounds
        /\ proc # "down" /\ roundID \in Rounds
    BY <1>13 DEF ConfirmBlock, MemoryInv, Unconfirmed, Inserted, TablesInv, Rounds,
       TypeOK, ValuesOK
  <2>2. CASE UNCHANGED dbVars /\ CallFailed
    BY <1>13, <2>1, <2>2 DEF ConfirmBlock, CallFailed, RoundIDInv,
       RoundIDAgesOnlyByLateBlocks, LateBlocks
  <2>3. CASE CloseRound /\ newRound' = ConfirmResult /\ loopPc' = "publish"
    <3>1. /\ confirmed' = confirmed \cup {current}
          /\ UNCHANGED <<roundOf, procVars, roundID>>
      BY <1>13, <2>3 DEF CloseRound, ConfirmBlock
    <3>2. CASE closedBy[roundOf[current]] # NoBlock
      <4>1. UNCHANGED <<closedBy, lastRound>> /\ newRound' = roundOf[current]
        BY <2>3, <3>2 DEF CloseRound, ConfirmResult
      <4>2. LateBlocks(roundID) \subseteq LateBlocks(roundID)'
        BY <3>1, <4>1 DEF LateBlocks
      <4>3. closedBy[roundOf[current]] # current
        BY <2>1, <3>2 DEF TablesInv, RoundsClosedByTheirBlocks, Unconfirmed
      <4>4. current \in LateBlocks(newRound)'
        BY <3>1, <4>1, <4>3 DEF LateBlocks
      <4> QED
        BY <2>1, <2>3, <3>1, <4>1, <4>2, <4>4
        DEF RoundIDInv, RoundIDAgesOnlyByLateBlocks, LateBlocks
    <3>3. CASE closedBy[roundOf[current]] = NoBlock
      <4>1. /\ roundOf[current] = lastRound
            /\ closedBy' = [closedBy EXCEPT ![lastRound] = current]
            /\ lastRound' = lastRound + 1 /\ newRound' = lastRound'
        BY <2>1, <2>3, <3>3 DEF CloseRound, ConfirmResult, TablesInv, Rounds,
           TypeOK, ValuesOK
      <4> QED BY <2>3, <4>1 DEF RoundIDInv, RoundIDAgesOnlyByLateBlocks
    <3> QED BY <3>2, <3>3
  <2> QED BY <1>13, <2>2, <2>3 DEF ConfirmBlock, CallFailed, MayFail, NoLostCommit
<1>14. CASE PublishRound
  BY <1>14 DEF PublishRound, RoundIDInv, RoundIDAgesOnlyByLateBlocks,
     LateBlocks, MemoryInv, Rounds, TypeOK, ValuesOK
<1>15. CASE FinishPass
  BY <1>15 DEF FinishPass, RoundIDInv, RoundIDAgesOnlyByLateBlocks, LateBlocks,
     MemoryInv, Rounds, TypeOK, ValuesOK
<1>16. CASE Tick
  BY <1>16 DEF Tick, RoundIDInv, RoundIDAgesOnlyByLateBlocks, LateBlocks,
     MemoryInv, Rounds, TypeOK, ValuesOK
<1>17. CASE RefreshBegin
  BY <1>17 DEF RefreshBegin, RoundIDInv, RoundIDAgesOnlyByLateBlocks,
     LateBlocks, MemoryInv, Rounds, TypeOK, ValuesOK
<1>18. CASE RefreshStore
  BY <1>18 DEF RefreshStore, RoundIDInv, RoundIDAgesOnlyByLateBlocks,
     LateBlocks, MemoryInv, Rounds, TypeOK, ValuesOK
<1>19. CASE RefreshFails
  BY <1>19 DEF RefreshFails, RoundIDInv, RoundIDAgesOnlyByLateBlocks,
     LateBlocks, MemoryInv, Rounds, TypeOK, ValuesOK
<1>20. ASSUME NEW b \in Blocks, BlockFound(b) PROVE RoundIDInv'
  BY <1>20 DEF BlockFound, RoundIDInv, RoundIDAgesOnlyByLateBlocks, LateBlocks,
     MemoryInv, Rounds, TypeOK, ValuesOK
<1>21. ASSUME NEW b \in Blocks, RecordUnconfirmedBlock(b) PROVE RoundIDInv'
  <2>1. b \notin confirmed
    BY <1>21 DEF RecordUnconfirmedBlock, MemoryInv, TablesInv, Inserted
  <2>2. /\ UNCHANGED <<lastRound, closedBy, confirmed, procVars, roundID, loopVars>>
        /\ \A c \in Blocks : c # b => roundOf'[c] = roundOf[c]
    BY <1>21 DEF RecordUnconfirmedBlock, InsertBlock, TypeOK, ValuesOK
  <2>3. \A r \in RoundIds : LateBlocks(r)' = LateBlocks(r)
    BY <2>1, <2>2 DEF LateBlocks, TypeOK, ValuesOK
  <2>4. /\ proc # "down" => roundID \in RoundIds
        /\ loopPc = "publish" => newRound \in RoundIds
    BY DEF MemoryInv, Rounds, TypeOK, ValuesOK
  <2> QED
    BY <2>2, <2>3, <2>4 DEF RoundIDInv, RoundIDAgesOnlyByLateBlocks, LateBlocks
<1>22. ASSUME NEW b \in Blocks, SignalBlockPending(b) PROVE RoundIDInv'
  BY <1>22 DEF SignalBlockPending, RoundIDInv, RoundIDAgesOnlyByLateBlocks,
     LateBlocks, MemoryInv, Rounds, TypeOK, ValuesOK
<1>23. ASSUME NEW b \in Blocks, Propagate(b) PROVE RoundIDInv'
  BY <1>23 DEF Propagate, ChainStep, RoundIDInv, RoundIDAgesOnlyByLateBlocks,
     LateBlocks, MemoryInv, Rounds, TypeOK, ValuesOK
<1>24. ASSUME NEW b \in Blocks, Bury(b) PROVE RoundIDInv'
  BY <1>24 DEF Bury, ChainStep, RoundIDInv, RoundIDAgesOnlyByLateBlocks,
     LateBlocks, MemoryInv, Rounds, TypeOK, ValuesOK
<1>25. ASSUME NEW b \in Blocks, Reorg(b) PROVE RoundIDInv'
  <2>1. /\ UNCHANGED <<dbVars, procVars, cacheVars, blockPending, loopVars, refreshVars,
                       handlerVars, stops>>
        /\ reorgs' = reorgs + 1 /\ reorgs < MaxReorgs
        /\ \E to \in {"shallow", "stale"} : chain' = [chain EXCEPT ![b] = to]
    BY <1>25 DEF Reorg, ChainStep
  <2> QED BY <2>1 DEF RoundIDInv, RoundIDAgesOnlyByLateBlocks, LateBlocks
<1>26. CASE UNCHANGED vars
  BY <1>26 DEF RoundIDInv, RoundIDAgesOnlyByLateBlocks, LateBlocks, MemoryInv,
     Rounds, TypeOK, ValuesOK
<1> QED
  BY <1>1, <1>2, <1>3, <1>4, <1>5, <1>6, <1>7, <1>8, <1>9, <1>10, <1>11, <1>12,
     <1>13, <1>14, <1>15, <1>16, <1>17, <1>18, <1>19, <1>20, <1>21, <1>22,
     <1>23, <1>24, <1>25, <1>26
  DEF Next, Process, Loop, Refresh, Handler, Chain

\* A service whose round is not the open one has either not published the new
\* round yet, or has confirmed two blocks of one round.
THEOREM RoundIDAges ==
    ASSUME NoLostCommit
    PROVE  Spec => []RoundIDAgesOnlyByLateBlocks
<1>1. Init => RoundIDInv
  BY DEF Init, RoundIDInv, RoundIDAgesOnlyByLateBlocks
<1>2. IInv /\ RoundIDInv /\ [Next]_vars => RoundIDInv'
  BY RoundIDStep, NoLostCommit
<1>3. RoundIDInv => RoundIDAgesOnlyByLateBlocks
  BY DEF RoundIDInv
<1> QED BY Invariance, <1>1, <1>2, <1>3, PTL DEF Spec

-----------------------------------------------------------------------------
(* The tables implement the round ledger *)

Status == [b \in Blocks |-> BlockStatus(b)]

\* An empty database is an empty ledger.
LEMMA InitImplements == Init => Ledger!Init
  BY DEF Init, Ledger!Init, BlockStatus, Inserted, NoRound, RoundIds

\* Steps that leave the tables alone are not steps of the ledger.
LEMMA MemoryStepsStutter ==
    ASSUME UNCHANGED dbVars
    PROVE  UNCHANGED Ledger!ledger
  BY DEF dbVars, Ledger!ledger, BlockStatus, Inserted

\* A start opens the ledger's first round or changes nothing.
LEMMA StartImplements ==
    ASSUME IInv, Start
    PROVE  Ledger!FirstRound \/ UNCHANGED Ledger!ledger
<1>1. UNCHANGED <<closedBy, roundOf, foundAt, confirmed, orphaned>>
  BY DEF Start
<1>2. CASE UNCHANGED lastRound
  BY <1>1, <1>2, MemoryStepsStutter DEF dbVars
<1>3. CASE lastRound = 0 /\ lastRound' = 1
  BY <1>1, <1>3 DEF Ledger!FirstRound, BlockStatus, Inserted
<1> QED BY <1>2, <1>3, StartRounds

\* An INSERT submits a block, in a round that exists.
LEMMA InsertImplements ==
    ASSUME IInv, NEW b \in Blocks, handlerPc[b] = "record", InsertBlock(b)
    PROVE  Ledger!Submit(b)
<1> USE RoundsAssumption, BlocksAssumption DEF IInv, NoRound, RoundIds
<1>1. b \notin Inserted /\ handlerRound[b] \in 1 .. lastRound
  BY DEF MemoryInv, Inserted, Rounds
<1>2. /\ roundOf' = [roundOf EXCEPT ![b] = handlerRound[b]]
      /\ UNCHANGED <<lastRound, closedBy, confirmed, orphaned>>
  BY DEF InsertBlock
<1>3. Status[b] = "unknown"
  BY <1>1 DEF Status, BlockStatus
<1>4. Status' = [Status EXCEPT ![b] = "pending"]
  <2>1. b \notin confirmed /\ b \notin orphaned
    BY <1>1 DEF TablesInv
  <2>2. Inserted' = Inserted \cup {b}
    BY <1>1, <1>2 DEF Inserted, TypeOK, ValuesOK, TablesInv
  <2> QED BY <1>2, <2>1, <2>2 DEF Status, BlockStatus
<1> QED BY <1>1, <1>2, <1>3, <1>4 DEF Ledger!Submit, Status

\* Marking a block orphaned settles it without touching the rounds.
LEMMA OrphanImplements ==
    ASSUME IInv, current \in Unconfirmed, SetOrphaned
    PROVE  Ledger!Orphan(current)
<1>1. Status[current] = "pending" /\ current \in Blocks
  BY DEF Status, BlockStatus, Unconfirmed, Inserted
<1>2. Status' = [Status EXCEPT ![current] = "orphaned"]
  BY DEF SetOrphaned, Status, BlockStatus, Unconfirmed, Inserted
<1> QED BY <1>1, <1>2 DEF Ledger!Orphan, Status, SetOrphaned

\* Confirming a block wins the open round with it, or finds it too late.
LEMMA ConfirmImplements ==
    ASSUME IInv, current \in Unconfirmed, CloseRound
    PROVE  Ledger!Win(current) \/ Ledger!TooLate(current)
<1> USE RoundsAssumption, BlocksAssumption DEF IInv, NoRound, RoundIds
<1>1. Status[current] = "pending" /\ current \in Blocks
  BY DEF Status, BlockStatus, Unconfirmed, Inserted
<1>2. Status' = [Status EXCEPT ![current] = "confirmed"]
  BY DEF CloseRound, Status, BlockStatus, Unconfirmed, Inserted
<1>3. roundOf[current] \in 1 .. lastRound
  BY DEF Unconfirmed, Inserted, TablesInv, TypeOK, ValuesOK
<1>4. CASE closedBy[roundOf[current]] # NoBlock
  <2>1. roundOf[current] < lastRound
    BY <1>3, <1>4 DEF TablesInv, TypeOK, ValuesOK
  <2> QED BY <1>1, <1>2, <1>4, <2>1 DEF CloseRound, Ledger!TooLate, Status
<1>5. CASE closedBy[roundOf[current]] = NoBlock
  <2>1. roundOf[current] = lastRound
    BY <1>3, <1>5 DEF TablesInv, TypeOK, ValuesOK
  <2> QED BY <1>1, <1>2, <1>5, <2>1 DEF CloseRound, Ledger!Win, Status
<1> QED BY <1>4, <1>5

\* Every step of the service is a step of the ledger or leaves it alone.
LEMMA NextImplements ==
    ASSUME IInv, [Next]_vars
    PROVE  [Ledger!Next]_Ledger!ledger
<1>1. CASE Start
  BY <1>1, StartImplements DEF Ledger!Next
<1>2. ASSUME NEW b \in Blocks, RecordUnconfirmedBlock(b)
      PROVE  [Ledger!Next]_Ledger!ledger
  BY <1>2, InsertImplements, MemoryStepsStutter DEF RecordUnconfirmedBlock, Ledger!Next
<1>3. CASE MarkOrphaned
  <2>1. current \in Unconfirmed /\ current \in Blocks
    BY <1>3 DEF MarkOrphaned, IInv, MemoryInv, Unconfirmed, Inserted
  <2> QED
    BY <1>3, <2>1, OrphanImplements, MemoryStepsStutter DEF MarkOrphaned, Ledger!Next
<1>4. CASE ConfirmBlock
  <2>1. current \in Unconfirmed /\ current \in Blocks
    BY <1>4 DEF ConfirmBlock, IInv, MemoryInv, Unconfirmed, Inserted
  <2> QED
    BY <1>4, <2>1, ConfirmImplements, MemoryStepsStutter DEF ConfirmBlock, Ledger!Next
<1>5. CASE Terminate \/ Exit \/ Crash \/ Refresh
  <2>1. UNCHANGED dbVars
    BY <1>5 DEF Terminate, Exit, Crash, Die, Refresh, RefreshBegin, RefreshStore,
       RefreshFails
  <2> QED BY <2>1, MemoryStepsStutter
<1>6. CASE Loop /\ ~MarkOrphaned /\ ~ConfirmBlock
  <2>1. UNCHANGED dbVars
    BY <1>6 DEF Loop, SeedFromTable, Wake, LoopCancelled, ListUnconfirmed, ListFails,
       PollBlock, PollFails, PublishRound, FinishPass, Tick
  <2> QED BY <2>1, MemoryStepsStutter
<1>7. ASSUME NEW b \in Blocks, BlockFound(b) \/ SignalBlockPending(b) \/ Chain(b)
      PROVE  [Ledger!Next]_Ledger!ledger
  <2>1. UNCHANGED dbVars
    BY <1>7 DEF BlockFound, SignalBlockPending, Chain, Propagate, Bury, Reorg, ChainStep
  <2> QED BY <2>1, MemoryStepsStutter
<1>8. CASE UNCHANGED vars
  BY <1>8, MemoryStepsStutter DEF vars
<1> QED
  BY <1>1, <1>2, <1>3, <1>4, <1>5, <1>6, <1>7, <1>8 DEF Next, Process, Handler

\* The rounds and blocks tables implement the round ledger, whatever fails and
\* however often the service stops.
THEOREM TablesImplementLedger == Spec => ImplementsLedger
<1>1. Init => Ledger!Init
  BY InitImplements
<1>2. IInv /\ [Next]_vars => [Ledger!Next]_Ledger!ledger
  BY NextImplements
<1> QED BY Invariance, <1>1, <1>2, PTL DEF Spec, ImplementsLedger, Ledger!Spec

=============================================================================

--------------------------- MODULE SoloPoolProofs ---------------------------
(***************************************************************************)
(* That a solo block settles once, and that a loop which sleeps has seen   *)
(* every block there is to wait for, for any set of blocks, any number of  *)
(* reports, stops and reorganisations, and every choice of failing calls.  *)
(***************************************************************************)
EXTENDS SoloPool, TLAPS

\* What the loop holds is still unsettled, although it was listed several calls
\* ago: nobody else settles blocks, and a block reported again is no new row. The
\* block in hand has left the batch, so that it is not settled a second time.
HeldUnsettled ==
    /\ confirmed \cup orphaned \subseteq inserted
    /\ batch \subseteq Unconfirmed
    /\ loopPc \in {"orphan", "confirm"} => current \in Unconfirmed \ batch

\* No handler signals more often than its block was reported.
ReportsSignalled == \A b \in Blocks : handlers[b] <= reports[b]

\* The block in the loop's hands, if there is one.
InHand == IF loopPc \in {"orphan", "confirm"} THEN {current} ELSE {}

\* An unsettled block is on its way through a pass: it is still to be polled, in
\* hand, or its signal is coming, unless the loop comes back in any case. A pass that
\* ends with nothing to wait for thus leaves no block behind when the loop sleeps.
Followed(b) == b \in batch \cup InHand \/ handlers[b] > 0

WakeupInv ==
    /\ loopPc \in {"check", "orphan", "confirm"} /\ ~pending /\ ~blockPending =>
          \A b \in Unconfirmed \ missed : Followed(b)
    /\ loopPc = "idle" /\ ~blockPending =>
          \A b \in Unconfirmed \ missed : handlers[b] > 0

\* The inductive invariant.
SoloInv == TypeOK /\ HeldUnsettled /\ SettledOnce /\ ReportsSignalled /\ WakeupInv

\* Initially the table is empty and the loop not yet begun.
LEMMA Initially == Init => SoloInv
<1> SUFFICES ASSUME Init PROVE SoloInv
  OBVIOUS
<1>1. TypeOK
  <2>1. 0 \in 0 .. MaxReports /\ 0 \in 0 .. MaxReorgs /\ 0 \in 0 .. MaxStops
    BY BoundsAssumption
  <2>2. reports \in [Blocks -> 0 .. MaxReports] /\ handlers \in [Blocks -> 0 .. MaxReports]
    BY <2>1 DEF Init
  <2> QED BY <2>1, <2>2 DEF Init, TypeOK
<1>2. HeldUnsettled /\ SettledOnce /\ ReportsSignalled /\ WakeupInv
  BY DEF Init, HeldUnsettled, SettledOnce, ReportsSignalled, WakeupInv, Unconfirmed
<1> QED BY <1>1, <1>2 DEF SoloInv

\* The reports of blocks keep the invariant: only a block that was not in the table
\* becomes unsettled, and it is signalled or missed.
LEMMA HandlerStep ==
    ASSUME SoloInv, NEW b \in Blocks, BlockFound(b) \/ SignalBlockPending(b)
    PROVE  SoloInv'
<1> USE DEF SoloInv
<1>1. CASE BlockFound(b)
  <2>1. /\ reports' = [reports EXCEPT ![b] = @ + 1] /\ reports[b] < MaxReports
        /\ UNCHANGED <<confirmed, orphaned, proc, blockPending, loopVars, envVars>>
        /\ \/ UNCHANGED <<inserted, handlers, missed>>
           \/ /\ inserted' = inserted \cup {b} /\ UNCHANGED missed
              /\ handlers' = [handlers EXCEPT ![b] = @ + 1]
           \/ /\ inserted' = inserted \cup {b} /\ missed' = missed \cup ({b} \ inserted)
              /\ UNCHANGED handlers
    BY <1>1 DEF BlockFound
  <2>2. TypeOK' /\ ReportsSignalled'
    BY <2>1, BoundsAssumption DEF TypeOK, ReportsSignalled, loopVars, envVars
  <2>3. HeldUnsettled' /\ SettledOnce'
    BY <2>1 DEF HeldUnsettled, SettledOnce, Unconfirmed, loopVars
  <2>4. ASSUME NEW d \in (Unconfirmed \ missed)'
        PROVE  d \in Unconfirmed \ missed \/ handlers'[d] > 0
    BY <2>1 DEF Unconfirmed, TypeOK
  <2>5. \A d \in Blocks : handlers[d] > 0 => handlers'[d] > 0
    BY <2>1 DEF TypeOK
  <2>6. WakeupInv'
    BY <2>1, <2>2, <2>4, <2>5 DEF WakeupInv, Followed, InHand, Unconfirmed, TypeOK, loopVars
  <2> QED BY <2>2, <2>3, <2>6
<1>2. CASE SignalBlockPending(b)
  <2>1. /\ handlers' = [handlers EXCEPT ![b] = @ - 1] /\ handlers[b] > 0
        /\ blockPending' = TRUE
        /\ UNCHANGED <<dbVars, proc, loopVars, reports, envVars, missed>>
    BY <1>2 DEF SignalBlockPending
  <2>2. TypeOK' /\ ReportsSignalled'
    BY <2>1, BoundsAssumption DEF TypeOK, ReportsSignalled, dbVars, loopVars, envVars
  <2>3. HeldUnsettled' /\ SettledOnce' /\ WakeupInv'
    BY <2>1 DEF HeldUnsettled, SettledOnce, WakeupInv, Unconfirmed, dbVars, loopVars
  <2> QED BY <2>2, <2>3
<1> QED BY <1>1, <1>2

\* Every step of the loop keeps the invariant.
LEMMA LoopStep ==
    ASSUME SoloInv, Loop
    PROVE  SoloInv'
<1> USE DEF SoloInv, dbVars, loopVars, handlerVars, envVars
<1>1. CASE SeedFromTable
  BY <1>1 DEF SeedFromTable, TypeOK, HeldUnsettled, SettledOnce, ReportsSignalled,
     WakeupInv, Unconfirmed
<1>2. CASE Wake
  BY <1>2 DEF Wake, TypeOK, HeldUnsettled, SettledOnce, ReportsSignalled, WakeupInv,
     Unconfirmed
<1>3. CASE LoopCancelled
  BY <1>3 DEF LoopCancelled, TypeOK, HeldUnsettled, SettledOnce, ReportsSignalled,
     WakeupInv, Unconfirmed
<1>4. CASE Tick
  BY <1>4 DEF Tick, TypeOK, HeldUnsettled, SettledOnce, ReportsSignalled, WakeupInv,
     Unconfirmed
<1>5. CASE ListUnconfirmed
  BY <1>5 DEF ListUnconfirmed, TypeOK, HeldUnsettled, SettledOnce, ReportsSignalled,
     WakeupInv, Followed, Unconfirmed
<1>6. CASE ListFails
  BY <1>6 DEF ListFails, TypeOK, HeldUnsettled, SettledOnce, ReportsSignalled,
     WakeupInv, Unconfirmed
<1>7. ASSUME NEW b \in Blocks, PollBlock(b) PROVE SoloInv'
  <2>1. TypeOK' /\ ReportsSignalled'
    BY <1>7 DEF PollBlock, TypeOK, ReportsSignalled
  <2>2. HeldUnsettled' /\ SettledOnce'
    BY <1>7 DEF PollBlock, HeldUnsettled, SettledOnce, Unconfirmed
  <2>3. CASE chain[b] = "shallow"
    BY <1>7, <2>1, <2>2, <2>3 DEF PollBlock, WakeupInv
  <2>4. CASE chain[b] # "shallow"
    <3>1. /\ loopPc = "check" /\ loopPc' \in {"orphan", "confirm"} /\ current' = b
          /\ batch' = batch \ {b}
          /\ UNCHANGED <<dbVars, blockPending, pending, handlers, missed>>
      BY <1>7, <2>4 DEF PollBlock
    <3>2. (batch \cup InHand)' = batch \cup InHand \cup {b}
      BY <3>1, <1>7 DEF InHand, PollBlock
    <3>3. WakeupInv'
      BY <3>1, <3>2 DEF WakeupInv, Followed, Unconfirmed
    <3> QED BY <2>1, <2>2, <3>3
  <2> QED BY <2>3, <2>4
<1>8. ASSUME NEW b \in Blocks, PollFails(b) PROVE SoloInv'
  BY <1>8 DEF PollFails, TypeOK, HeldUnsettled, SettledOnce, ReportsSignalled,
     WakeupInv, Unconfirmed
<1>9. CASE UpdateBlock
  <2>1. /\ loopPc \in {"orphan", "confirm"} /\ loopPc' = "check"
        /\ current \in Unconfirmed \ batch /\ current \in Blocks
        /\ current' = NoBlock
        /\ UNCHANGED <<proc, blockPending, batch, handlerVars, envVars, missed>>
    BY <1>9 DEF UpdateBlock, HeldUnsettled, Unconfirmed, TypeOK
  <2>2. CASE UNCHANGED dbVars /\ pending' = TRUE
    BY <2>1, <2>2 DEF TypeOK, HeldUnsettled, SettledOnce, ReportsSignalled, WakeupInv,
       Unconfirmed
  <2>3. CASE SetFlag /\ (UNCHANGED pending \/ pending' = TRUE)
    <3>1. /\ inserted' = inserted
          /\ \/ confirmed' = confirmed \cup {current} /\ orphaned' = orphaned
             \/ orphaned' = orphaned \cup {current} /\ confirmed' = confirmed
      BY <2>3 DEF SetFlag
    <3>2. TypeOK' /\ ReportsSignalled'
      BY <2>1, <2>3, <3>1 DEF TypeOK, ReportsSignalled
    <3>3. HeldUnsettled' /\ SettledOnce'
      BY <2>1, <3>1 DEF HeldUnsettled, SettledOnce, Unconfirmed
    <3>4. Unconfirmed' = Unconfirmed \ {current}
      BY <2>1, <3>1 DEF Unconfirmed
    <3>5. WakeupInv'
      <4>1. (batch \cup InHand) \ {current} \subseteq (batch \cup InHand)'
        BY <2>1 DEF InHand
      <4>2. ~pending' /\ ~blockPending' =>
               \A b \in Unconfirmed \ missed : Followed(b)
        BY <2>1, <2>3 DEF WakeupInv
      <4> QED BY <2>1, <3>4, <4>1, <4>2 DEF WakeupInv, Followed
    <3> QED BY <3>2, <3>3, <3>5
  <2> QED BY <1>9, <2>2, <2>3 DEF UpdateBlock
<1>10. CASE FinishPass
  BY <1>10 DEF FinishPass, TypeOK, HeldUnsettled, SettledOnce, ReportsSignalled,
     WakeupInv, Followed, InHand, Unconfirmed
<1> QED
  BY <1>1, <1>2, <1>3, <1>4, <1>5, <1>6, <1>7, <1>8, <1>9, <1>10 DEF Loop

\* The stops and starts of the process keep the invariant: memory is empty after
\* them, and the loop begins with its seed.
LEMMA ProcessStep ==
    ASSUME SoloInv, Terminate \/ Exit \/ Crash \/ Start
    PROVE  SoloInv'
<1> USE BoundsAssumption DEF SoloInv, dbVars, loopVars, handlerVars, envVars
<1>1. CASE Terminate
  BY <1>1 DEF Terminate, TypeOK, HeldUnsettled, SettledOnce, ReportsSignalled,
     WakeupInv, Followed, InHand, Unconfirmed
<1>2. CASE Exit \/ Crash
  <2>1. Die /\ stops' \in 0 .. MaxStops
    BY <1>2 DEF Exit, Crash, TypeOK
  <2>2. TypeOK'
    <3>1. 0 \in 0 .. MaxReports
      OBVIOUS
    <3>2. handlers' \in [Blocks -> 0 .. MaxReports]
      BY <2>1, <3>1 DEF Die
    <3> QED BY <2>1, <3>2 DEF Die, TypeOK
  <2>3. HeldUnsettled' /\ SettledOnce' /\ ReportsSignalled' /\ WakeupInv'
    BY <2>1 DEF Die, TypeOK, HeldUnsettled, SettledOnce, ReportsSignalled, WakeupInv,
       Unconfirmed
  <2> QED BY <2>2, <2>3
<1>3. CASE Start
  BY <1>3 DEF Start, TypeOK, HeldUnsettled, SettledOnce, ReportsSignalled, WakeupInv,
     Unconfirmed
<1> QED BY <1>1, <1>2, <1>3

\* The chain's steps change nothing that the invariant speaks of.
LEMMA ChainKeeps ==
    ASSUME SoloInv, NEW b \in Blocks, Propagate(b) \/ Bury(b) \/ Reorg(b)
    PROVE  SoloInv'
<1> USE BoundsAssumption DEF SoloInv, dbVars, loopVars, handlerVars
<1>1. /\ UNCHANGED <<dbVars, proc, blockPending, loopVars, handlerVars, stops, missed>>
      /\ \E to \in {"shallow", "deep", "stale"} : chain' = [chain EXCEPT ![b] = to]
      /\ reorgs' = reorgs \/ (reorgs < MaxReorgs /\ reorgs' = reorgs + 1)
  BY DEF Propagate, Bury, Reorg, ChainStep
<1>2. TypeOK'
  BY <1>1 DEF TypeOK
<1> QED
  BY <1>1, <1>2 DEF HeldUnsettled, SettledOnce, ReportsSignalled, WakeupInv, Followed,
     InHand, Unconfirmed

\* The invariant is kept by every behaviour of the solo pool.
THEOREM Invariance == Spec => []SoloInv
<1>1. ASSUME SoloInv, UNCHANGED vars PROVE SoloInv'
  BY <1>1 DEF SoloInv, vars, dbVars, loopVars, handlerVars, envVars, TypeOK,
     HeldUnsettled, SettledOnce, ReportsSignalled, WakeupInv, Followed, InHand, Unconfirmed
<1>2. SoloInv /\ [Next]_vars => SoloInv'
  BY <1>1, HandlerStep, LoopStep, ProcessStep, ChainKeeps DEF Next
<1> QED BY Initially, <1>2, PTL DEF Spec

\* Type correctness of the solo pool.
THEOREM TypeCorrect == Spec => []TypeOK
<1>1. SoloInv => TypeOK
  BY DEF SoloInv
<1> QED BY Invariance, <1>1, PTL

\* No solo block is ever both confirmed and orphaned.
THEOREM BlocksSettleOnce == Spec => []SettledOnce
<1>1. SoloInv => SettledOnce
  BY DEF SoloInv
<1> QED BY Invariance, <1>1, PTL

\* A sleeping loop has a wake-up coming for every block it can know of.
THEOREM WakeupsAreNotLost == Spec => []NoLostWakeup
<1>1. SoloInv => NoLostWakeup
  BY DEF SoloInv, WakeupInv, NoLostWakeup
<1> QED BY Invariance, <1>1, PTL

=============================================================================

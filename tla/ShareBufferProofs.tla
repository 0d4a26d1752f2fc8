------------------------- MODULE ShareBufferProofs --------------------------
(***************************************************************************)
(* That no share is stored twice and that every accepted share is          *)
(* accounted for, for any set of shares, any number of stops and kills,    *)
(* and every choice of failing flushes.                                    *)
(***************************************************************************)
EXTENDS ShareBuffer, TLAPS

\* A flusher that is not writing holds nothing: its slice is a local variable.
\* Otherwise the next swap of the buffer would overwrite shares.
IdleHoldsNothing ==
    \A f \in Flushers : flushPc[f] # "write" \/ proc = "down" => taken[f] = {}

\* The inductive invariant. NoShareTwice needs AcceptedSharesAccountedFor: a batch
\* holds no share that already has a row.
ShareInv == TypeOK /\ NoShareTwice /\ AcceptedSharesAccountedFor /\ IdleHoldsNothing

\* The shares in flight are those of the two flushers.
LEMMA TwoFlushers ==
    /\ InFlight = taken["ticker"] \cup taken["final"]
    /\ InFlight' = taken'["ticker"] \cup taken'["final"]
  BY DEF InFlight, Flushers

\* Initially there are no shares.
LEMMA Initially == Init => ShareInv
<1> SUFFICES ASSUME Init PROVE ShareInv
  OBVIOUS
<1> USE SharesAssumption, BoundsAssumption DEF Init
<1>1. TypeOK
  BY DEF TypeOK, Flushers
<1>2. NoShareTwice /\ IdleHoldsNothing
  BY DEF NoShareTwice, IdleHoldsNothing
<1>3. AcceptedSharesAccountedFor
  BY TwoFlushers DEF AcceptedSharesAccountedFor, Accepted, Stored, Flushers
<1> QED BY <1>1, <1>2, <1>3 DEF ShareInv

\* A share's goroutine keeps the invariant: a share that is being recorded is nowhere
\* yet, and its round is not read again once it is somewhere.
LEMMA RecordStep ==
    ASSUME ShareInv, NEW s \in Shares, Record(s)
    PROVE  ShareInv'
<1> USE DEF ShareInv, tables
<1>1. CASE ReadRound(s)
  <2>1. recordPc[s] = "none" /\ s \notin Accepted
    BY <1>1 DEF ReadRound, Accepted
  <2>2. TypeOK'
    BY <1>1 DEF ReadRound, TypeOK
  <2>3. Accepted' = Accepted /\ InFlight' = InFlight /\ Stored' = Stored
    BY <1>1, <2>1 DEF ReadRound, TypeOK, Accepted, InFlight, Stored
  <2>4. AcceptedSharesAccountedFor'
    BY <1>1, <2>1, <2>3 DEF ReadRound, TypeOK, AcceptedSharesAccountedFor
  <2> QED
    BY <1>1, <2>2, <2>4 DEF ReadRound, NoShareTwice, IdleHoldsNothing
<1>2. CASE BufferShare(s)
  <2>1. s \notin Accepted /\ Accepted' = Accepted \cup {s}
    BY <1>2 DEF BufferShare, TypeOK, Accepted
  <2>2. InFlight' = InFlight /\ Stored' = Stored
    BY <1>2 DEF BufferShare, InFlight, Stored
  <2>3. AcceptedSharesAccountedFor'
    BY <1>2, <2>1, <2>2 DEF BufferShare, AcceptedSharesAccountedFor
  <2> QED
    BY <1>2, <2>3 DEF BufferShare, TypeOK, NoShareTwice, IdleHoldsNothing
<1> QED BY <1>1, <1>2 DEF Record

\* A swap of the buffer moves its shares to a flusher that held none.
LEMMA TakeStep ==
    ASSUME ShareInv, NEW f \in Flushers, TakeBuffer(f)
    PROVE  ShareInv'
<1> USE DEF ShareInv, tables
<1>1. taken[f] = {} /\ taken' = [taken EXCEPT ![f] = buffer] /\ buffer' = {}
  BY DEF TakeBuffer, MayFlush, IdleHoldsNothing
<1>2. TypeOK'
  BY DEF TakeBuffer, Returned, TypeOK, Flushers
<1>3. InFlight' = InFlight \cup buffer /\ Accepted' = Accepted /\ Stored' = Stored
  BY <1>1, TwoFlushers DEF TakeBuffer, TypeOK, Accepted, Stored, Flushers
<1>4. taken'["ticker"] \cap taken'["final"] = {}
  BY <1>1, TwoFlushers DEF AcceptedSharesAccountedFor, TypeOK, Flushers
<1>5. AcceptedSharesAccountedFor'
  BY <1>1, <1>3, <1>4 DEF TakeBuffer, AcceptedSharesAccountedFor
<1>6. IdleHoldsNothing'
  BY <1>1 DEF TakeBuffer, MayFlush, IdleHoldsNothing, TypeOK
<1> QED
  BY <1>2, <1>5, <1>6 DEF TakeBuffer, NoShareTwice

\* A flush that ends empties the slice of its flusher only.
LEMMA Returning ==
    ASSUME ShareInv, NEW f \in Flushers, FlushReturns(f)
    PROVE  /\ InFlight' = InFlight \ taken[f]
           /\ taken'["ticker"] \cap taken'["final"] = {}
           /\ taken' \in [Flushers -> SUBSET Shares]
           /\ flushPc' \in [Flushers -> {"idle", "write", "done"}]
           /\ IdleHoldsNothing'
<1> USE DEF ShareInv
<1>1. taken' = [taken EXCEPT ![f] = {}]
  BY DEF FlushReturns
<1>2. InFlight' = InFlight \ taken[f] /\ taken'["ticker"] \cap taken'["final"] = {}
  BY <1>1, TwoFlushers DEF AcceptedSharesAccountedFor, TypeOK, Flushers
<1>3. flushPc' \in [Flushers -> {"idle", "write", "done"}]
  BY DEF FlushReturns, Returned, TypeOK
<1> QED
  BY <1>1, <1>2, <1>3 DEF FlushReturns, TypeOK, IdleHoldsNothing

\* A commit, acknowledged or not, moves a batch to the table, with one row for each
\* of its shares, which had none.
LEMMA CommitStep ==
    ASSUME ShareInv, NEW f \in Flushers, WriteBatch(f) \/ FlushUnacknowledged(f)
    PROVE  ShareInv'
<1> USE DEF ShareInv
<1>1. Commit(taken[f]) /\ FlushReturns(f) /\ UNCHANGED <<buffer, lost>>
  BY DEF WriteBatch, FlushUnacknowledged
<1>2. taken[f] \subseteq InFlight /\ taken[f] \subseteq Shares
  BY TwoFlushers DEF TypeOK, Flushers
<1>3. taken[f] \cap (Stored \cup buffer \cup lost) = {}
  BY <1>2 DEF AcceptedSharesAccountedFor
<1>4. \A s \in taken[f] : rows[s] = 0
  BY <1>2, <1>3 DEF Stored, TypeOK
<1>5. /\ \A s \in Shares : rows'[s] = IF s \in taken[f] THEN 1 ELSE rows[s]
      /\ \A s \in Shares : rowRound'[s] = IF s \in taken[f] THEN shareRound[s] ELSE rowRound[s]
      /\ workers' = workers \cup {workerOf[s] : s \in taken[f]}
  BY <1>1, <1>4 DEF Commit
<1>6. TypeOK'
  <2>1. rows' \in [Shares -> Nat] /\ rowRound' \in [Shares -> 0 .. MaxRounds]
    BY <1>1 DEF Commit, TypeOK
  <2>2. workers' \subseteq Workers
    BY <1>2, <1>5, SharesAssumption DEF TypeOK
  <2> QED
    BY <1>1, <2>1, <2>2, Returning DEF TypeOK, FlushReturns
<1>7. NoShareTwice'
  BY <1>5 DEF NoShareTwice
<1>8. Stored' = Stored \cup taken[f] /\ Accepted' = Accepted
  BY <1>1, <1>2, <1>5 DEF Stored, Accepted, FlushReturns
<1>9. \A s \in Stored' : workerOf[s] \in workers' /\ rowRound'[s] = shareRound'[s]
  BY <1>1, <1>2, <1>5, <1>8 DEF AcceptedSharesAccountedFor, FlushReturns, Stored
<1>10. AcceptedSharesAccountedFor'
  BY <1>1, <1>2, <1>3, <1>8, <1>9, Returning DEF AcceptedSharesAccountedFor
<1> QED BY <1>1, <1>6, <1>7, <1>10, Returning

\* A failed flush moves a batch to the lost shares, with an error logged.
LEMMA FailStep ==
    ASSUME ShareInv, NEW f \in Flushers, FlushFails(f)
    PROVE  ShareInv'
<1> USE DEF ShareInv, tables
<1>1. FlushReturns(f) /\ UNCHANGED <<tables, buffer>> /\ lost' = lost \cup taken[f]
  BY DEF FlushFails
<1>2. taken[f] \subseteq InFlight /\ taken[f] \subseteq Shares
  BY TwoFlushers DEF TypeOK, Flushers
<1>3. Stored' = Stored /\ Accepted' = Accepted
  BY <1>1 DEF Stored, Accepted, FlushReturns
<1>4. TypeOK'
  BY <1>1, <1>2, Returning DEF TypeOK, FlushReturns
<1>5. AcceptedSharesAccountedFor'
  BY <1>1, <1>2, <1>3, Returning DEF AcceptedSharesAccountedFor, FlushReturns
<1> QED
  BY <1>1, <1>4, <1>5, Returning DEF NoShareTwice

\* The end of the process moves all shares in memory to the lost ones; the other
\* steps of the process and the new rounds move none.
LEMMA ProcessStep ==
    ASSUME ShareInv, PublishRound \/ TickerStops \/ Terminate \/ Exit \/ Kill \/ Start
    PROVE  ShareInv'
<1> USE BoundsAssumption DEF ShareInv, tables
<1>1. CASE Exit \/ Kill
  <2>1. Die /\ stops' \in 0 .. MaxStops
    BY <1>1 DEF Exit, Kill, TypeOK
  <2>2. InFlight' = {} /\ Stored' = Stored /\ Accepted' = Accepted
    BY <2>1, TwoFlushers DEF Die, Stored, Accepted, Flushers, TypeOK
  <2>3. InFlight \subseteq Shares
    BY TwoFlushers DEF TypeOK, Flushers
  <2>4. TypeOK'
    BY <2>1, <2>3 DEF Die, TypeOK
  <2>5. taken'["ticker"] = {} /\ taken'["final"] = {}
    BY <2>1 DEF Die, Flushers
  <2>6. AcceptedSharesAccountedFor'
    BY <2>1, <2>2, <2>5 DEF Die, AcceptedSharesAccountedFor
  <2> QED
    BY <2>1, <2>4, <2>6 DEF Die, NoShareTwice, IdleHoldsNothing
<1>2. CASE PublishRound \/ Terminate
  <2>1. UNCHANGED <<tables, recordPc, shareRound, buffer, flushPc, taken, lost>>
    BY <1>2 DEF PublishRound, Terminate
  <2>2. TypeOK'
    BY <1>2 DEF PublishRound, Terminate, TypeOK
  <2>3. IdleHoldsNothing'
    BY <1>2, <2>1 DEF PublishRound, Terminate, IdleHoldsNothing
  <2>4. AcceptedSharesAccountedFor' /\ NoShareTwice'
    BY <2>1 DEF NoShareTwice, AcceptedSharesAccountedFor, Accepted, Stored, InFlight
  <2> QED BY <2>2, <2>3, <2>4
<1>3. CASE TickerStops
  <2>1. taken["ticker"] = {}
    BY <1>3 DEF TickerStops, IdleHoldsNothing, Flushers
  <2>2. TypeOK'
    BY <1>3 DEF TickerStops, TypeOK
  <2>3. IdleHoldsNothing'
    BY <1>3, <2>1 DEF TickerStops, IdleHoldsNothing, TypeOK
  <2>4. AcceptedSharesAccountedFor' /\ NoShareTwice'
    BY <1>3 DEF TickerStops, NoShareTwice, AcceptedSharesAccountedFor, Accepted, Stored,
       InFlight
  <2> QED BY <2>2, <2>3, <2>4
<1>4. CASE Start
  <2>1. UNCHANGED <<tables, recordPc, shareRound, buffer, taken, lost>>
    BY <1>4 DEF Start
  <2>2. \A f \in Flushers : taken[f] = {}
    BY <1>4 DEF Start, IdleHoldsNothing
  <2> QED
    BY <1>4, <2>1, <2>2 DEF Start, TypeOK, NoShareTwice, IdleHoldsNothing,
       AcceptedSharesAccountedFor, Accepted, Stored, InFlight
<1> QED BY <1>1, <1>2, <1>3, <1>4

\* The invariant is kept by every behaviour of the buffer.
THEOREM Invariance == Spec => []ShareInv
<1>1. ASSUME ShareInv, UNCHANGED vars PROVE ShareInv'
  BY <1>1 DEF ShareInv, vars, TypeOK, NoShareTwice, IdleHoldsNothing,
     AcceptedSharesAccountedFor, Accepted, Stored, InFlight
<1>2. ASSUME ShareInv, Next PROVE ShareInv'
  BY <1>2, RecordStep, TakeStep, CommitStep, FailStep, ProcessStep
  DEF Next, Flush, Write
<1> QED BY Initially, <1>1, <1>2, PTL DEF Spec

\* Type correctness of the share buffer.
THEOREM TypeCorrect == Spec => []TypeOK
<1>1. ShareInv => TypeOK
  BY DEF ShareInv
<1> QED BY Invariance, <1>1, PTL

\* No share ever has two rows.
THEOREM SharesAreStoredOnce == Spec => []NoShareTwice
<1>1. ShareInv => NoShareTwice
  BY DEF ShareInv
<1> QED BY Invariance, <1>1, PTL

\* Every accepted share is in one place, or its loss is explained.
THEOREM SharesAreAccountedFor == Spec => []AcceptedSharesAccountedFor
<1>1. ShareInv => AcceptedSharesAccountedFor
  BY DEF ShareInv
<1> QED BY Invariance, <1>1, PTL

=============================================================================

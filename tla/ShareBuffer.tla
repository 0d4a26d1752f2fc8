---------------------------- MODULE ShareBuffer ----------------------------
(***************************************************************************)
(* Shares between the socket and the database: poolHandler.RecordShare and *)
(* leaderboard.Service's buffer, flushed by a ticker goroutine while the   *)
(* service runs and once more by main when it is told to stop.             *)
(*                                                                         *)
(* Actors: one goroutine per share message, the two flushers, the process, *)
(* and the confirmation loop, of which only the change of roundID matters. *)
(* A share is a value with a worker; its difficulties are left out.        *)
(***************************************************************************)
EXTENDS Integers

CONSTANTS
    Shares,       \* the share messages the gateway sends
    Malformed,    \* those whose difficulty is not a decimal number
    Workers,
    workerOf,     \* the (address, worker) pair of each share
    MaxRounds,    \* bound on round ids
    MaxStops,     \* bound on the stops of the process
    FaultKinds,   \* which flushes may fail: "flush", "flushAck"
    Kills         \* whether the process may be killed without warning

ASSUME SharesAssumption == Malformed \subseteq Shares /\ workerOf \in [Shares -> Workers]
ASSUME BoundsAssumption == MaxRounds \in Nat \ {0} /\ MaxStops \in Nat
ASSUME FaultsAssumption == FaultKinds \subseteq {"flush", "flushAck"} /\ Kills \in BOOLEAN

\* startShareFlushLoop's goroutine, and main's last call.
Flushers == {"ticker", "final"}

VARIABLES
    rows,         \* the shares table: how many rows each share has
    rowRound,     \* and the round_id of them
    workers,      \* the workers table
    roundID,      \* poolHandler.roundID
    proc,         \* "up", "stopping" (ctx cancelled), "down"
    recordPc,     \* where each share's goroutine is
    shareRound,   \* the round it copied
    buffer,       \* Service.buffer
    flushPc, taken, \* each flusher's place and its local slice "pending"
    lost,         \* history: shares accepted and then dropped, with an error logged
                  \* or with the process
    stops

vars == <<rows, rowRound, workers, roundID, proc, recordPc, shareRound, buffer,
          flushPc, taken, lost, stops>>
tables == <<rows, rowRound, workers>>

Accepted == {s \in Shares : recordPc[s] = "buffered"}
InFlight == UNION {taken[f] : f \in Flushers}

Init ==
    /\ rows = [s \in Shares |-> 0]
    /\ rowRound = [s \in Shares |-> 0]
    /\ workers = {}
    /\ roundID = 1 /\ proc = "up"
    /\ recordPc = [s \in Shares |-> "none"]
    /\ shareRound = [s \in Shares |-> 0]
    /\ buffer = {}
    /\ flushPc = [f \in Flushers |-> "idle"]
    /\ taken = [f \in Flushers |-> {}]
    /\ lost = {} /\ stops = 0

-----------------------------------------------------------------------------
(* RecordShare, one goroutine per share *)

\* handleShare starts the goroutine and RecordShare copies roundID under the
\* read lock. The socket server accepts until the process ends.
ReadRound(s) ==
    /\ proc # "down" /\ recordPc[s] = "none"
    /\ shareRound' = [shareRound EXCEPT ![s] = roundID]
    /\ recordPc' = [recordPc EXCEPT ![s] = IF s \in Malformed THEN "refused" ELSE "tagged"]
    /\ UNCHANGED <<tables, roundID, proc, buffer, flushPc, taken, lost, stops>>

BufferShare(s) ==
    /\ recordPc[s] = "tagged"
    /\ buffer' = buffer \cup {s}
    /\ recordPc' = [recordPc EXCEPT ![s] = "buffered"]
    /\ UNCHANGED <<tables, roundID, proc, shareRound, flushPc, taken, lost, stops>>

\* The confirmation loop publishes a new round (PoolRounds).
PublishRound ==
    /\ proc # "down" /\ roundID < MaxRounds
    /\ roundID' = roundID + 1
    /\ UNCHANGED <<tables, proc, recordPc, shareRound, buffer, flushPc, taken, lost, stops>>

-----------------------------------------------------------------------------
(* FlushShares *)

\* The ticker's select may pick a tick although ctx is done; main flushes when
\* it has seen ctx done.
MayFlush(f) ==
    /\ flushPc[f] = "idle"
    /\ IF f = "ticker" THEN proc # "down" ELSE proc = "stopping"

\* What a flusher does next: the ticker waits, main returns.
Returned(f) == IF f = "ticker" THEN "idle" ELSE "done"

\* Mutated form of TakeBuffer: the buffer is copied, not swapped out.
CopyBuffer(f) ==
    /\ MayFlush(f)
    /\ taken' = [taken EXCEPT ![f] = buffer]
    /\ flushPc' = [flushPc EXCEPT ![f] = IF buffer = {} THEN Returned(f) ELSE "write"]
    /\ UNCHANGED <<tables, roundID, proc, recordPc, shareRound, buffer, lost, stops>>

\* Mutated form of TakeBuffer: the loop ends with its first empty flush.
TakeBufferOnce(f) ==
    /\ MayFlush(f)
    /\ taken' = [taken EXCEPT ![f] = buffer]
    /\ buffer' = {}
    /\ flushPc' = [flushPc EXCEPT ![f] = IF buffer = {} THEN "done" ELSE "write"]
    /\ UNCHANGED <<tables, roundID, proc, recordPc, shareRound, lost, stops>>

\* Under the lock: take the buffered shares and leave an empty buffer. With
\* nothing taken the flush is over.
TakeBuffer(f) ==
    /\ MayFlush(f)
    /\ taken' = [taken EXCEPT ![f] = buffer]
    /\ buffer' = {}
    /\ flushPc' = [flushPc EXCEPT ![f] = IF buffer = {} THEN Returned(f) ELSE "write"]
    /\ UNCHANGED <<tables, roundID, proc, recordPc, shareRound, lost, stops>>

\* The transaction: a row per share and an upsert per distinct worker.
Commit(batch) ==
    /\ rows' = [s \in Shares |-> IF s \in batch THEN rows[s] + 1 ELSE rows[s]]
    /\ rowRound' = [s \in Shares |-> IF s \in batch THEN shareRound[s] ELSE rowRound[s]]
    /\ workers' = workers \cup {workerOf[s] : s \in batch}

FlushReturns(f) ==
    /\ taken' = [taken EXCEPT ![f] = {}]
    /\ flushPc' = [flushPc EXCEPT ![f] = Returned(f)]
    /\ UNCHANGED <<roundID, proc, recordPc, shareRound, stops>>

WriteBatch(f) ==
    /\ flushPc[f] = "write"
    /\ Commit(taken[f])
    /\ UNCHANGED <<buffer, lost>>
    /\ FlushReturns(f)

\* ctx carries the cancellation into the ticker's transaction; main's last flush
\* has a context of its own.
FlushCanFail(f) == "flush" \in FaultKinds \/ (f = "ticker" /\ proc = "stopping")

\* Mutated form of FlushFails: no transaction, so the rows of the first statement
\* stay when the second one fails.
FlushFailsHalfway(f) ==
    /\ flushPc[f] = "write" /\ FlushCanFail(f)
    /\ rows' = [s \in Shares |-> IF s \in taken[f] THEN rows[s] + 1 ELSE rows[s]]
    /\ lost' = lost \cup taken[f]
    /\ UNCHANGED <<rowRound, workers, buffer>>
    /\ FlushReturns(f)

\* The transaction is rolled back, the error is logged, and the batch is gone.
FlushFails(f) ==
    /\ flushPc[f] = "write" /\ FlushCanFail(f)
    /\ lost' = lost \cup taken[f]
    /\ UNCHANGED <<tables, buffer>>
    /\ FlushReturns(f)

\* The commit takes effect but its answer does not arrive.
FlushUnacknowledged(f) ==
    /\ flushPc[f] = "write" /\ "flushAck" \in FaultKinds
    /\ Commit(taken[f])
    /\ UNCHANGED <<buffer, lost>>
    /\ FlushReturns(f)

\* The ticker's goroutine returns.
TickerStops ==
    /\ flushPc["ticker"] = "idle" /\ proc = "stopping"
    /\ flushPc' = [flushPc EXCEPT !["ticker"] = "done"]
    /\ UNCHANGED <<tables, roundID, proc, recordPc, shareRound, buffer, taken, lost, stops>>

-----------------------------------------------------------------------------
(* The process *)

\* SIGTERM or SIGINT.
Terminate ==
    /\ proc = "up" /\ stops < MaxStops
    /\ proc' = "stopping" /\ stops' = stops + 1
    /\ UNCHANGED <<tables, roundID, recordPc, shareRound, buffer, flushPc, taken, lost>>

\* Memory is gone; a transaction in flight is rolled back.
Die ==
    /\ proc' = "down"
    /\ lost' = lost \cup buffer \cup InFlight
    /\ buffer' = {} /\ taken' = [f \in Flushers |-> {}]
    /\ flushPc' = [f \in Flushers |-> "done"]
    /\ recordPc' = [s \in Shares |-> IF recordPc[s] = "tagged" THEN "refused" ELSE recordPc[s]]
    /\ UNCHANGED <<tables, roundID, shareRound>>

\* main returns after its flush, or the process is killed.
Exit == proc = "stopping" /\ flushPc["final"] = "done" /\ Die /\ UNCHANGED stops
Kill == Kills /\ proc # "down" /\ stops < MaxStops /\ stops' = stops + 1 /\ Die

Start ==
    /\ proc = "down"
    /\ proc' = "up"
    /\ flushPc' = [f \in Flushers |-> "idle"]
    /\ UNCHANGED <<tables, roundID, recordPc, shareRound, buffer, taken, lost, stops>>

-----------------------------------------------------------------------------

Record(s) == ReadRound(s) \/ BufferShare(s)
Write(f) == WriteBatch(f) \/ FlushFails(f) \/ FlushUnacknowledged(f)
Flush(f) == TakeBuffer(f) \/ Write(f)

Next ==
    \/ \E s \in Shares : Record(s)
    \/ \E f \in Flushers : Flush(f)
    \/ PublishRound \/ TickerStops
    \/ Terminate \/ Exit \/ Kill \/ Start

Spec == Init /\ [][Next]_vars

\* The goroutines take their steps, the ticker fires, and systemd restarts the
\* service.
Fairness ==
    /\ \A s \in Shares : WF_vars(BufferShare(s))
    /\ \A f \in Flushers : WF_vars(TakeBuffer(f)) /\ WF_vars(Write(f))
    /\ WF_vars(TickerStops) /\ WF_vars(Exit) /\ WF_vars(Start)

FairSpec == Spec /\ Fairness

-----------------------------------------------------------------------------
(* Properties *)

\* Every variable keeps its type.
TypeOK ==
    /\ rows \in [Shares -> Nat]
    /\ rowRound \in [Shares -> 0 .. MaxRounds]
    /\ workers \subseteq Workers
    /\ roundID \in 1 .. MaxRounds
    /\ proc \in {"up", "stopping", "down"}
    /\ recordPc \in [Shares -> {"none", "refused", "tagged", "buffered"}]
    /\ shareRound \in [Shares -> 0 .. MaxRounds]
    /\ buffer \subseteq Shares
    /\ flushPc \in [Flushers -> {"idle", "write", "done"}]
    /\ taken \in [Flushers -> SUBSET Shares]
    /\ lost \subseteq Shares /\ stops \in 0 .. MaxStops

\* No share ever has two rows: the ticker's flush, main's flush that may overlap
\* it, failed and unacknowledged commits and restarts included.
NoShareTwice == \A s \in Shares : rows[s] <= 1

Stored == {s \in Shares : rows[s] > 0}

\* Every share BufferShare accepted is in exactly one place: the buffer, one
\* flusher's batch, the table, or among those whose loss an error or the end of
\* the process explains. A share that arrives while a flush is in progress is
\* neither dropped by it nor written twice; and what is stored is stored with its worker
\* and the round it was received in, as the statements of a flush stand or fall together.
AcceptedSharesAccountedFor ==
    /\ Accepted = buffer \cup InFlight \cup Stored \cup lost
    /\ buffer \cap (InFlight \cup Stored \cup lost) = {}
    /\ InFlight \cap (Stored \cup lost) = {}
    /\ Stored \cap lost = {}
    /\ taken["ticker"] \cap taken["final"] = {}
    /\ \A s \in Stored : workerOf[s] \in workers /\ rowRound[s] = shareRound[s]

\* A buffered share does not stay in memory for ever.
BufferedSharesLeaveMemory ==
    \A s \in Shares : s \in buffer ~> s \in Stored \cup lost

\* What main's comment says of a graceful stop, "gives the final flush below a
\* chance to run": when nothing fails and nothing is killed, no share is dropped.
GracefulStopKeepsShares == lost = {}

=============================================================================

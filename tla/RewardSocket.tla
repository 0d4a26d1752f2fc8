---------------------------- MODULE RewardSocket ----------------------------
(***************************************************************************)
(* The Unix socket between the gateway (datum_reward_socket.c) and the     *)
(* reward service (socket/server.go). Every call of the gateway opens a    *)
(* connection, writes one line, waits for one line or for nothing, and     *)
(* hangs up; a timer ends every wait. The service gives each connection a  *)
(* goroutine that reads lines until the client hangs up or a deadline      *)
(* passes.                                                                 *)
(*                                                                         *)
(* Both sides' clocks are left out: what a timer ends may end at any time. *)
(* A line, and the answer to it, is written in one piece, as Unix sockets  *)
(* do with lines of this size. What the handlers do is in PoolRounds,      *)
(* ShareBuffer and CoinbaseSplit.                                          *)
(***************************************************************************)
EXTENDS Integers

CONSTANTS
    Calls,      \* the gateway's calls; each names its connection as well
    kindOf,     \* the message: "coinbase", "share" or "block_found"
    BadNames,   \* the calls whose address is_valid_btc_address refuses
    MaxStops    \* bound on the ends of the service's process

ASSUME CallsAssumption ==
    /\ kindOf \in [Calls -> {"coinbase", "share", "block_found"}]
    /\ BadNames \subseteq Calls /\ MaxStops \in Nat

VARIABLES
    call,       \* the gateway's side: "none", "connected", "waiting", "returned"
    answer,     \* what the call has read
    server,     \* the service's side; "ok" and "error" are about to be written
    lines,      \* how many lines the service has not read
    reply,      \* the answer the gateway has not read
    tasks,      \* the goroutines of handleShare
    handled,    \* how often the handler has run for the call
    up, stops

vars == <<call, answer, server, lines, reply, tasks, handled, up, stops>>
gatewayVars == <<call, answer>>
serverVars == <<server, tasks, handled, up, stops>>

Replies == {"none", "ok", "error"}

Init ==
    /\ call = [c \in Calls |-> "none"]
    /\ answer = [c \in Calls |-> "none"]
    /\ server = [c \in Calls |-> "none"]
    /\ lines = [c \in Calls |-> 0]
    /\ reply = [c \in Calls |-> "none"]
    /\ tasks = {}
    /\ handled = [c \in Calls |-> 0]
    /\ up = TRUE /\ stops = 0

-----------------------------------------------------------------------------
(* The gateway: datum_request_coinbase_outputs, datum_reward_share_submit,   *)
(* datum_reward_block_found                                                  *)

Return(c, a) ==
    /\ call' = [call EXCEPT ![c] = "returned"]
    /\ answer' = [answer EXCEPT ![c] = a]

\* A block's finder is looked at when the connection is open.
RefusedFirst(c) == c \in BadNames /\ kindOf[c] # "block_found"

Connect(c) ==
    /\ call[c] = "none" /\ ~RefusedFirst(c) /\ up
    /\ call' = [call EXCEPT ![c] = "connected"]
    /\ server' = [server EXCEPT ![c] = "queued"]
    /\ UNCHANGED <<answer, lines, reply, tasks, handled, up, stops>>

\* The address is not valid, or nobody listens.
NotConnected(c) ==
    /\ call[c] = "none" /\ (RefusedFirst(c) \/ ~up)
    /\ Return(c, "none")
    /\ UNCHANGED <<lines, reply, serverVars>>

\* Nobody waits for an answer to a share.
Send(c) ==
    /\ call[c] = "connected" /\ c \notin BadNames /\ server[c] # "closed"
    /\ lines' = [lines EXCEPT ![c] = @ + 1]
    /\ call' = [call EXCEPT ![c] = IF kindOf[c] = "share" THEN "returned" ELSE "waiting"]
    /\ UNCHANGED <<answer, reply, serverVars>>

\* Nothing is sent of a block whose finder's address is not valid; and the service
\* may have closed the connection.
NotSent(c) ==
    /\ call[c] = "connected" /\ (c \in BadNames \/ server[c] = "closed")
    /\ Return(c, "none")
    /\ UNCHANGED <<lines, reply, serverVars>>

Receive(c) ==
    /\ call[c] = "waiting" /\ reply[c] # "none"
    /\ Return(c, reply[c])
    /\ reply' = [reply EXCEPT ![c] = "none"]
    /\ UNCHANGED <<lines, serverVars>>

\* Mutated form of NoAnswer: the line is sent once more.
AskAgain(c) ==
    /\ call[c] = "waiting" /\ reply[c] = "none"
    /\ call' = [call EXCEPT ![c] = "connected"]
    /\ UNCHANGED <<answer, lines, reply, serverVars>>

\* Mutated form of NoAnswer: there is no timer.
NoAnswerAtTheEnd(c) ==
    /\ call[c] = "waiting" /\ reply[c] = "none" /\ server[c] = "closed"
    /\ Return(c, "none")
    /\ UNCHANGED <<lines, reply, serverVars>>

\* SO_RCVTIMEO has passed, or the connection has ended. There is no second try.
NoAnswer(c) ==
    /\ call[c] = "waiting" /\ reply[c] = "none"
    /\ Return(c, "none")
    /\ UNCHANGED <<lines, reply, serverVars>>

-----------------------------------------------------------------------------
(* The service: Listen, handleConn and the handlers *)

Goes(c, state) == server' = [server EXCEPT ![c] = state]

Accept(c) ==
    /\ server[c] = "queued" /\ Goes(c, "scanning")
    /\ UNCHANGED <<gatewayVars, lines, reply, tasks, handled, up, stops>>

\* Mutated form of ScanLine: a block is recorded by a goroutine of its own.
ScanLineAcks(c) ==
    /\ server[c] = "scanning" /\ lines[c] > 0
    /\ lines' = [lines EXCEPT ![c] = @ - 1]
    /\ CASE kindOf[c] = "share" -> tasks' = tasks \cup {c} /\ UNCHANGED server
         [] kindOf[c] = "block_found" -> tasks' = tasks \cup {c} /\ Goes(c, "ok")
         [] OTHER -> Goes(c, "handling") /\ UNCHANGED tasks
    /\ UNCHANGED <<gatewayVars, reply, handled, up, stops>>

\* A share gets a goroutine of its own, and the scan goes on.
ScanLine(c) ==
    /\ server[c] = "scanning" /\ lines[c] > 0
    /\ lines' = [lines EXCEPT ![c] = @ - 1]
    /\ IF kindOf[c] = "share"
       THEN tasks' = tasks \cup {c} /\ UNCHANGED server
       ELSE Goes(c, "handling") /\ UNCHANGED tasks
    /\ UNCHANGED <<gatewayVars, reply, handled, up, stops>>

\* The client has hung up, or the deadline has passed; a line that comes at that
\* moment is not read.
EndOfScan(c) ==
    /\ server[c] = "scanning" /\ Goes(c, "closed")
    /\ UNCHANGED <<gatewayVars, lines, reply, tasks, handled, up, stops>>

RecordShare(c) ==
    /\ c \in tasks /\ tasks' = tasks \ {c}
    /\ handled' = [handled EXCEPT ![c] = @ + 1]
    /\ UNCHANGED <<gatewayVars, lines, reply, server, up, stops>>

\* GetCoinbaseOutputs never fails; BlockFound may. Nobody tells them that the
\* client is gone.
Handle(c) ==
    /\ server[c] = "handling"
    /\ handled' = [handled EXCEPT ![c] = @ + 1]
    /\ \/ Goes(c, "ok")
       \/ kindOf[c] = "block_found" /\ Goes(c, "error")
    /\ UNCHANGED <<gatewayVars, lines, reply, tasks, up, stops>>

Answer(c) ==
    /\ server[c] \in {"ok", "error"} /\ call[c] = "waiting"
    /\ reply' = [reply EXCEPT ![c] = server[c]]
    /\ Goes(c, "scanning")
    /\ UNCHANGED <<gatewayVars, lines, tasks, handled, up, stops>>

\* The client is gone or the deadline has passed.
NotAnswered(c) ==
    /\ server[c] \in {"ok", "error"}
    /\ Goes(c, "scanning")
    /\ UNCHANGED <<gatewayVars, lines, reply, tasks, handled, up, stops>>

\* The process ends, in whatever way, and with it its connections.
Die ==
    /\ up /\ stops < MaxStops
    /\ up' = FALSE /\ stops' = stops + 1
    /\ server' = [c \in Calls |-> IF server[c] = "none" THEN "none" ELSE "closed"]
    /\ tasks' = {}
    /\ UNCHANGED <<gatewayVars, lines, reply, handled>>

\* A stale socket is removed first.
Start ==
    /\ ~up /\ up' = TRUE
    /\ UNCHANGED <<gatewayVars, lines, reply, server, tasks, handled, stops>>

-----------------------------------------------------------------------------

Gateway(c) ==
    Connect(c) \/ NotConnected(c) \/ Send(c) \/ NotSent(c) \/ Receive(c) \/ NoAnswer(c)

Service(c) ==
    \/ Accept(c) \/ ScanLine(c) \/ EndOfScan(c) \/ RecordShare(c)
    \/ Handle(c) \/ Answer(c) \/ NotAnswered(c)

Next == (\E c \in Calls : Gateway(c) \/ Service(c)) \/ Die \/ Start

Spec == Init /\ [][Next]_vars

\* The gateway goes on; nothing is asked of the service.
Fairness == \A c \in Calls : WF_vars(Gateway(c))

FairSpec == Spec /\ Fairness

-----------------------------------------------------------------------------
(* Properties *)

\* Every variable keeps its type.
TypeOK ==
    /\ call \in [Calls -> {"none", "connected", "waiting", "returned"}]
    /\ answer \in [Calls -> Replies] /\ reply \in [Calls -> Replies]
    /\ server \in [Calls -> {"none", "queued", "scanning", "handling", "ok", "error", "closed"}]
    /\ lines \in [Calls -> 0 .. 1] /\ handled \in [Calls -> Nat]
    /\ tasks \subseteq Calls /\ up \in BOOLEAN /\ stops \in 0 .. MaxStops

\* No message is acted on twice, whoever times out and whenever the service
\* ends and starts: a block's report and a share count once.
HandledOnce == \A c \in Calls : handled[c] <= 1

\* What the gateway takes for an answer was given by a handler that had run to its
\* end: outputs were computed for this call, a block's report was dealt with. (The
\* converse fails: the gateway may have left, or the answer been lost.)
AnsweredIsHandled == \A c \in Calls : answer[c] # "none" => handled[c] > 0

\* A hanging or dead service does not hold up the gateway: every call returns,
\* although no handler, no goroutine and no process need go on.
CallsReturn == \A c \in Calls : call[c] = "connected" ~> call[c] = "returned"

=============================================================================

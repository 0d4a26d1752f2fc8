-------------------------- MODULE PersonalCoinbase --------------------------
(***************************************************************************)
(* One stratum connection of the gateway, as infra/patch-stratum.py leaves *)
(* it: which coinb2 the miner is sent with each job, and which one its     *)
(* shares are rebuilt with. A share is good only if they are the same.     *)
(*                                                                         *)
(* Jobs have serial numbers; the gateway knows a job by its index in a     *)
(* ring, which later jobs use again. A coinb2 is the job it was built for  *)
(* and whom its first output pays: a miner's address, Pool for the shared  *)
(* coinb2, Nobody for the subsidy-only one.                                *)
(***************************************************************************)
EXTENDS Integers

CONSTANTS
    Addresses,    \* miners' addresses
    Pool, Nobody,
    RingSize,     \* stratum jobs kept, and indices
    MaxLag,       \* how many jobs the stratum threads may be behind
    MaxJobs,      \* bound on jobs
    MaxSessions   \* bound on the miner's connections

ASSUME SizesAssumption == {RingSize, MaxLag, MaxJobs, MaxSessions} \subseteq Nat \ {0}
ASSUME AddressesAssumption == Pool \notin Addresses /\ Nobody \notin Addresses \cup {Pool}

VARIABLES
    latest,       \* the newest job, 0 before the first
    hasOutputs,   \* whether available_coinbase_outputs_count > 0, for each job
    session,      \* the connection's number: its sid_inv
    auth,         \* the address in last_auth_username, Nobody before authorize
    cur, prev,    \* personal_coinb2* and personal_coinb2_prev*
    lastSent,     \* the job the miner has, 0 for none
    beforeLast,   \* history: the job it had before that
    work          \* history: everything the miner was sent and may send shares of

jobVars == <<latest, hasOutputs>>
clientVars == <<session, auth, cur, prev, lastSent, beforeLast, work>>
vars == <<jobVars, clientVars>>

Jobs == 1 .. MaxJobs
Coinb2(job, pays) == [job |-> job, pays |-> pays]

\* global_index
Index(job) == job % RingSize

\* A zeroed client.
EmptySlot == [valid |-> FALSE, index |-> 0, coinb2 |-> Coinb2(0, Nobody)]

Init ==
    /\ latest = 0 /\ hasOutputs = [j \in Jobs |-> FALSE]
    /\ session = 1 /\ auth = Nobody
    /\ cur = EmptySlot /\ prev = EmptySlot
    /\ lastSent = 0 /\ beforeLast = 0 /\ work = {}

-----------------------------------------------------------------------------
(* The gateway's jobs *)

\* A job that waits for its coinbaser (JOB_STATE_..._WAIT_COINBASER) is there once
\* the reward service has been asked for its outputs, with an answer or without.
\* The threads that send jobs look for new ones all the time, but one of them may be
\* kept by the reward service while the next job is made.
NewJob ==
    /\ latest < MaxJobs
    /\ lastSent > 0 => latest - lastSent < MaxLag
    /\ latest' = latest + 1
    /\ \E answered \in BOOLEAN : hasOutputs' = [hasOutputs EXCEPT ![latest'] = answered]
    /\ UNCHANGED clientVars

-----------------------------------------------------------------------------
(* send_mining_notify *)

\* Mutated form of MustBuild: without patch 13, a quickdiff builds a first coinb2
\* for a job that the miner has already.
MustBuildOnQuickdiff(job, quickdiff) == ~cur.valid \/ cur.index # Index(job)

\* A personal coinb2 is built for a job the slot is not for; a quickdiff, which
\* sends the miner the job it has, does not build the first one.
MustBuild(job, quickdiff) ==
    /\ ~quickdiff \/ cur.valid
    /\ ~cur.valid \/ cur.index # Index(job)

\* The slot that is about to be overwritten is kept.
SavePrevious == prev' = IF cur.valid THEN cur ELSE prev

\* datum_generate_personal_coinb2 asks the reward service, which may not answer.
\* The index is set even then.
Build(job) ==
    /\ SavePrevious
    /\ \E answered \in BOOLEAN :
          cur' = [valid |-> answered, index |-> Index(job),
                  coinb2 |-> IF answered THEN Coinb2(job, auth) ELSE cur.coinb2]

\* A personal coinb2 is used for an authorized miner and a job with outputs.
Wanted(job) == auth # Nobody /\ hasOutputs[job]

Personalise(job, quickdiff) ==
    IF Wanted(job) /\ MustBuild(job, quickdiff) THEN Build(job) ELSE UNCHANGED <<cur, prev>>

Send(job, empty, coinb2) ==
    work' = work \cup {[job |-> job, session |-> session, empty |-> empty, coinb2 |-> coinb2]}

\* The slot's coinb2 if it is valid, or the shared one.
SendPersonalised(job) ==
    Send(job, FALSE, IF Wanted(job) /\ cur'.valid THEN cur'.coinb2 ELSE Coinb2(job, Pool))

\* The miner gets a job it has not got.
NotifyJob ==
    /\ lastSent < latest
    /\ Personalise(latest, FALSE)
    /\ SendPersonalised(latest)
    /\ lastSent' = latest /\ beforeLast' = lastSent
    /\ UNCHANGED <<jobVars, session, auth>>

\* Its difficulty is raised at once: the job it has is sent again.
NotifyQuickdiff ==
    /\ lastSent > 0
    /\ Personalise(lastSent, TRUE)
    /\ SendPersonalised(lastSent)
    /\ UNCHANGED <<jobVars, session, auth, lastSent, beforeLast>>

\* A new block: work that pays the pool the subsidy, without personal coinb2.
NotifyNewBlock ==
    /\ lastSent < latest
    /\ Send(latest, TRUE, Coinb2(latest, Nobody))
    /\ UNCHANGED <<jobVars, session, auth, cur, prev, lastSent, beforeLast>>

-----------------------------------------------------------------------------
(* The connection (external: the stratum server's own code) *)

\* mining.authorize, perhaps with another name than before.
Authorize(a) ==
    /\ auth' = a
    /\ UNCHANGED <<jobVars, session, cur, prev, lastSent, beforeLast, work>>

\* The miner connects again, with what it buffered.
Reconnect ==
    /\ session < MaxSessions
    /\ session' = session + 1 /\ auth' = Nobody
    /\ cur' = EmptySlot /\ prev' = EmptySlot
    /\ lastSent' = 0 /\ beforeLast' = 0
    /\ UNCHANGED <<jobVars, work>>

-----------------------------------------------------------------------------
(* client_mining_submit *)

\* Patches 8 and 9: the job's time stamp is sent mixed with the session's number,
\* so that it is recognised only in that session and while the ring has the job.
Accepted(w) == w.session = session /\ w.job > latest - RingSize

\* The coinb2 a share of w is rebuilt with.
Rebuilt(w) ==
    IF w.empty THEN Coinb2(w.job, Nobody)
    ELSE IF cur.valid /\ cur.index = Index(w.job) THEN cur.coinb2
    ELSE IF prev.valid /\ prev.index = Index(w.job) THEN prev.coinb2
    ELSE Coinb2(w.job, Pool)

-----------------------------------------------------------------------------

Next ==
    \/ NewJob
    \/ NotifyJob \/ NotifyQuickdiff \/ NotifyNewBlock
    \/ \E a \in Addresses : Authorize(a)
    \/ Reconnect

Spec == Init /\ [][Next]_vars

-----------------------------------------------------------------------------
(* Properties *)

Slots == [valid : BOOLEAN, index : 0 .. RingSize - 1,
          coinb2 : [job : 0 .. MaxJobs, pays : Addresses \cup {Pool, Nobody}]]

\* Every variable keeps its type.
TypeOK ==
    /\ latest \in 0 .. MaxJobs /\ hasOutputs \in [Jobs -> BOOLEAN]
    /\ session \in 1 .. MaxSessions /\ auth \in Addresses \cup {Nobody}
    /\ cur \in Slots /\ prev \in Slots
    /\ lastSent \in 0 .. latest /\ beforeLast \in 0 .. latest
    /\ \A w \in work : w.job \in 1 .. latest /\ w.coinb2.job \in 0 .. w.job

\* The slots hold nothing from before the ring's last round: the client was
\* sent a job with outputs since. Otherwise, when the service gave no outputs for as
\* many jobs as bring the same index again, it is sent an old job's coinb2.
SlotsAreFresh ==
    \A slot \in {cur, prev} : slot.valid => slot.coinb2.job > latest - RingSize

\* A share of the job the miner has, or of the one before it, is rebuilt with the
\* coinb2 the miner was sent, whichever of its sendings it comes from: while the
\* pipelines of the hardware drain, across quickdiffs, new names, and a service
\* that answers for one job and not for the next.
RecentSharesAreRebuilt ==
    SlotsAreFresh =>
        \A w \in work :
            Accepted(w) /\ (w.job \in {lastSent, beforeLast} \/ w.empty) =>
                Rebuilt(w) = w.coinb2

=============================================================================

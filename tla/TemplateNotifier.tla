-------------------------- MODULE TemplateNotifier --------------------------
(***************************************************************************)
(* The gateway's template thread and those who wake it                     *)
(* (datum_blocktemplates.c). The thread asks the node for a template, makes *)
(* stratum jobs of it, and sleeps until its timer ends or somebody says     *)
(* that there is a new block: the node by a signal, the fallback notifier   *)
(* that polls the node, the stratum server when a miner found one.          *)
(*                                                                         *)
(* The node's best blocks are numbered in the order it adopts them; a       *)
(* template is the number of the block it builds on. A notice comes from    *)
(* the node the templates come from and never before the block, as the      *)
(* comment in the thread's loop presumes.                                   *)
(***************************************************************************)
EXTENDS Integers

CONSTANTS
    MaxTips,      \* bound on the node's best blocks
    MaxNotices,   \* bound on signals and on notices by the stratum server
    MaxPolls      \* 16: polls after a notice that brings no new block

ASSUME BoundsAssumption == MaxTips \in Nat \ {0} /\ MaxNotices \in Nat /\ MaxPolls \in Nat

VARIABLES
    tip,                          \* the node's best block
    notices,                      \* signals and server's notices so far
    newNotify,                    \* new_notify or new_notify_threadsafe is set
    notifyHash, notifyHeight,     \* new_notify_blockhash, new_notify_height
    otherCause,                   \* notify_othercause
    pollerSaw, pollerAnswer,      \* the fallback notifier's p1 and the answer it has
    pc, template,                 \* the template thread, and the template it has
    p1, wasNotified, wnc,         \* its local variables
    job,                          \* the latest stratum job
    told, asked, gaveUp           \* history: see the properties

noticeVars == <<newNotify, notifyHash, notifyHeight, otherCause>>
pollerVars == <<pollerSaw, pollerAnswer>>
localVars == <<p1, wasNotified, wnc>>
threadVars == <<pc, template, localVars, job>>
historyVars == <<told, asked, gaveUp>>
vars == <<tip, notices, noticeVars, pollerVars, threadVars, historyVars>>

Tips == 1 .. MaxTips
NoBlock == 0

\* A hash that begins with "T": the test networks' fast forward.
FastForward == MaxTips + 1

Job(block, clean, state) == [block |-> block, clean |-> clean, state |-> state]

Init ==
    /\ tip = 1 /\ notices = 0
    /\ newNotify = FALSE /\ notifyHash = NoBlock /\ notifyHeight = 0 /\ otherCause = FALSE
    /\ pollerSaw = NoBlock /\ pollerAnswer = NoBlock
    /\ pc = "fetch" /\ template = NoBlock
    /\ p1 = NoBlock /\ wasNotified = FALSE /\ wnc = 0
    /\ job = Job(NoBlock, FALSE, "none")
    /\ told = NoBlock /\ asked = FALSE /\ gaveUp = FALSE

-----------------------------------------------------------------------------
(* The node, and the callers outside this file (external) *)

NewTip ==
    /\ tip < MaxTips /\ tip' = tip + 1
    /\ UNCHANGED <<notices, noticeVars, pollerVars, threadVars, historyVars>>

\* datum_blocktemplates_notifynew. The hash is written after the flag, but with
\* the lock held that the thread takes to compare it.
NotifyNew(hash, height) ==
    /\ newNotify' = TRUE /\ told' = tip
    /\ notifyHash' = hash
    /\ notifyHeight' = IF height > notifyHeight THEN height ELSE notifyHeight
    /\ UNCHANGED otherCause

\* A miner found the block and the server knows the next template's height, or an
\* operator wants the test network's clock to go faster.
ServerNotice ==
    /\ notices < MaxNotices /\ notices' = notices + 1
    /\ \/ \E height \in {0, tip} : NotifyNew(tip, height)
       \/ NotifyNew(FastForward, 0)
    /\ UNCHANGED <<tip, pollerVars, threadVars, asked, gaveUp>>

\* datum_blocktemplates_notifynew_sighandler.
Signal ==
    /\ notices < MaxNotices /\ notices' = notices + 1
    /\ newNotify' = TRUE /\ told' = tip
    /\ UNCHANGED <<tip, notifyHash, notifyHeight, otherCause, pollerVars, threadVars, asked, gaveUp>>

\* datum_blocktemplates_notify_othercause.
OtherCause ==
    /\ otherCause' = TRUE /\ asked' = TRUE
    /\ UNCHANGED <<tip, notices, newNotify, notifyHash, notifyHeight, pollerVars, threadVars,
                   told, gaveUp>>

-----------------------------------------------------------------------------
(* datum_gateway_fallback_notifier *)

\* getbestblockhash is answered; after a failed call it asks again.
PollerAsks ==
    /\ pollerAnswer = NoBlock
    /\ pollerAnswer' = tip
    /\ UNCHANGED <<tip, notices, noticeVars, pollerSaw, threadVars, historyVars>>

\* The first answer is only remembered.
PollerTells ==
    /\ pollerAnswer # NoBlock
    /\ IF pollerSaw \notin {NoBlock, pollerAnswer}
       THEN NotifyNew(pollerAnswer, 0)
       ELSE UNCHANGED <<noticeVars, told>>
    /\ pollerSaw' = pollerAnswer /\ pollerAnswer' = NoBlock
    /\ UNCHANGED <<tip, notices, threadVars, asked, gaveUp>>

-----------------------------------------------------------------------------
(* datum_gateway_template_thread *)

\* getblocktemplate. A failed call is tried again after a second.
Fetch ==
    /\ pc = "fetch"
    /\ template' = tip /\ pc' = "decide"
    /\ UNCHANGED <<tip, notices, noticeVars, pollerVars, localVars, job, historyVars>>

\* The answer has no result, or one that cannot be parsed.
FetchUnusable ==
    /\ pc = "fetch" /\ pc' = "pause"
    /\ UNCHANGED <<tip, notices, noticeVars, pollerVars, template, localVars, job, historyVars>>

NewBlock == template # p1

\* Mutated form of DecideClean: no empty work goes ahead of the full job.
DecideFullAtOnce ==
    /\ pc = "decide"
    /\ NewBlock \/ otherCause
    /\ otherCause' = FALSE /\ pc' = "full" /\ p1' = template /\ asked' = FALSE
    /\ UNCHANGED <<tip, notices, newNotify, notifyHash, notifyHeight, pollerVars, template,
                   wasNotified, wnc, job, told, gaveUp>>

\* Clean work is to be made. The request is answered by the job that comes next.
DecideClean ==
    /\ pc = "decide"
    /\ NewBlock \/ otherCause
    /\ otherCause' = FALSE /\ pc' = "empty"
    /\ UNCHANGED <<tip, notices, newNotify, notifyHash, notifyHeight, pollerVars, template,
                   localVars, job, historyVars>>

\* The notice was about the block that is known: its height is unknown or the same.
NoticeIsKnown ==
    notifyHash = template /\ notifyHeight \in {0, template}

\* After a notice that brought no new block, under the lock. "recent" stands for
\* a change of blocks less than two and a half seconds ago.
DecideNotified ==
    /\ pc = "decide" /\ ~NewBlock /\ ~otherCause /\ wasNotified
    /\ \E recent \in BOOLEAN :
          wasNotified' = ~(NoticeIsKnown \/ recent \/ notifyHash = FastForward)
    /\ wnc' = IF NoticeIsKnown THEN 0 ELSE wnc
    /\ IF notifyHash = FastForward
       THEN job' = Job(template, TRUE, "priority") /\ notifyHash' = NoBlock
       ELSE UNCHANGED <<job, notifyHash>>
    /\ pc' = "pause"
    /\ UNCHANGED <<tip, notices, newNotify, notifyHeight, otherCause, pollerVars, template, p1,
                   historyVars>>

DecideNormal ==
    /\ pc = "decide" /\ ~NewBlock /\ ~otherCause /\ ~wasNotified
    /\ pc' = "normal"
    /\ UNCHANGED <<tip, notices, noticeVars, pollerVars, template, localVars, job, historyVars>>

\* Mutated form of PublishEmpty: the notice is taken for the one of this block.
PublishEmptyClearsNotice ==
    /\ pc = "empty"
    /\ job' = Job(template, TRUE, "empty") /\ asked' = FALSE
    /\ p1' = template
    /\ wasNotified' = (wasNotified /\ ~NewBlock)
    /\ newNotify' = FALSE
    /\ pc' = "full"
    /\ UNCHANGED <<tip, notices, notifyHash, notifyHeight, otherCause, pollerVars, template, wnc,
                   told, gaveUp>>

\* The empty job, and the end of the notice if there is a new block.
PublishEmpty ==
    /\ pc = "empty"
    /\ job' = Job(template, TRUE, "empty") /\ asked' = FALSE
    /\ p1' = template
    /\ wasNotified' = (wasNotified /\ ~NewBlock)
    /\ pc' = "full"
    /\ UNCHANGED <<tip, notices, noticeVars, pollerVars, template, wnc, told, gaveUp>>

\* Mutated form of PublishFull: the request is taken off when both jobs are made.
PublishFullClearsCause ==
    /\ pc = "full"
    /\ job' = Job(template, FALSE, "priority") /\ pc' = "pause"
    /\ otherCause' = FALSE
    /\ UNCHANGED <<tip, notices, newNotify, notifyHash, notifyHeight, pollerVars, template,
                   localVars, historyVars>>

\* The empty work was sent, or four seconds have passed.
PublishFull ==
    /\ pc = "full"
    /\ job' = Job(template, FALSE, "priority") /\ pc' = "pause"
    /\ UNCHANGED <<tip, notices, noticeVars, pollerVars, template, localVars, historyVars>>

PublishNormal ==
    /\ pc = "normal"
    /\ job' = Job(template, FALSE, "normal") /\ pc' = "pause"
    /\ UNCHANGED <<tip, notices, noticeVars, pollerVars, template, localVars, historyVars>>

PauseToWait ==
    /\ pc = "pause"
    /\ ~wasNotified \/ newNotify
    /\ pc' = "wait"
    /\ UNCHANGED <<tip, notices, noticeVars, pollerVars, template, localVars, job, historyVars>>

\* Mutated form of Poll: it is never given up.
PollForEver ==
    /\ pc = "pause" /\ wasNotified /\ ~newNotify
    /\ pc' = "fetch"
    /\ UNCHANGED <<tip, notices, noticeVars, pollerVars, template, localVars, job, historyVars>>

\* A quarter of a second later the node is asked again, a few times.
Poll ==
    /\ pc = "pause" /\ wasNotified /\ ~newNotify
    /\ IF wnc < MaxPolls
       THEN wnc' = wnc + 1 /\ UNCHANGED <<wasNotified, gaveUp>>
       ELSE wnc' = 0 /\ wasNotified' = FALSE /\ gaveUp' = TRUE
    /\ pc' = "fetch"
    /\ UNCHANGED <<tip, notices, noticeVars, pollerVars, template, p1, job, told, asked>>

\* Both flags are read and cleared; a notice in between is followed by a fetch as
\* well.
Wake ==
    /\ pc = "wait" /\ newNotify
    /\ newNotify' = FALSE /\ wasNotified' = TRUE /\ wnc' = 0 /\ gaveUp' = FALSE
    /\ pc' = "fetch"
    /\ UNCHANGED <<tip, notices, notifyHash, notifyHeight, otherCause, pollerVars, template, p1,
                   job, told, asked>>

\* Mutated form of Timeout: the thread sleeps until it is notified.
NoTimeout ==
    /\ pc = "wait" /\ newNotify /\ pc' = "fetch"
    /\ UNCHANGED <<tip, notices, noticeVars, pollerVars, template, localVars, job, historyVars>>

\* bitcoind_work_update_seconds have passed, and the flags were not set at any look.
Timeout ==
    /\ pc = "wait" /\ ~newNotify /\ pc' = "fetch"
    /\ UNCHANGED <<tip, notices, noticeVars, pollerVars, template, localVars, job, historyVars>>

-----------------------------------------------------------------------------

Thread ==
    \/ Fetch \/ FetchUnusable
    \/ DecideClean \/ DecideNotified \/ DecideNormal
    \/ PublishEmpty \/ PublishFull \/ PublishNormal
    \/ PauseToWait \/ Poll \/ Wake \/ Timeout

Next ==
    \/ NewTip \/ ServerNotice \/ Signal \/ OtherCause
    \/ PollerAsks \/ PollerTells
    \/ Thread

Spec == Init /\ [][Next]_vars

\* The thread runs, and the node does not answer uselessly for ever. Nobody need
\* ever notify it.
Fairness == WF_vars(Thread) /\ SF_vars(Fetch)

FairSpec == Spec /\ Fairness

-----------------------------------------------------------------------------
(* Properties *)

\* Every variable keeps its type.
TypeOK ==
    /\ tip \in Tips /\ notices \in 0 .. MaxNotices
    /\ newNotify \in BOOLEAN /\ otherCause \in BOOLEAN
    /\ notifyHash \in 0 .. FastForward /\ notifyHeight \in 0 .. tip
    /\ {pollerSaw, pollerAnswer, template, p1, told} \subseteq 0 .. tip
    /\ pc \in {"fetch", "decide", "empty", "full", "normal", "pause", "wait"}
    /\ wasNotified \in BOOLEAN /\ wnc \in 0 .. MaxPolls
    /\ job.block \in 0 .. tip /\ asked \in BOOLEAN /\ gaveUp \in BOOLEAN

\* The thread never settles down to sleep behind a notice: when nothing will wake
\* it, jobs have been made for every block it was told of (told is the node's best
\* block at the latest notice), unless the node's answers were of no use so often that
\* it gave up. Flags are set at any time, also while empty work is being sent.
NoticesAreFollowed ==
    pc = "wait" /\ ~newNotify => told <= job.block \/ gaveUp

\* A request for clean work is not lost: until the clean job that answers it is made,
\* the flag is set or the job is the next thing the thread does.
RequestsAreKept == asked => otherCause \/ pc = "empty"

\* A new block reaches the miners first as clean, empty work, and work never goes
\* back to an older block.
NewBlocksStartClean ==
    [][job'.block # job.block =>
          job'.block > job.block /\ job'.clean /\ job'.state = "empty"]_job

\* Every best block of the node, or a later one, is worked on in the end, if nobody
\* notices it at all.
TipsAreWorkedOn == \A n \in Tips : tip = n ~> job.block >= n

\* Work is renewed again and again: polling after a notice that brought no block
\* comes to an end. (Notices are finitely many; each starts the count anew.)
WorkIsRenewed == []<>(pc \in {"normal", "full"})

=============================================================================

----------------------- MODULE TemplateNotifierProofs -----------------------
(***************************************************************************)
(* That the template thread follows the notices it gets and answers the    *)
(* requests for clean work, and that new blocks start clean, for any       *)
(* number of blocks, notices and polls.                                    *)
(***************************************************************************)
EXTENDS TemplateNotifier, TLAPS

\* p1 is the block the latest job builds on, and the template is never older. Once
\* the thread has compared the two and made the empty job, they are the same: what the
\* full and the normal job are made of is no new block.
JobInv ==
    /\ job.block = p1 /\ p1 <= template
    /\ pc \in {"full", "normal", "pause", "wait", "fetch"} => template = p1

\* A notice of a block there is no job for is in the thread's hands: it will poll the
\* node, or it has a template as new as the notice. NoticesAreFollowed alone speaks of
\* the end of this.
Following ==
    ~newNotify /\ told > p1 /\ ~gaveUp =>
        \/ pc \in {"fetch", "pause"} /\ wasNotified
        \/ pc \in {"decide", "empty"} /\ told <= template

\* The inductive invariant.
TemplateInv == TypeOK /\ JobInv /\ Following /\ RequestsAreKept

\* The types, one conjunct for each variable.
LEMMA Typed ==
    TypeOK <=>
        /\ tip \in Tips /\ notices \in 0 .. MaxNotices
        /\ newNotify \in BOOLEAN /\ otherCause \in BOOLEAN
        /\ notifyHash \in 0 .. FastForward /\ notifyHeight \in 0 .. tip
        /\ pollerSaw \in 0 .. tip /\ pollerAnswer \in 0 .. tip
        /\ template \in 0 .. tip /\ p1 \in 0 .. tip /\ told \in 0 .. tip
        /\ pc \in {"fetch", "decide", "empty", "full", "normal", "pause", "wait"}
        /\ wasNotified \in BOOLEAN /\ wnc \in 0 .. MaxPolls
        /\ job.block \in 0 .. tip /\ asked \in BOOLEAN /\ gaveUp \in BOOLEAN
  BY DEF TypeOK

\* Initially the thread is about to ask for its first template.
LEMMA Initially == Init => TemplateInv
<1> SUFFICES ASSUME Init PROVE TemplateInv
  OBVIOUS
<1>1. 0 \in 0 .. MaxNotices /\ 0 \in 0 .. MaxPolls /\ 1 \in 1 .. MaxTips
  BY BoundsAssumption
<1>2. TypeOK
  <2>1. tip \in Tips /\ notices \in 0 .. MaxNotices /\ wnc \in 0 .. MaxPolls
    BY <1>1 DEF Init, Tips
  <2>2. /\ notifyHash \in 0 .. FastForward /\ notifyHeight \in 0 .. tip
        /\ pollerSaw \in 0 .. tip /\ pollerAnswer \in 0 .. tip
        /\ template \in 0 .. tip /\ p1 \in 0 .. tip /\ told \in 0 .. tip
        /\ job.block \in 0 .. tip
    BY BoundsAssumption DEF Init, Job, NoBlock, FastForward
  <2> QED BY <2>1, <2>2, Typed DEF Init
<1>3. JobInv /\ Following /\ RequestsAreKept
  BY DEF Init, JobInv, Following, RequestsAreKept, Job, NoBlock
<1> QED BY <1>2, <1>3 DEF TemplateInv

\* A notice sets the flag, so there is nothing to follow yet.
LEMMA NoticeStep ==
    ASSUME TemplateInv, NEW hash \in 0 .. FastForward, NEW height \in 0 .. tip,
           NotifyNew(hash, height),
           UNCHANGED <<tip, threadVars, asked, gaveUp>>,
           notices' \in 0 .. MaxNotices, pollerSaw' \in 0 .. tip, pollerAnswer' \in 0 .. tip
    PROVE  TemplateInv'
<1>1. TypeOK'
  BY DEF TemplateInv, TypeOK, NotifyNew, threadVars, localVars, Tips, FastForward
<1>2. JobInv' /\ Following' /\ RequestsAreKept'
  BY DEF TemplateInv, JobInv, Following, RequestsAreKept, NotifyNew, threadVars, localVars
<1> QED BY <1>1, <1>2 DEF TemplateInv

\* The node, the callers and the fallback notifier keep the invariant.
LEMMA EnvironmentStep ==
    ASSUME TemplateInv, NewTip \/ ServerNotice \/ Signal \/ OtherCause \/ PollerAsks \/ PollerTells
    PROVE  TemplateInv'
<1> USE BoundsAssumption
<1>1. CASE NewTip
  <2>1. TypeOK'
    BY <1>1 DEF TemplateInv, TypeOK, NewTip, Tips, noticeVars, pollerVars, threadVars,
       localVars, historyVars, FastForward
  <2> QED
    BY <1>1, <2>1 DEF TemplateInv, NewTip, JobInv, Following, RequestsAreKept, noticeVars,
       threadVars, localVars, historyVars
<1>2. CASE ServerNotice
  <2>1. /\ UNCHANGED <<tip, threadVars, asked, gaveUp>>
        /\ notices' \in 0 .. MaxNotices /\ pollerSaw' \in 0 .. tip /\ pollerAnswer' \in 0 .. tip
    BY <1>2, Typed DEF TemplateInv, ServerNotice, pollerVars
  <2>2. /\ tip \in 0 .. FastForward /\ FastForward \in 0 .. FastForward
        /\ 0 \in 0 .. tip /\ tip \in 0 .. tip
    BY Typed DEF TemplateInv, Tips, FastForward
  <2> QED BY <1>2, <2>1, <2>2, NoticeStep DEF ServerNotice
<1>3. CASE Signal
  <2>1. TypeOK'
    BY <1>3 DEF TemplateInv, TypeOK, Signal, Tips, pollerVars, threadVars, localVars,
       FastForward
  <2> QED
    BY <1>3, <2>1 DEF TemplateInv, Signal, JobInv, Following, RequestsAreKept, threadVars,
       localVars
<1>4. CASE OtherCause
  <2>1. TypeOK'
    BY <1>4 DEF TemplateInv, TypeOK, OtherCause, Tips, pollerVars, threadVars, localVars,
       FastForward
  <2> QED
    BY <1>4, <2>1 DEF TemplateInv, OtherCause, JobInv, Following, RequestsAreKept,
       threadVars, localVars
<1>5. CASE PollerAsks
  <2>1. TypeOK'
    BY <1>5 DEF TemplateInv, TypeOK, PollerAsks, Tips, noticeVars, threadVars, localVars,
       historyVars, FastForward
  <2> QED
    BY <1>5, <2>1 DEF TemplateInv, PollerAsks, JobInv, Following, RequestsAreKept,
       noticeVars, threadVars, localVars, historyVars
<1>6. CASE PollerTells
  <2>1. /\ UNCHANGED <<tip, threadVars, asked, gaveUp>>
        /\ notices' \in 0 .. MaxNotices /\ pollerSaw' \in 0 .. tip /\ pollerAnswer' \in 0 .. tip
    BY <1>6, Typed DEF TemplateInv, PollerTells, NoBlock, Tips
  <2>2. CASE NotifyNew(pollerAnswer, 0)
    <3>1. pollerAnswer \in 0 .. FastForward /\ 0 \in 0 .. tip
      BY Typed DEF TemplateInv, Tips, FastForward
    <3> QED BY <2>1, <2>2, <3>1, NoticeStep
  <2>3. CASE UNCHANGED <<noticeVars, told>>
    <3>1. TypeOK'
      BY <2>1, <2>3 DEF TemplateInv, TypeOK, noticeVars, threadVars, localVars, Tips
    <3> QED
      BY <2>1, <2>3, <3>1 DEF TemplateInv, JobInv, Following, RequestsAreKept, noticeVars,
         threadVars, localVars
  <2> QED BY <1>6, <2>2, <2>3 DEF PollerTells
<1> QED BY <1>1, <1>2, <1>3, <1>4, <1>5, <1>6

\* Every step of the thread keeps the invariant.
LEMMA ThreadStep ==
    ASSUME TemplateInv, Thread
    PROVE  TemplateInv'
<1> USE BoundsAssumption
        DEF noticeVars, pollerVars, localVars, historyVars, Job
<1>1. TypeOK /\ JobInv /\ Following /\ RequestsAreKept
  BY DEF TemplateInv
<1>2. CASE Fetch
  <2>1. TypeOK' BY <1>1, <1>2, Typed DEF Fetch, TypeOK, Tips
  <2> QED
    BY <1>1, <1>2, <2>1, Typed
    DEF Fetch, TemplateInv, JobInv, Following, RequestsAreKept, Tips
<1>3. CASE FetchUnusable
  <2>1. TypeOK' BY <1>1, <1>3 DEF FetchUnusable, TypeOK
  <2> QED
    BY <1>1, <1>3, <2>1 DEF FetchUnusable, TemplateInv, JobInv, Following, RequestsAreKept
<1>4. CASE DecideClean
  <2>1. TypeOK' BY <1>1, <1>4 DEF DecideClean, TypeOK
  <2> QED
    BY <1>1, <1>4, <2>1 DEF DecideClean, TemplateInv, JobInv, Following, RequestsAreKept
<1>5. CASE DecideNotified
  <2>1. template = p1
    BY <1>5 DEF DecideNotified, NewBlock
  <2>2. job'.block = job.block
    BY <1>1, <1>5, <2>1 DEF DecideNotified, JobInv
  <2>3. TypeOK'
    BY <1>1, <1>5, <2>2 DEF DecideNotified, TypeOK, NoBlock, FastForward, Tips
  <2> QED
    BY <1>1, <1>5, <2>1, <2>2, <2>3, Typed
    DEF DecideNotified, TemplateInv, JobInv, Following, RequestsAreKept, Tips
<1>6. CASE DecideNormal
  <2>1. template = p1
    BY <1>6 DEF DecideNormal, NewBlock
  <2>2. TypeOK' BY <1>1, <1>6 DEF DecideNormal, TypeOK
  <2> QED
    BY <1>1, <1>6, <2>1, <2>2, Typed
    DEF DecideNormal, TemplateInv, JobInv, Following, RequestsAreKept, Tips
<1>7. CASE PublishEmpty
  <2>1. job'.block = template BY <1>7 DEF PublishEmpty
  <2>2. TypeOK' BY <1>1, <1>7, <2>1 DEF PublishEmpty, TypeOK
  <2> QED
    BY <1>1, <1>7, <2>1, <2>2, Typed
    DEF PublishEmpty, TemplateInv, JobInv, Following, RequestsAreKept, Tips
<1>8. CASE PublishFull
  <2>1. job'.block = template BY <1>8 DEF PublishFull
  <2>2. TypeOK' BY <1>1, <1>8, <2>1 DEF PublishFull, TypeOK
  <2> QED
    BY <1>1, <1>8, <2>1, <2>2
    DEF PublishFull, TemplateInv, JobInv, Following, RequestsAreKept
<1>9. CASE PublishNormal
  <2>1. job'.block = template BY <1>9 DEF PublishNormal
  <2>2. TypeOK' BY <1>1, <1>9, <2>1 DEF PublishNormal, TypeOK
  <2> QED
    BY <1>1, <1>9, <2>1, <2>2
    DEF PublishNormal, TemplateInv, JobInv, Following, RequestsAreKept
<1>10. CASE PauseToWait
  <2>1. TypeOK' BY <1>1, <1>10 DEF PauseToWait, TypeOK
  <2> QED
    BY <1>1, <1>10, <2>1 DEF PauseToWait, TemplateInv, JobInv, Following, RequestsAreKept
<1>11. CASE Poll
  <2>1. wnc' \in 0 .. MaxPolls
    <3>1. wnc \in 0 .. MaxPolls BY <1>1, Typed
    <3>2. CASE wnc < MaxPolls
      BY <1>11, <3>1, <3>2 DEF Poll
    <3>3. CASE ~(wnc < MaxPolls)
      <4>1. wnc' = 0 BY <1>11, <3>3 DEF Poll
      <4> QED BY <4>1
    <3> QED BY <3>2, <3>3
  <2>2. TypeOK' BY <1>1, <1>11, <2>1 DEF Poll, TypeOK
  <2> QED
    BY <1>1, <1>11, <2>2 DEF Poll, TemplateInv, JobInv, Following, RequestsAreKept
<1>12. CASE Wake
  <2>1. wnc' \in 0 .. MaxPolls BY <1>12 DEF Wake
  <2>2. TypeOK' BY <1>1, <1>12, <2>1 DEF Wake, TypeOK
  <2> QED
    BY <1>1, <1>12, <2>2 DEF Wake, TemplateInv, JobInv, Following, RequestsAreKept
<1>13. CASE Timeout
  <2>1. TypeOK' BY <1>1, <1>13 DEF Timeout, TypeOK
  <2> QED
    BY <1>1, <1>13, <2>1 DEF Timeout, TemplateInv, JobInv, Following, RequestsAreKept
<1> QED
  BY <1>2, <1>3, <1>4, <1>5, <1>6, <1>7, <1>8, <1>9, <1>10, <1>11, <1>12, <1>13 DEF Thread

\* The invariant is kept by every behaviour of the template thread.
THEOREM Invariance == Spec => []TemplateInv
<1>1. ASSUME TemplateInv, UNCHANGED vars PROVE TemplateInv'
  BY <1>1 DEF vars, noticeVars, pollerVars, threadVars, localVars, historyVars,
     TemplateInv, TypeOK, JobInv, Following, RequestsAreKept
<1>2. TemplateInv /\ [Next]_vars => TemplateInv'
  BY <1>1, EnvironmentStep, ThreadStep DEF Next
<1> QED BY Initially, <1>2, PTL DEF Spec

\* Type correctness of the template thread.
THEOREM TypeCorrect == Spec => []TypeOK
<1>1. TemplateInv => TypeOK
  BY DEF TemplateInv
<1> QED BY Invariance, <1>1, PTL

\* The thread does not settle down to sleep behind a notice.
THEOREM NoticesLeadToJobs == Spec => []NoticesAreFollowed
<1>1. TemplateInv => NoticesAreFollowed
  BY Typed DEF TemplateInv, JobInv, Following, NoticesAreFollowed, Tips
<1> QED BY Invariance, <1>1, PTL

\* A request for clean work is not lost.
THEOREM RequestsAreNotLost == Spec => []RequestsAreKept
<1>1. TemplateInv => RequestsAreKept
  BY DEF TemplateInv
<1> QED BY Invariance, <1>1, PTL

\* A new block is first given to miners as clean, empty work, and work never goes back
\* to an older block.
THEOREM NewBlocksAreStartedClean == Spec => NewBlocksStartClean
<1>1. ASSUME TemplateInv, [Next]_vars, job'.block # job.block
      PROVE  job'.block > job.block /\ job'.clean /\ job'.state = "empty"
  <2>1. CASE PublishEmpty
    BY <1>1, <2>1, Typed DEF PublishEmpty, TemplateInv, JobInv, Job, Tips
  <2>2. CASE PublishFull \/ PublishNormal \/ DecideNotified
    BY <1>1, <2>2 DEF PublishFull, PublishNormal, DecideNotified, NewBlock, TemplateInv,
       JobInv, Job
  <2>3. CASE UNCHANGED job
    BY <1>1, <2>3
  <2>4. \/ PublishEmpty \/ PublishFull \/ PublishNormal \/ DecideNotified \/ UNCHANGED job
    BY <1>1 DEF Next, Thread, NewTip, ServerNotice, Signal, OtherCause, PollerAsks,
       PollerTells, Fetch, FetchUnusable, DecideClean, DecideNormal, PauseToWait, Poll, Wake,
       Timeout, vars, threadVars
  <2> QED BY <2>1, <2>2, <2>3, <2>4
<1>2. TemplateInv /\ [Next]_vars =>
          [job'.block # job.block =>
              job'.block > job.block /\ job'.clean /\ job'.state = "empty"]_job
  BY <1>1
<1> QED BY Invariance, <1>2, PTL DEF Spec, NewBlocksStartClean

=============================================================================

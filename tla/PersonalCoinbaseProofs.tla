----------------------- MODULE PersonalCoinbaseProofs -----------------------
(***************************************************************************)
(* That the shares of the present and the previous job are rebuilt with    *)
(* the coinb2 the miner was sent, for any ring of jobs, any lag of the     *)
(* stratum threads, and any number of addresses, jobs and connections.     *)
(***************************************************************************)
EXTENDS PersonalCoinbase, TLAPS

Coinb2s == [job : 0 .. MaxJobs, pays : Addresses \cup {Pool, Nobody}]
Sendings == [job : Jobs, session : 1 .. MaxSessions, empty : BOOLEAN, coinb2 : Coinb2s]

\* What was sent so far: jobs that exist, in connections that were.
WorkInv ==
    /\ work \subseteq Sendings
    /\ \A w \in work :
          /\ w.session <= session /\ w.job <= latest
          /\ w.coinb2.job <= w.job
          /\ w.empty => w.coinb2 = Coinb2(w.job, Nobody)

\* A valid slot was built in this connection, for a job with outputs the miner has
\* been sent, and the previous slot for an older one than it has now. When the job it
\* has got outputs, the current slot has that job's index, so that a quickdiff builds
\* nothing: it would push a slot out that shares still need.
SlotsInv ==
    /\ lastSent > 0 /\ cur.valid => (hasOutputs[lastSent] => cur.index = Index(lastSent))
    /\ prev.valid => prev.coinb2.job < lastSent
    /\ \A slot \in {cur, prev} : slot.valid =>
          /\ auth # Nobody
          /\ slot.coinb2.job \in 1 .. lastSent /\ hasOutputs[slot.coinb2.job]
          /\ slot.index = Index(slot.coinb2.job)

\* The full work sent in this connection.
Ours == {w \in work : w.session = session /\ ~w.empty}

\* A slot for a job holds what was sent with it, and a personal coinb2 that was sent
\* with one of the last two jobs is still in a slot, with the last in the current one.
SentInv(w) ==
    /\ w.job <= lastSent /\ Index(w.coinb2.job) = Index(w.job)
    /\ \A slot \in {cur, prev} : slot.valid /\ slot.coinb2.job = w.job => w.coinb2 = slot.coinb2
    /\ w.coinb2 # Coinb2(w.job, Pool) =>
          /\ w.job = lastSent => cur.valid /\ cur.coinb2 = w.coinb2
          /\ w.job = beforeLast => \E slot \in {cur, prev} : slot.valid /\ slot.coinb2 = w.coinb2

\* The inductive invariant.
PersonalInv == TypeOK /\ WorkInv /\ SlotsInv /\ \A w \in Ours : SentInv(w)

\* Two jobs of one round of the ring have different indices.
LEMMA IndicesDiffer ==
    ASSUME NEW i \in Nat, NEW j \in Nat, NEW last \in Nat,
           i > last - RingSize, i <= last, j > last - RingSize, j <= last,
           Index(i) = Index(j)
    PROVE  i = j
<1>1. RingSize \in Nat /\ RingSize > 0
  BY SizesAssumption
<1> DEFINE p == i \div RingSize
           q == j \div RingSize
<1>2. /\ p \in Int /\ q \in Int
      /\ i = RingSize * p + Index(i) /\ j = RingSize * q + Index(j)
  BY <1>1 DEF Index
<1> HIDE DEF p, q
<1>3. i - j = RingSize * (p - q)
  <2>1. RingSize * (p - q) = RingSize * p - RingSize * q
    BY <1>1, <1>2
  <2>2. Index(j) \in Int
    BY <1>1 DEF Index
  <2> QED BY <1>1, <1>2, <2>1, <2>2
<1>4. i - j < RingSize /\ j - i < RingSize
  BY <1>1
<1>5. ~(p - q >= 1)
  <2> SUFFICES ASSUME p - q >= 1 PROVE FALSE
    OBVIOUS
  <2>1. RingSize * (p - q) >= RingSize
    BY <1>1, <1>2
  <2> QED BY <1>3, <1>4, <2>1, <1>1
<1>6. ~(q - p >= 1)
  <2> SUFFICES ASSUME q - p >= 1 PROVE FALSE
    OBVIOUS
  <2>1. RingSize * (q - p) >= RingSize
    BY <1>1, <1>2
  <2>2. RingSize * (q - p) = j - i
    BY <1>1, <1>2, <1>3
  <2> QED BY <1>4, <2>1, <2>2, <1>1
<1>7. p = q
  BY <1>2, <1>5, <1>6
<1> QED BY <1>1, <1>2, <1>3, <1>7

\* An index is a place in the ring.
LEMMA IndexType ==
    ASSUME NEW j \in Nat
    PROVE  Index(j) \in 0 .. RingSize - 1
  BY SizesAssumption DEF Index

\* Initially nothing was sent.
LEMMA Initially == Init => PersonalInv
<1> SUFFICES ASSUME Init PROVE PersonalInv
  OBVIOUS
<1>1. 0 \in 0 .. RingSize - 1 /\ 0 \in 0 .. MaxJobs /\ 1 \in 1 .. MaxSessions
  BY SizesAssumption
<1>2. EmptySlot \in Slots
  BY <1>1 DEF EmptySlot, Slots, Coinb2
<1>3. hasOutputs \in [Jobs -> BOOLEAN]
  BY DEF Init
<1>4. TypeOK
  BY <1>1, <1>2, <1>3 DEF Init, TypeOK
<1>5. WorkInv /\ SlotsInv /\ Ours = {}
  BY DEF Init, WorkInv, SlotsInv, Ours, EmptySlot
<1> QED BY <1>4, <1>5 DEF PersonalInv

\* A new job is none that the miner has been sent.
LEMMA NewJobStep ==
    ASSUME PersonalInv, NewJob
    PROVE  PersonalInv'
<1> USE SizesAssumption DEF PersonalInv, clientVars
<1>1. /\ latest' = latest + 1 /\ latest' \in Jobs /\ UNCHANGED clientVars
      /\ hasOutputs' \in [Jobs -> BOOLEAN]
      /\ \A j \in 1 .. latest : hasOutputs'[j] = hasOutputs[j]
  BY DEF NewJob, TypeOK, Jobs
<1>2. TypeOK'
  BY <1>1 DEF TypeOK, Jobs
<1>3. WorkInv'
  BY <1>1 DEF TypeOK, WorkInv, Sendings, Jobs
<1>4. SlotsInv'
  <2>1. lastSent > 0 => hasOutputs'[lastSent] = hasOutputs[lastSent]
    BY <1>1 DEF TypeOK
  <2>2. \A slot \in {cur, prev} : slot.coinb2.job \in 1 .. lastSent =>
            hasOutputs'[slot.coinb2.job] = hasOutputs[slot.coinb2.job]
    BY <1>1 DEF TypeOK
  <2> QED BY <1>1, <2>1, <2>2 DEF SlotsInv
<1>5. \A w \in Ours' : SentInv(w)'
  BY <1>1 DEF Ours, SentInv
<1> QED BY <1>2, <1>3, <1>4, <1>5

\* How a notification of a job leaves the slots.
LEMMA Personalised ==
    ASSUME PersonalInv, NotifyJob
    PROVE  /\ latest \in Jobs /\ lastSent < latest /\ lastSent \in Nat
           /\ cur' \in Slots /\ prev' \in Slots
           /\ \/ /\ Wanted(latest) /\ cur'.valid
                 /\ cur'.coinb2 = Coinb2(latest, auth) /\ cur'.index = Index(latest)
                 /\ prev' = IF cur.valid THEN cur ELSE prev
              \/ /\ Wanted(latest) /\ ~cur'.valid
                 /\ prev' = IF cur.valid THEN cur ELSE prev
              \/ /\ cur' = cur /\ prev' = prev
                 /\ Wanted(latest) => cur.valid /\ cur.index = Index(latest)
<1> USE SizesAssumption DEF PersonalInv
<1>1. latest \in Jobs /\ lastSent < latest /\ lastSent \in Nat
  BY DEF NotifyJob, TypeOK, Jobs
<1>2. CASE Wanted(latest) /\ MustBuild(latest, FALSE)
  <2>1. Build(latest)
    BY <1>2 DEF NotifyJob, Personalise
  <2>2. PICK answered \in BOOLEAN :
            cur' = [valid |-> answered, index |-> Index(latest),
                    coinb2 |-> IF answered THEN Coinb2(latest, auth) ELSE cur.coinb2]
    BY <2>1 DEF Build
  <2>3. prev' = IF cur.valid THEN cur ELSE prev
    BY <2>1 DEF Build, SavePrevious
  <2>4. /\ Index(latest) \in 0 .. RingSize - 1 /\ cur.coinb2 \in Coinb2s
        /\ Coinb2(latest, auth) \in Coinb2s
    <3>1. Index(latest) \in 0 .. RingSize - 1
      BY <1>1, IndexType DEF Jobs
    <3>2. cur.coinb2 \in Coinb2s
      BY DEF TypeOK, Slots, Coinb2s
    <3>3. auth \in Addresses \cup {Pool, Nobody} /\ latest \in 0 .. MaxJobs
      BY DEF TypeOK
    <3> QED BY <3>1, <3>2, <3>3 DEF Coinb2, Coinb2s
  <2>5. cur' \in Slots
    BY <2>2, <2>4 DEF Slots, Coinb2s
  <2>6. prev' \in Slots
    BY <2>3 DEF TypeOK
  <2>7. CASE answered
    BY <1>1, <1>2, <2>2, <2>3, <2>5, <2>6, <2>7
  <2>8. CASE ~answered
    BY <1>1, <1>2, <2>2, <2>3, <2>5, <2>6, <2>8
  <2> QED BY <2>7, <2>8
<1>3. CASE ~(Wanted(latest) /\ MustBuild(latest, FALSE))
  <2>1. cur' = cur /\ prev' = prev
    BY <1>3 DEF NotifyJob, Personalise
  <2>2. Wanted(latest) => cur.valid /\ cur.index = Index(latest)
    BY <1>3 DEF MustBuild
  <2> QED BY <1>1, <2>1, <2>2 DEF TypeOK
<1> QED BY <1>2, <1>3

\* What is sent with a job is what the slot then holds, or the shared coinb2.
LEMMA NotifyJobStep ==
    ASSUME PersonalInv, NotifyJob
    PROVE  PersonalInv'
<1> USE SizesAssumption DEF PersonalInv
<1> DEFINE sent == [job |-> latest, session |-> session, empty |-> FALSE,
                    coinb2 |-> IF Wanted(latest) /\ cur'.valid THEN cur'.coinb2
                               ELSE Coinb2(latest, Pool)]
<1>1. /\ work' = work \cup {sent} /\ lastSent' = latest /\ beforeLast' = lastSent
      /\ UNCHANGED <<latest, hasOutputs, session, auth>>
  BY DEF NotifyJob, SendPersonalised, Send, jobVars
<1>2. /\ latest \in Jobs /\ lastSent < latest /\ lastSent \in Nat
      /\ cur' \in Slots /\ prev' \in Slots
  BY Personalised
<1>3. sent.coinb2 \in Coinb2s /\ sent \in Sendings
  <2>1. Coinb2(latest, Pool) \in Coinb2s /\ cur'.coinb2 \in Coinb2s
    BY <1>2 DEF Coinb2, Coinb2s, Slots, Jobs
  <2> QED BY <1>2, <2>1 DEF TypeOK, Sendings
<1>4. \A slot \in {cur', prev'} : slot.valid =>
          /\ auth # Nobody
          /\ slot.coinb2.job \in 1 .. latest /\ hasOutputs[slot.coinb2.job]
          /\ slot.index = Index(slot.coinb2.job)
  BY <1>2, Personalised DEF SlotsInv, Wanted, Coinb2, TypeOK, Jobs
<1>5. SlotsInv'
  <2>1. cur'.valid => (hasOutputs[latest] => cur'.index = Index(latest))
    BY <1>4, Personalised DEF Wanted
  <2>2. prev'.valid => prev'.coinb2.job < latest
    <3>1. prev'.valid => prev' \in {cur, prev}
      BY Personalised
    <3>2. \A slot \in {cur, prev} : slot.valid => slot.coinb2.job < latest
      BY <1>2 DEF SlotsInv, Jobs
    <3> QED BY <3>1, <3>2
  <2>3. /\ lastSent' = latest /\ hasOutputs' = hasOutputs /\ auth' = auth
    BY <1>1
  <2>4. \A slot \in {cur', prev'} : slot.valid =>
            /\ auth' # Nobody
            /\ slot.coinb2.job \in 1 .. lastSent' /\ hasOutputs'[slot.coinb2.job]
            /\ slot.index = Index(slot.coinb2.job)
    BY <1>4, <2>3
  <2> QED BY <2>1, <2>2, <2>3, <2>4 DEF SlotsInv
<1>6. cur'.valid /\ Wanted(latest) =>
          /\ cur'.coinb2.job <= latest /\ Index(cur'.coinb2.job) = Index(latest)
  BY <1>2, <1>4, Personalised DEF Coinb2, Jobs, Slots
<1>7. sent.coinb2.job <= sent.job /\ Index(sent.coinb2.job) = Index(sent.job)
  BY <1>2, <1>6 DEF Coinb2, Jobs
<1>8. /\ sent.job = latest /\ sent.session = session /\ ~sent.empty
       /\ sent.coinb2 = IF Wanted(latest) /\ cur'.valid THEN cur'.coinb2 ELSE Coinb2(latest, Pool)
  OBVIOUS
<1> HIDE DEF sent
<1>9. TypeOK' /\ WorkInv'
  <2>1. WorkInv'
    <3>1. work' \subseteq Sendings
      BY <1>1, <1>3 DEF WorkInv
    <3>2. ASSUME NEW w \in work'
          PROVE  /\ w.session <= session /\ w.job <= latest /\ w.coinb2.job <= w.job
                 /\ w.empty => w.coinb2 = Coinb2(w.job, Nobody)
      <4>1. CASE w = sent BY <1>2, <1>7, <1>8, <4>1 DEF TypeOK, Jobs
      <4>2. CASE w \in work BY <4>2 DEF WorkInv
      <4> QED BY <1>1, <4>1, <4>2
    <3> QED BY <1>1, <3>1, <3>2 DEF WorkInv
  <2>2. \A w \in work' : w.job \in 1 .. latest /\ w.coinb2.job \in 0 .. w.job
    BY <1>1, <2>1 DEF WorkInv, Sendings, Coinb2s, Jobs, TypeOK
  <2> QED BY <1>1, <1>2, <2>1, <2>2 DEF TypeOK
<1>10. ASSUME NEW w \in Ours' PROVE SentInv(w)'
  <2>1. CASE w = sent
    <3>1. \A slot \in {cur', prev'} : slot.valid /\ slot.coinb2.job = latest =>
              sent.coinb2 = slot.coinb2
      BY <1>2, <1>4, <1>8, Personalised DEF SlotsInv, Wanted, Slots
    <3>2. sent.coinb2 # Coinb2(latest, Pool) => cur'.valid /\ cur'.coinb2 = sent.coinb2
      BY <1>8
    <3>3. (\A slot \in {cur, prev} :
               slot.valid /\ slot.coinb2.job = w.job => w.coinb2 = slot.coinb2)'
      BY <1>8, <2>1, <3>1
    <3>4. w.job = lastSent' /\ w.job # beforeLast' /\ w.job <= lastSent'
      BY <1>1, <1>2, <1>8, <2>1 DEF Jobs
    <3>5. Index(w.coinb2.job) = Index(w.job)
      BY <1>7, <2>1
    <3>6. w.coinb2 # Coinb2(w.job, Pool) => cur'.valid /\ cur'.coinb2 = w.coinb2
      BY <1>8, <2>1, <3>2
    <3> QED BY <3>3, <3>4, <3>5, <3>6 DEF SentInv
  <2>2. CASE w # sent
    <3>1. w \in Ours /\ SentInv(w) /\ w.job \in Nat
      BY <1>1, <2>2 DEF Ours, WorkInv, Sendings, Jobs
    <3>2. w.job < latest
      <4>1. w.job <= lastSent BY <3>1 DEF SentInv
      <4>2. latest \in Nat BY <1>2 DEF Jobs
      <4> QED BY <1>2, <3>1, <4>1, <4>2
    <3>3. \A slot \in {cur', prev'} : slot.valid /\ slot.coinb2.job = w.job =>
              w.coinb2 = slot.coinb2
      BY <1>2, <3>1, <3>2, Personalised DEF SentInv, Coinb2, Jobs
    <3>4. w.coinb2 # Coinb2(w.job, Pool) /\ w.job = lastSent =>
              \E slot \in {cur', prev'} : slot.valid /\ slot.coinb2 = w.coinb2
      BY <3>1, Personalised DEF SentInv
    <3>5. /\ lastSent' = latest /\ beforeLast' = lastSent /\ w.job # latest
          /\ w.job <= latest /\ Index(w.coinb2.job) = Index(w.job)
      BY <1>1, <1>2, <3>1, <3>2 DEF SentInv, Jobs
    <3> QED BY <3>3, <3>4, <3>5 DEF SentInv
  <2> QED BY <2>1, <2>2
<1> QED BY <1>5, <1>9, <1>10

\* A quickdiff builds nothing, and sends what was sent with the job.
LEMMA QuickdiffStep ==
    ASSUME PersonalInv, NotifyQuickdiff
    PROVE  PersonalInv'
<1> USE SizesAssumption DEF PersonalInv
<1>1. lastSent \in Jobs /\ lastSent <= latest /\ lastSent > 0
  BY DEF NotifyQuickdiff, TypeOK, Jobs
<1>2. ~(Wanted(lastSent) /\ MustBuild(lastSent, TRUE))
  BY <1>1 DEF SlotsInv, Wanted, MustBuild
<1>3. UNCHANGED <<cur, prev, latest, hasOutputs, session, auth, lastSent, beforeLast>>
  BY <1>2 DEF NotifyQuickdiff, Personalise, jobVars
<1> DEFINE sent == [job |-> lastSent, session |-> session, empty |-> FALSE,
                    coinb2 |-> IF Wanted(lastSent) /\ cur.valid THEN cur.coinb2
                               ELSE Coinb2(lastSent, Pool)]
<1>4. work' = work \cup {sent}
  BY <1>3 DEF NotifyQuickdiff, SendPersonalised, Send
<1>5. sent.coinb2 \in Coinb2s /\ sent \in Sendings
  <2>1. Coinb2(lastSent, Pool) \in Coinb2s /\ cur.coinb2 \in Coinb2s
    BY <1>1 DEF Coinb2, Coinb2s, Slots, Jobs, TypeOK
  <2> QED BY <1>1, <2>1 DEF TypeOK, Sendings
<1>6. sent.coinb2.job <= sent.job /\ Index(sent.coinb2.job) = Index(sent.job)
  BY <1>1 DEF SlotsInv, Wanted, Coinb2, Jobs
<1>7. /\ sent.job = lastSent /\ sent.session = session /\ ~sent.empty
       /\ sent.coinb2 = IF Wanted(lastSent) /\ cur.valid THEN cur.coinb2
                        ELSE Coinb2(lastSent, Pool)
  OBVIOUS
<1> HIDE DEF sent
<1>8. TypeOK' /\ WorkInv'
  <2>1. WorkInv'
    <3>1. work' \subseteq Sendings
      BY <1>4, <1>5 DEF WorkInv
    <3>2. ASSUME NEW w \in work'
          PROVE  /\ w.session <= session /\ w.job <= latest /\ w.coinb2.job <= w.job
                 /\ w.empty => w.coinb2 = Coinb2(w.job, Nobody)
      <4>1. CASE w = sent BY <1>1, <1>6, <1>7, <4>1 DEF TypeOK, Jobs
      <4>2. CASE w \in work BY <4>2 DEF WorkInv
      <4> QED BY <1>4, <4>1, <4>2
    <3> QED BY <1>3, <3>1, <3>2 DEF WorkInv
  <2>2. \A w \in work' : w.job \in 1 .. latest /\ w.coinb2.job \in 0 .. w.job
    BY <1>3, <2>1 DEF WorkInv, Sendings, Coinb2s, Jobs, TypeOK
  <2> QED BY <1>3, <2>1, <2>2 DEF TypeOK
<1>9. SlotsInv'
  BY <1>3 DEF SlotsInv
<1>10. ASSUME NEW w \in Ours' PROVE SentInv(w)'
  <2>1. CASE w = sent
    <3>1. \A slot \in {cur, prev} : slot.valid /\ slot.coinb2.job = lastSent =>
              sent.coinb2 = slot.coinb2
      BY <1>1, <1>7 DEF SlotsInv, Wanted
    <3>2. sent.coinb2 # Coinb2(lastSent, Pool) => cur.valid /\ cur.coinb2 = sent.coinb2
      BY <1>7
    <3>3. w.job = lastSent /\ w.job <= lastSent
      BY <1>1, <1>7, <2>1 DEF Jobs
    <3> QED BY <1>3, <1>6, <2>1, <3>1, <3>2, <3>3 DEF SentInv
  <2>2. CASE w # sent
    BY <1>3, <1>4, <2>2 DEF Ours, SentInv
  <2> QED BY <2>1, <2>2
<1> QED BY <1>8, <1>9, <1>10

\* Empty work has no slot, a new name changes none, and a reconnection leaves all
\* work behind.
LEMMA OtherStep ==
    ASSUME PersonalInv,
           NotifyNewBlock \/ (\E a \in Addresses : Authorize(a)) \/ Reconnect
    PROVE  PersonalInv'
<1> USE SizesAssumption, AddressesAssumption DEF PersonalInv, jobVars
<1>1. CASE NotifyNewBlock
  <2> DEFINE sent == [job |-> latest, session |-> session, empty |-> TRUE,
                      coinb2 |-> Coinb2(latest, Nobody)]
  <2>1. /\ work' = work \cup {sent} /\ latest \in Jobs
        /\ UNCHANGED <<latest, hasOutputs, session, auth, cur, prev, lastSent, beforeLast>>
    BY <1>1 DEF NotifyNewBlock, Send, TypeOK, Jobs
  <2>2. sent \in Sendings /\ sent.coinb2.job = latest
    BY <2>1 DEF Sendings, Coinb2s, Coinb2, TypeOK, Jobs
  <2>3. /\ sent.job = latest /\ sent.session = session /\ sent.empty
        /\ sent.coinb2 = Coinb2(latest, Nobody)
    OBVIOUS
  <2> HIDE DEF sent
  <2>4. WorkInv'
    <3>1. work' \subseteq Sendings
      BY <2>1, <2>2 DEF WorkInv
    <3>2. ASSUME NEW w \in work'
          PROVE  /\ w.session <= session /\ w.job <= latest /\ w.coinb2.job <= w.job
                 /\ w.empty => w.coinb2 = Coinb2(w.job, Nobody)
      <4>1. CASE w = sent BY <2>1, <2>2, <2>3, <4>1 DEF TypeOK, Jobs
      <4>2. CASE w \in work BY <4>2 DEF WorkInv
      <4> QED BY <2>1, <4>1, <4>2
    <3> QED BY <2>1, <3>1, <3>2 DEF WorkInv
  <2>5. \A w \in work' : w.job \in 1 .. latest /\ w.coinb2.job \in 0 .. w.job
    BY <2>1, <2>4 DEF WorkInv, Sendings, Coinb2s, Jobs, TypeOK
  <2>6. TypeOK' /\ SlotsInv' /\ Ours' = Ours
    BY <2>1, <2>5, <2>3 DEF TypeOK, SlotsInv, Ours
  <2> QED BY <2>1, <2>4, <2>6 DEF SentInv
<1>2. ASSUME NEW a \in Addresses, Authorize(a) PROVE PersonalInv'
  <2>1. /\ auth' = a /\ a # Nobody
        /\ UNCHANGED <<latest, hasOutputs, session, cur, prev, lastSent, beforeLast, work>>
    BY <1>2 DEF Authorize
  <2> QED BY <2>1 DEF TypeOK, WorkInv, SlotsInv, Ours, SentInv
<1>3. CASE Reconnect
  <2>1. /\ session' = session + 1 /\ session' \in 1 .. MaxSessions
        /\ auth' = Nobody /\ cur' = EmptySlot /\ prev' = EmptySlot
        /\ lastSent' = 0 /\ beforeLast' = 0
        /\ UNCHANGED <<latest, hasOutputs, work>>
    BY <1>3 DEF Reconnect, TypeOK
  <2>2. EmptySlot \in Slots /\ ~EmptySlot.valid
    BY DEF EmptySlot, Slots, Coinb2
  <2>3. WorkInv'
    BY <2>1 DEF WorkInv, TypeOK, Sendings
  <2>4. Ours' = {}
    BY <2>1 DEF Ours, WorkInv, TypeOK, Sendings
  <2>5. TypeOK' /\ SlotsInv'
    BY <2>1, <2>2 DEF TypeOK, SlotsInv
  <2> QED BY <2>3, <2>4, <2>5
<1> QED BY <1>1, <1>2, <1>3

\* The invariant is kept by every behaviour of the connection.
THEOREM Invariance == Spec => []PersonalInv
<1>1. ASSUME PersonalInv, UNCHANGED vars PROVE PersonalInv'
  BY <1>1 DEF vars, jobVars, clientVars, PersonalInv, TypeOK, WorkInv, SlotsInv, Ours, SentInv
<1>2. PersonalInv /\ [Next]_vars => PersonalInv'
  BY <1>1, NewJobStep, NotifyJobStep, QuickdiffStep, OtherStep DEF Next
<1> QED BY Initially, <1>2, PTL DEF Spec

\* Type correctness of a connection.
THEOREM TypeCorrect == Spec => []TypeOK
<1>1. PersonalInv => TypeOK
  BY DEF PersonalInv
<1> QED BY Invariance, <1>1, PTL

\* A share of the last two jobs is rebuilt with the coinb2 that was sent, as long as
\* the slots are not of an earlier round of the ring.
THEOREM SharesAreRebuilt == Spec => []RecentSharesAreRebuilt
<1>1. PersonalInv => RecentSharesAreRebuilt
  <2> SUFFICES ASSUME PersonalInv, SlotsAreFresh, NEW w \in work, Accepted(w),
                      w.job \in {lastSent, beforeLast} \/ w.empty
               PROVE  Rebuilt(w) = w.coinb2
    BY DEF RecentSharesAreRebuilt
  <2> USE SizesAssumption DEF PersonalInv
  <2>1. CASE w.empty
    BY <2>1 DEF WorkInv, Rebuilt
  <2>2. CASE ~w.empty
    <3>1. /\ SentInv(w) /\ latest \in Nat /\ w.job \in Nat /\ w.job <= latest
          /\ w.coinb2.job \in Nat /\ w.coinb2.job <= latest /\ w.job > latest - RingSize
      BY <2>2 DEF Accepted, Ours, WorkInv, Sendings, Coinb2s, Jobs, TypeOK
    <3>2. ASSUME NEW slot \in {cur, prev}, slot.valid, slot.index = Index(w.job)
          PROVE  slot.coinb2 = w.coinb2
      <4>1. /\ slot.coinb2.job \in Nat /\ slot.coinb2.job <= latest
            /\ slot.coinb2.job > latest - RingSize /\ Index(slot.coinb2.job) = Index(w.job)
        BY <3>2 DEF SlotsAreFresh, SlotsInv, TypeOK
      <4>2. slot.coinb2.job = w.job
        BY <3>1, <4>1, IndicesDiffer
      <4> QED BY <3>1, <3>2, <4>2 DEF SentInv
    <3>3. CASE w.coinb2 = Coinb2(w.job, Pool)
      BY <2>2, <3>2, <3>3 DEF Rebuilt
    <3>4. CASE w.coinb2 # Coinb2(w.job, Pool)
      <4>1. PICK slot \in {cur, prev} : slot.valid /\ slot.coinb2 = w.coinb2
        BY <2>2, <3>1, <3>4 DEF SentInv
      <4>2. slot.index = Index(w.job)
        BY <3>1, <4>1 DEF SlotsInv, SentInv
      <4> QED BY <2>2, <3>2, <4>1, <4>2 DEF Rebuilt
    <3> QED BY <3>3, <3>4
  <2> QED BY <2>1, <2>2
<1> QED BY Invariance, <1>1, PTL

=============================================================================

-------------------------- MODULE WebServerProofs --------------------------
(***************************************************************************)
(* Proofs about the site: the cache of mempool.space, for every set of     *)
(* callers, every time to live and every course its values take; that what *)
(* holds of the cache holds behind the site's pages and routes; and what   *)
(* the pages show of the blocks, for any number of visitors, connections   *)
(* and blocks.                                                             *)
(***************************************************************************)
EXTENDS WebServer, FiniteSetTheorems, SequenceTheorems, TLAPS

-----------------------------------------------------------------------------
(* The cache *)

LEMMA InitCacheInv == CacheInit => CacheInv
<1> SUFFICES ASSUME CacheInit PROVE CacheInv
  OBVIOUS
<1> USE CallersAssumption, TTLAssumption DEF CacheInit, Pending
<1>1. CacheTypeOK
  BY DEF CacheTypeOK
<1>2. OneFetch
  BY DEF OneFetch
<1>3. BothAreSettled
  BY DEF BothAreSettled
<1>4. FetchIsNews
  BY DEF FetchIsNews
<1> QED BY <1>1, <1>2, <1>3, <1>4 DEF CacheInv

-----------------------------------------------------------------------------
(* getExternalStats *)

LEMMA ServeCachedStep ==
    ASSUME CacheInv, NEW c \in Callers, ServeCached(c)
    PROVE  CacheInv' /\ \A p \in Parts : told[p] <= told'[p]
<1> USE DEF CacheInv, ServeCached, Tell
<1>1. told' = told
  BY DEF CacheTypeOK, FetchIsNews
<1> QED
  BY <1>1 DEF CacheTypeOK, OneFetch, BothAreSettled, FetchIsNews

\* A caller who joins a fetch keeps the invariant and is told nothing.
LEMMA JoinFetchStep ==
    ASSUME CacheInv, NEW c \in Callers, JoinFetch(c)
    PROVE  CacheInv' /\ UNCHANGED told
<1> USE DEF CacheInv, JoinFetch
<1>1. CacheTypeOK'
  BY DEF CacheTypeOK
<1>2. OneFetch'
  BY DEF CacheTypeOK, OneFetch
<1>3. BothAreSettled' /\ FetchIsNews'
  BY DEF BothAreSettled, FetchIsNews
<1> QED BY <1>1, <1>2, <1>3

\* A caller who begins a fetch keeps the invariant and is told nothing yet.
LEMMA BeginFetchStep ==
    ASSUME CacheInv, NEW c \in Callers, BeginFetch(c)
    PROVE  CacheInv' /\ UNCHANGED told
<1> USE CallersAssumption DEF CacheInv, BeginFetch
<1>1. CacheTypeOK'
  BY DEF CacheTypeOK
<1>2. OneFetch'
  BY TTLAssumption DEF CacheTypeOK, OneFetch, Fresh
<1>3. \A d \in Callers : fetch[d] = "none"
  BY DEF OneFetch
<1>4. BothAreSettled'
  BY <1>3 DEF CacheTypeOK, BothAreSettled
<1>5. FetchIsNews'
  BY <1>3 DEF CacheTypeOK, BothAreSettled, FetchIsNews
<1> QED BY <1>1, <1>2, <1>4, <1>5

-----------------------------------------------------------------------------
(* _fetchExternal *)

LEMMA RespondsStep ==
    ASSUME CacheInv, NEW c \in Callers, NEW p \in Parts, Responds(c, p)
    PROVE  CacheInv' /\ UNCHANGED told
<1> USE DEF CacheInv, Responds
<1>1. PICK v \in asOf[c][p] .. upstream[p] : answer' = [answer EXCEPT ![c][p] = v]
  OBVIOUS
<1>2. v \in Int /\ CacheTypeOK'
  BY <1>1 DEF CacheTypeOK
<1>3. OneFetch'
  BY DEF OneFetch
<1>4. BothAreSettled'
  BY <1>1, <1>2 DEF CacheTypeOK, BothAreSettled
<1>5. FetchIsNews'
  BY <1>1, <1>2 DEF CacheTypeOK, FetchIsNews
<1> QED BY <1>2, <1>3, <1>4, <1>5

\* A request that fails keeps the invariant.
LEMMA RequestFailsStep ==
    ASSUME CacheInv, NEW c \in Callers, NEW p \in Parts, RequestFails(c, p)
    PROVE  CacheInv' /\ UNCHANGED told
<1> USE DEF CacheInv, RequestFails
<1>1. CacheTypeOK'
  BY DEF CacheTypeOK
<1>2. OneFetch'
  BY DEF OneFetch
<1>3. BothAreSettled'
  BY DEF CacheTypeOK, BothAreSettled
<1>4. FetchIsNews'
  BY DEF CacheTypeOK, FetchIsNews
<1> QED BY <1>1, <1>2, <1>3, <1>4

\* A fetch whose requests have all settled keeps the invariant.
LEMMA AllSettledStep ==
    ASSUME CacheInv, NEW c \in Callers, AllSettled(c)
    PROVE  CacheInv' /\ UNCHANGED told
<1> USE DEF CacheInv, AllSettled
<1>1. CacheTypeOK'
  BY DEF CacheTypeOK
<1>2. OneFetch'
  BY DEF CacheTypeOK, OneFetch
<1>3. BothAreSettled'
  BY DEF CacheTypeOK, BothAreSettled
<1>4. FetchIsNews'
  BY DEF CacheTypeOK, FetchIsNews
<1> QED BY <1>1, <1>2, <1>3, <1>4

\* Reading the price, or losing it, keeps the invariant.
LEMMA ReadPriceStep ==
    ASSUME CacheInv, NEW c \in Callers, NEW v \in 0 .. MaxVersion, ReadPrice(c, v)
    PROVE  CacheInv' /\ UNCHANGED told
<1> USE DEF CacheInv, ReadPrice
<1>0. "price" \in Parts /\ v \in Int
  BY DEF Parts
<1>1. CacheTypeOK'
  BY <1>0 DEF CacheTypeOK
<1>2. OneFetch'
  BY DEF CacheTypeOK, OneFetch
<1>3. BothAreSettled'
  BY <1>0 DEF CacheTypeOK, BothAreSettled, Pending
<1>4. FetchIsNews'
  BY <1>0 DEF CacheTypeOK, FetchIsNews
<1> QED BY <1>1, <1>2, <1>3, <1>4

\* The entry that is stored holds, of each part, nothing or a version that is no older
\* than what was told before.
LEMMA FinishStep ==
    ASSUME CacheInv, NEW c \in Callers, NEW v \in 0 .. MaxVersion, Finish(c, v)
    PROVE  CacheInv' /\ \A p \in Parts : told[p] <= told'[p]
<1> DEFINE entry == [answer[c] EXCEPT !["network"] = v]
<1> USE DEF CacheInv
<1>1. /\ fetch[c] = "network" /\ v \in {answer[c]["network"], 0}
      /\ fetch' = [fetch EXCEPT ![c] = "none"]
      /\ cache' = entry /\ age' = 0 /\ inflight' = NoOne
      /\ call' = [d \in Callers |-> IF joined[d] = c THEN "idle" ELSE call[d]]
      /\ joined' = [d \in Callers |-> IF joined[d] = c THEN d ELSE joined[d]]
      /\ told' = [p \in Parts |-> IF entry[p] # 0 THEN entry[p] ELSE told[p]]
      /\ answer' = [answer EXCEPT ![c] = [p \in Parts |-> Pending]]
      /\ asOf' = [asOf EXCEPT ![c] = [p \in Parts |-> 0]]
      /\ upstream' = upstream
  BY DEF Finish, Tell
<1>2. inflight = c /\ c # NoOne /\ \A d \in Callers : d # c => fetch[d] = "none"
  BY <1>1, CallersAssumption DEF OneFetch
<1>3. /\ DOMAIN entry = Parts
      /\ \A p \in Parts : entry[p] = 0 \/ entry[p] \in asOf[c][p] .. upstream[p]
  <2>1. answer[c] \in [Parts -> Int] /\ "network" \in Parts
    BY DEF CacheTypeOK, Parts
  <2>2. \A p \in Parts : answer[c][p] = 0 \/ answer[c][p] \in asOf[c][p] .. upstream[p]
    BY <1>1 DEF BothAreSettled, FetchIsNews
  <2> QED BY <1>1, <2>1, <2>2
<1>4. /\ asOf[c] \in [Parts -> Nat] /\ upstream \in [Parts -> Nat] /\ told \in [Parts -> Nat]
      /\ \A p \in Parts : told[p] <= asOf[c][p] /\ told[p] <= upstream[p]
  BY <1>1 DEF CacheTypeOK, FetchIsNews
<1>5. /\ entry \in [Parts -> Nat]
      /\ told' \in [Parts -> Nat]
      /\ \A p \in Parts : told[p] <= told'[p] /\ told'[p] <= upstream[p]
  <2> HIDE DEF entry
  <2>1. \A p \in Parts : entry[p] \in Nat
    BY <1>3, <1>4
  <2>2. entry = [p \in Parts |-> entry[p]]
    <3>1. answer[c] \in [Parts -> Int]
      BY DEF CacheTypeOK
    <3> QED BY <3>1 DEF entry
  <2>3. entry \in [Parts -> Nat]
    BY <2>1, <2>2
  <2> QED BY <1>1, <1>3, <1>4, <2>1, <2>3
<1>6. CacheTypeOK'
  <2> HIDE DEF entry
  <2> QED BY <1>1, <1>5, TTLAssumption DEF CacheTypeOK, Pending
<1>7. OneFetch'
  <2> HIDE DEF entry
  <2>1. \A d \in Callers : fetch'[d] = "none"
    BY <1>1, <1>2 DEF CacheTypeOK
  <2>2. \A d \in Callers : call'[d] = "idle" /\ joined'[d] = d
    BY <1>1, <1>2 DEF CacheTypeOK, OneFetch
  <2> QED BY <1>1, <2>1, <2>2 DEF OneFetch
<1>8. BothAreSettled'
  <2> HIDE DEF entry
  <2> QED BY <1>1, <1>2 DEF CacheTypeOK, BothAreSettled
<1>9. FetchIsNews'
  <2> HIDE DEF entry
  <2>1. \A d \in Callers : fetch'[d] = "none"
    BY <1>1, <1>2 DEF CacheTypeOK
  <2> QED BY <1>1, <1>5, <2>1 DEF FetchIsNews
<1> QED BY <1>5, <1>6, <1>7, <1>8, <1>9

-----------------------------------------------------------------------------
(* Time, and mempool.space *)

LEMMA TickStep ==
    ASSUME CacheInv, Tick
    PROVE  CacheInv' /\ UNCHANGED told
<1> USE TTLAssumption DEF CacheInv, Tick
<1>1. CacheTypeOK'
  BY DEF CacheTypeOK
<1>2. OneFetch'
  BY DEF CacheTypeOK, OneFetch
<1> QED BY <1>1, <1>2 DEF BothAreSettled, FetchIsNews

\* What moves outside keeps the invariant: what was read of it is only older.
LEMMA MovesStep ==
    ASSUME CacheInv, NEW p \in Parts, Moves(p)
    PROVE  CacheInv' /\ UNCHANGED told
<1> USE DEF CacheInv, Moves
<1>1. CacheTypeOK'
  BY DEF CacheTypeOK
<1>2. OneFetch' /\ BothAreSettled'
  BY DEF OneFetch, BothAreSettled
<1>3. \A q \in Parts : upstream[q] <= upstream'[q] /\ upstream[q] \in Nat /\ upstream'[q] \in Nat
  BY DEF CacheTypeOK
<1>4. FetchIsNews'
  BY <1>3 DEF CacheTypeOK, FetchIsNews
<1> QED BY <1>1, <1>2, <1>4

-----------------------------------------------------------------------------

\* Every step of the cache keeps the invariant and never tells a caller less.
LEMMA NextStep ==
    ASSUME CacheInv, [CacheNext]_cacheVars
    PROVE  CacheInv' /\ \A p \in Parts : told[p] <= told'[p]
<1>1. told \in [Parts -> Nat]
  BY DEF CacheInv, CacheTypeOK
<1>2. ASSUME CacheInv' /\ UNCHANGED told
      PROVE  CacheInv' /\ \A p \in Parts : told[p] <= told'[p]
  BY <1>1, <1>2
<1>3. ASSUME NEW c \in Callers, GetExternalStats(c)
      PROVE  CacheInv' /\ \A p \in Parts : told[p] <= told'[p]
  BY <1>2, <1>3, ServeCachedStep, JoinFetchStep, BeginFetchStep DEF GetExternalStats
<1>4. ASSUME NEW c \in Callers, FetchStep(c)
      PROVE  CacheInv' /\ \A p \in Parts : told[p] <= told'[p]
  BY <1>2, <1>4, RespondsStep, RequestFailsStep, AllSettledStep, ReadPriceStep, FinishStep
  DEF FetchStep
<1>5. CASE Tick
  BY <1>2, <1>5, TickStep
<1>6. ASSUME NEW p \in Parts, Moves(p)
      PROVE  CacheInv' /\ \A q \in Parts : told[q] <= told'[q]
  BY <1>2, <1>6, MovesStep
<1>7. CASE UNCHANGED cacheVars
  BY <1>2, <1>7
  DEF cacheVars, CacheInv, CacheTypeOK, OneFetch, BothAreSettled, FetchIsNews
<1> QED BY <1>3, <1>4, <1>5, <1>6, <1>7 DEF CacheNext, CacheStep

\* There is one fetch at a time, everyone who waits waits for it, and what it will store
\* is no older than what anyone was told.
THEOREM CacheIsNews == CacheSpec => []CacheInv
<1>1. CacheInit => CacheInv
  BY InitCacheInv
<1>2. CacheInv /\ [CacheNext]_cacheVars => CacheInv'
  BY NextStep
<1> QED BY <1>1, <1>2, PTL DEF CacheSpec

\* getExternalStats gives nobody an older value than somebody before him.
THEOREM ValuesNeverStepBack == CacheSpec => NoStepBack
<1>1. CacheInv /\ [CacheNext]_cacheVars => [\A p \in Parts : told[p] <= told'[p]]_told
  BY NextStep
<1> QED BY <1>1, CacheIsNews, PTL DEF CacheSpec, NoStepBack

-----------------------------------------------------------------------------
(* The site uses it as its callers do *)

\* A page that is asked for calls getExternalStats once or not at all; every other step
\* of a visitor leaves the cache alone.
LEMMA VisitorStep ==
    ASSUME NEW v \in Visitors,
           \/ \E p \in world.asks[v] : Arrive(v, p)
           \/ Respond(v) \/ NextPage(v) \/ Leave(v) \/ TimeOut(v) \/ EndQuery(v)
           \/ \E q \in Queries : Hang(v, q)
    PROVE  GetExternalStats(v) \/ UNCHANGED cacheVars
<1>1. ASSUME NEW p \in world.asks[v], Arrive(v, p)
      PROVE  GetExternalStats(v) \/ UNCHANGED cacheVars
  BY <1>1 DEF Arrive, Issue
<1>2. CASE Respond(v)
  BY <1>2 DEF Respond, ReplyError, ReplyPage
<1>3. CASE NextPage(v)
  BY <1>3 DEF NextPage, Issue
<1>4. CASE Leave(v)
  BY <1>4 DEF Leave
<1>5. CASE TimeOut(v)
  BY <1>5 DEF TimeOut, poolFrame
<1>6. CASE EndQuery(v)
  BY <1>6 DEF EndQuery, Answer, QueryFails, poolFrame
<1>7. ASSUME NEW q \in Queries, Hang(v, q)
      PROVE  UNCHANGED cacheVars
  BY <1>7 DEF Hang, poolFrame
<1> QED BY <1>1, <1>2, <1>3, <1>4, <1>5, <1>6, <1>7

\* A step of the web server is a step of its cache or leaves the cache alone.
LEMMA WebStep ==
    ASSUME [WebNext]_allVars
    PROVE  [CacheNext]_cacheVars
<1>1. ASSUME NEW v \in Visitors,
             \/ \E p \in world.asks[v] : Arrive(v, p)
             \/ Respond(v) \/ NextPage(v) \/ Leave(v) \/ TimeOut(v) \/ EndQuery(v)
             \/ \E q \in Queries : Hang(v, q)
      PROVE  [CacheNext]_cacheVars
  BY <1>1, VisitorStep DEF CacheNext, Visitors
<1>2. CASE Connect
  BY <1>2 DEF Connect, poolFrame
<1>3. ASSUME NEW b \in 1 .. world.blocks, Confirm(b)
      PROVE  UNCHANGED cacheVars
  BY <1>3 DEF Confirm
<1>4. CASE CacheStep
  BY <1>4 DEF CacheNext
<1>5. CASE UNCHANGED allVars
  BY <1>5 DEF allVars
<1> QED BY <1>1, <1>2, <1>3, <1>4, <1>5 DEF WebNext

\* Seen from the cache, the site is a set of callers of getExternalStats.
THEOREM SiteUsesCache == WebSpec => CacheSpec
<1>1. WebInit => CacheInit
  BY DEF WebInit
<1>2. [WebNext]_allVars => [CacheNext]_cacheVars
  BY WebStep
<1> QED BY <1>1, <1>2, PTL DEF WebSpec, CacheSpec

\* Behind the pages there is one fetch at a time, whoever waits for queries meanwhile.
THEOREM SiteCacheIsNews == WebSpec => []CacheInv
BY SiteUsesCache, CacheIsNews, PTL

\* No visitor's call of getExternalStats gives an older value than one before it.
THEOREM SiteNeverStepsBack == WebSpec => NoStepBack
BY SiteUsesCache, ValuesNeverStepBack, PTL

-----------------------------------------------------------------------------
(* Rows and their places, for any finite set of blocks *)

NewerIn(b, S) == Cardinality({c \in S : c > b})

\* Of two blocks the later one has fewer newer ones, and there are numbers of them.
LEMMA NewerOrder ==
    ASSUME NEW S \in SUBSET Nat, IsFiniteSet(S), NEW a \in Nat, NEW b \in Nat, a <= b
    PROVE  /\ NewerIn(a, S) \in Nat /\ NewerIn(b, S) \in Nat
           /\ NewerIn(b, S) <= NewerIn(a, S)
           /\ a # b /\ b \in S => NewerIn(b, S) < NewerIn(a, S)
<1> DEFINE A == {c \in S : c > a}
           B == {c \in S : c > b}
<1>1. A \in SUBSET S /\ B \in SUBSET S /\ B \in SUBSET A
  <2>1. \A c \in S : c > b => c > a
    OBVIOUS
  <2> QED BY <2>1
<1>2. IsFiniteSet(A) /\ IsFiniteSet(B)
  BY <1>1, FS_Subset
<1>3. Cardinality(A) \in Nat /\ Cardinality(B) \in Nat
  BY <1>2, FS_CardinalityType
<1>4. Cardinality(B) <= Cardinality(A)
  BY <1>1, <1>2, FS_Subset
<1>5. ASSUME a # b, b \in S PROVE Cardinality(B) < Cardinality(A)
  <2>1. b \in A /\ b \notin B
    BY <1>5
  <2>2. Cardinality(B) # Cardinality(A)
    BY <1>1, <1>2, <2>1, FS_Subset
  <2> QED BY <1>3, <1>4, <2>2
<1> QED BY <1>3, <1>4, <1>5 DEF NewerIn

\* A block has no fewer newer ones when others are confirmed.
LEMMA NewerGrows ==
    ASSUME NEW S \in SUBSET Nat, NEW T \in SUBSET Nat, IsFiniteSet(T), S \subseteq T, NEW b \in Nat
    PROVE  /\ NewerIn(b, S) \in Nat /\ NewerIn(b, T) \in Nat
           /\ NewerIn(b, S) <= NewerIn(b, T)
<1> DEFINE A == {c \in S : c > b}
           B == {c \in T : c > b}
<1>1. A \in SUBSET B /\ B \in SUBSET T
  OBVIOUS
<1>2. IsFiniteSet(B)
  BY <1>1, FS_Subset
<1>3. IsFiniteSet(A) /\ Cardinality(A) <= Cardinality(B)
  BY <1>1, <1>2, FS_Subset
<1> QED BY <1>2, <1>3, FS_CardinalityType DEF NewerIn

\* Places are taken from the first one on without a gap: a page behind which there is
\* a row is full.
LEMMA PageIsFull ==
    ASSUME NEW S \in SUBSET Nat, IsFiniteSet(S), NEW k \in Nat, NEW n \in Nat,
           NEW b \in S, NewerIn(b, S) >= k + n
    PROVE  Cardinality({c \in S : NewerIn(c, S) \in k .. k + n - 1}) = n
<1> DEFINE size == Cardinality(S)
           places == 0 .. size - 1
           f == [c \in S |-> NewerIn(c, S)]
<1>1. size \in Nat
  BY FS_CardinalityType
<1>2. ASSUME NEW c \in S PROVE NewerIn(c, S) \in places
  <2>1. {d \in S : d > c} \in SUBSET S /\ {d \in S : d > c} # S
    OBVIOUS
  <2>2. Cardinality({d \in S : d > c}) <= size /\ Cardinality({d \in S : d > c}) # size
    BY <2>1, FS_Subset
  <2>3. NewerIn(c, S) \in Nat
    BY NewerOrder
  <2> QED BY <1>1, <2>2, <2>3 DEF NewerIn
<1>3. ASSUME NEW c \in S, NEW d \in S, NewerIn(c, S) = NewerIn(d, S) PROVE c = d
  <2>1. CASE c < d
    <3>1. NewerIn(d, S) < NewerIn(c, S)
      BY <2>1, NewerOrder
    <3> QED BY <1>2, <1>3, <3>1
  <2>2. CASE d < c
    <3>1. NewerIn(c, S) < NewerIn(d, S)
      BY <2>2, NewerOrder
    <3> QED BY <1>2, <1>3, <3>1
  <2> QED BY <2>1, <2>2
<1>4. f \in Injection(S, places)
  BY <1>2, <1>3 DEF Injection, IsInjective
<1>5. IsFiniteSet(places) /\ Cardinality(places) = size
  <2> HIDE DEF size
  <2>1. size - 1 \in Int /\ (IF 0 > size - 1 THEN 0 ELSE (size - 1) - 0 + 1) = size
    BY <1>1
  <2> QED BY <2>1, FS_Interval
<1>6. f \in Surjection(S, places)
  <2> HIDE DEF f, places, size
  <2>1. Cardinality(S) = Cardinality(places)
    BY <1>5 DEF size
  <2> QED BY <1>4, <1>5, <2>1, FS_Injection
<1> DEFINE listed == {c \in S : NewerIn(c, S) \in k .. k + n - 1}
           wanted == k .. k + n - 1
           g == [c \in listed |-> NewerIn(c, S)]
<1>7. g \in Injection(listed, wanted)
  BY <1>3 DEF Injection, IsInjective
<1>8. wanted \subseteq places
  BY <1>1, <1>2
<1>9. g \in Surjection(listed, wanted)
  <2>1. g \in [listed -> wanted]
    OBVIOUS
  <2>2. ASSUME NEW i \in wanted PROVE \E c \in listed : g[c] = i
    <3>1. PICK c \in S : f[c] = i
      BY <1>6, <1>8 DEF Surjection
    <3>2. c \in listed /\ g[c] = i
      BY <3>1
    <3> QED BY <3>2
  <2> QED BY <2>1, <2>2 DEF Surjection
<1>10. IsFiniteSet(wanted) /\ Cardinality(wanted) = n
  BY FS_Interval
<1> HIDE DEF listed, wanted, g
<1>11. Cardinality(listed) = Cardinality(wanted)
  BY <1>7, <1>9, <1>10, FS_Injection
<1> QED BY <1>10, <1>11 DEF listed

-----------------------------------------------------------------------------
(* What a visitor's listed waits for *)

\* What is in a queue that another is appended to.
LEMMA RangeOfConcat ==
    ASSUME NEW T, NEW s \in Seq(T), NEW t \in Seq(T)
    PROVE  Range(s \o t) = Range(s) \cup Range(t)
<1>1. DOMAIN (s \o t) = 1 .. Len(s) + Len(t) /\ DOMAIN s = 1 .. Len(s) /\ DOMAIN t = 1 .. Len(t)
      /\ Len(s) \in Nat /\ Len(t) \in Nat
  OBVIOUS
<1>2. \A i \in 1 .. Len(s) : (s \o t)[i] = s[i]
  OBVIOUS
<1>3. \A i \in 1 .. Len(t) : (s \o t)[i + Len(s)] = t[i]
  OBVIOUS
<1>4. \A i \in 1 .. Len(s) + Len(t) : i \in 1 .. Len(s) \/ (i - Len(s) \in 1 .. Len(t) /\ i = (i - Len(s)) + Len(s))
  BY <1>1
<1>5. \A i \in 1 .. Len(t) : i + Len(s) \in 1 .. Len(s) + Len(t)
  BY <1>1
<1>6. \A i \in 1 .. Len(s) : i \in 1 .. Len(s) + Len(t)
  BY <1>1
<1>7. ASSUME NEW x \in Range(s \o t) PROVE x \in Range(s) \cup Range(t)
  <2>1. PICK i \in 1 .. Len(s) + Len(t) : x = (s \o t)[i]
    BY <1>1 DEF Range
  <2>2. CASE i \in 1 .. Len(s)
    BY <1>1, <1>2, <2>1, <2>2 DEF Range
  <2>3. CASE i - Len(s) \in 1 .. Len(t) /\ i = (i - Len(s)) + Len(s)
    <3>1. x = t[i - Len(s)]
      BY <1>3, <2>1, <2>3
    <3> QED BY <1>1, <2>3, <3>1 DEF Range
  <2> QED BY <1>4, <2>2, <2>3
<1>8. Range(s) \subseteq Range(s \o t)
  BY <1>1, <1>2, <1>6 DEF Range
<1>9. Range(t) \subseteq Range(s \o t)
  BY <1>1, <1>3, <1>5 DEF Range
<1> QED BY <1>7, <1>8, <1>9

\* What is in a queue without its head.
LEMMA RangeOfTail ==
    ASSUME NEW T, NEW s \in Seq(T), s # <<>>
    PROVE  Range(s) = {Head(s)} \cup Range(Tail(s)) /\ Head(s) \in T /\ Tail(s) \in Seq(T)
<1>1. DOMAIN s = 1 .. Len(s) /\ Len(s) \in Nat /\ Len(s) > 0 /\ DOMAIN Tail(s) = 1 .. Len(s) - 1
  OBVIOUS
<1>2. \A i \in 1 .. Len(s) - 1 : Tail(s)[i] = s[i + 1] /\ i + 1 \in 1 .. Len(s)
  OBVIOUS
<1>3. Head(s) = s[1] /\ Head(s) \in T /\ Tail(s) \in Seq(T)
  OBVIOUS
<1>4. \A i \in 1 .. Len(s) : i = 1 \/ (i - 1 \in 1 .. Len(s) - 1 /\ i = (i - 1) + 1)
  BY <1>1
<1>5. ASSUME NEW x \in Range(s) PROVE x \in {Head(s)} \cup Range(Tail(s))
  <2>1. PICK i \in 1 .. Len(s) : x = s[i]
    BY <1>1 DEF Range
  <2>2. CASE i = 1
    BY <1>3, <2>1, <2>2
  <2>3. CASE i - 1 \in 1 .. Len(s) - 1 /\ i = (i - 1) + 1
    <3>1. x = Tail(s)[i - 1]
      BY <1>2, <2>1, <2>3
    <3> QED BY <1>1, <2>3, <3>1 DEF Range
  <2> QED BY <1>4, <2>2, <2>3
<1>6. Range(Tail(s)) \subseteq Range(s)
  BY <1>1, <1>2 DEF Range
<1>7. Head(s) \in Range(s)
  <2>1. 1 \in DOMAIN s
    BY <1>1
  <2> QED BY <1>3, <2>1 DEF Range
<1> QED BY <1>3, <1>5, <1>6, <1>7

\* A query that is given up leaves the others in their order.
LEMMA RangeOfRemoved ==
    ASSUME NEW T, NEW s \in Seq(T), NEW i \in DOMAIN s
    PROVE  /\ RemoveAt(s, i) \in Seq(T)
           /\ Range(RemoveAt(s, i)) \subseteq Range(s)
           /\ Range(s) \subseteq Range(RemoveAt(s, i)) \cup {s[i]}
<1> DEFINE a == SubSeq(s, 1, i - 1)
           b == SubSeq(s, i + 1, Len(s))
<1>1. i \in 1 .. Len(s) /\ Len(s) \in Nat /\ DOMAIN s = 1 .. Len(s)
  OBVIOUS
<1>2. a \in Seq(T) /\ DOMAIN a = 1 .. i - 1 /\ \A j \in 1 .. i - 1 : a[j] = s[j]
  BY <1>1
<1>3. b \in Seq(T) /\ DOMAIN b = 1 .. Len(s) - i /\ \A j \in 1 .. Len(s) - i : b[j] = s[i + j]
  BY <1>1
<1>4. RemoveAt(s, i) = a \o b
  BY DEF RemoveAt
<1> HIDE DEF a, b
<1>5. Range(a \o b) = Range(a) \cup Range(b) /\ a \o b \in Seq(T)
  BY <1>2, <1>3, RangeOfConcat
<1>6. \A j \in 1 .. i - 1 : j \in 1 .. Len(s)
  BY <1>1
<1>7. \A j \in 1 .. Len(s) - i : i + j \in 1 .. Len(s)
  BY <1>1
<1>8. \A j \in 1 .. Len(s) : j = i \/ j \in 1 .. i - 1 \/ (j - i \in 1 .. Len(s) - i /\ j = i + (j - i))
  BY <1>1
<1>9. Range(a) \subseteq Range(s)
  BY <1>1, <1>2, <1>6 DEF Range
<1>10. Range(b) \subseteq Range(s)
  BY <1>1, <1>3, <1>7 DEF Range
<1>11. ASSUME NEW x \in Range(s) PROVE x \in Range(a) \cup Range(b) \cup {s[i]}
  <2>1. PICK j \in 1 .. Len(s) : x = s[j]
    BY <1>1 DEF Range
  <2>2. CASE j = i
    BY <2>1, <2>2
  <2>3. CASE j \in 1 .. i - 1
    BY <1>2, <2>1, <2>3 DEF Range
  <2>4. CASE j - i \in 1 .. Len(s) - i /\ j = i + (j - i)
    <3>1. x = b[j - i]
      BY <1>3, <2>1, <2>4
    <3> QED BY <1>3, <2>4, <3>1 DEF Range
  <2> QED BY <1>8, <2>2, <2>3, <2>4
<1> QED BY <1>4, <1>5, <1>9, <1>10, <1>11

-----------------------------------------------------------------------------
(* What a visitor is shown of the blocks *)

\* Of the blocks that were confirmed when the visitor came: the count is still to be
\* taken or has them all; a list is still to be read or is full of later ones; and what
\* a reader of the list has not been shown stands on the page he is at, or behind it.
Counted(v, q) == <<v, q>> \in Outstanding(v) \/ stats[v] >= Cardinality(since[v])

Listed(v, size) ==
    <<v, "blocks">> \in Outstanding(v) \/ LeavesOutOnlyOlder(rows[v], size, since[v])

ReadSoFar(v) ==
    LET number == PageNumber(asked[v])
    IN  /\ \A b \in since[v] \ seen[v] : Newer(b) >= Offset(number)
        /\ \/ <<v, "blocks">> \in Outstanding(v)
           \/ \A b \in since[v] \ (seen[v] \cup rows[v]) :
                 Newer(b) >= Offset(number + 1) /\ Cardinality(rows[v]) = PageSize

Following(v) ==
    /\ since[v] \subseteq confirmed
    /\ page[v] = "none" => Outstanding(v) = {} /\ reply[v] # "page"
    /\ reply[v] = "page" => Outstanding(v) = {} /\ ~failed[v]
    /\ page[v] = "apiBlocks" /\ reply[v] = "page" => rows[v] \subseteq seen[v]
    /\ ~failed[v] =>
          /\ page[v] = "home" => Counted(v, "poolStats")
          /\ page[v] = "stats" => Counted(v, "extended") /\ Listed(v, PageSize)
          /\ page[v] = "blocks" => Listed(v, BlocksRows)
          /\ page[v] = "apiBlocks" => ReadSoFar(v)

BlocksInv == \A v \in Visitors : Following(v)

WebInv == WebTypeOK /\ BlocksInv

\* There are finitely many confirmed blocks, so that places are numbers.
LEMMA ConfirmedIsFinite ==
    ASSUME WebTypeOK
    PROVE  /\ confirmed \in SUBSET Nat /\ IsFiniteSet(confirmed) /\ Cardinality(confirmed) \in Nat
           /\ world.blocks \in Nat /\ 1 .. world.blocks \in SUBSET Nat
           /\ \A b \in Nat : Newer(b) = NewerIn(b, confirmed) /\ Newer(b) \in Nat
<1>1. world.blocks \in Nat
  BY WorldsAssumption DEF WebTypeOK
<1>2. confirmed \in SUBSET (1 .. world.blocks) /\ 1 .. world.blocks \in SUBSET Nat
  BY <1>1 DEF WebTypeOK
<1>3. IsFiniteSet(1 .. world.blocks)
  BY <1>1, FS_Interval
<1>4. confirmed \in SUBSET Nat /\ IsFiniteSet(confirmed)
  BY <1>2, <1>3, FS_Subset
<1>5. \A b \in Nat : Newer(b) = NewerIn(b, confirmed) /\ Newer(b) \in Nat
  <2> SUFFICES ASSUME NEW b \in Nat PROVE Newer(b) = NewerIn(b, confirmed) /\ Newer(b) \in Nat
    OBVIOUS
  <2>1. Newer(b) = NewerIn(b, confirmed)
    BY DEF Newer, NewerIn
  <2>2. b <= b
    OBVIOUS
  <2>3. NewerIn(b, confirmed) \in Nat
    BY <1>4, <2>2, NewerOrder
  <2> QED BY <2>1, <2>3
<1> QED BY <1>1, <1>2, <1>4, <1>5, FS_CardinalityType

\* The first rows of the list leave a block out only for later ones.
LEMMA FirstRows ==
    ASSUME WebTypeOK, NEW size \in Nat \ {0}, NEW blocks \in SUBSET confirmed
    PROVE  LeavesOutOnlyOlder(GetBlocks(size, 0), size, blocks)
<1> DEFINE table == GetBlocks(size, 0)
<1>1. /\ confirmed \in SUBSET Nat /\ IsFiniteSet(confirmed)
      /\ \A b \in Nat : Newer(b) = NewerIn(b, confirmed) /\ Newer(b) \in Nat
  BY ConfirmedIsFinite
<1>2. table = {b \in confirmed : NewerIn(b, confirmed) \in 0 .. 0 + size - 1}
  BY <1>1 DEF GetBlocks
<1> HIDE DEF table
<1>3. ASSUME NEW b \in blocks \ table
      PROVE  Cardinality(table) = size /\ \A shown \in table : shown > b
  <2>1. b \in confirmed /\ b \in Nat /\ NewerIn(b, confirmed) >= 0 + size
    BY <1>1, <1>2
  <2>2. Cardinality(table) = size
    BY <1>1, <1>2, <2>1, PageIsFull
  <2>3. ASSUME NEW shown \in table, ~(shown > b) PROVE FALSE
    <3>1. shown \in Nat /\ NewerIn(shown, confirmed) < size /\ shown <= b
      BY <1>1, <1>2, <2>1, <2>3
    <3>2. NewerIn(b, confirmed) <= NewerIn(shown, confirmed)
      BY <1>1, <2>1, <3>1, NewerOrder
    <3> QED BY <1>1, <2>1, <3>1, <3>2
  <2> QED BY <2>2, <2>3
<1> QED BY <1>3 DEF LeavesOutOnlyOlder, table

\* Pages follow one another without a gap.
LEMMA NumberType ==
    ASSUME NEW n \in Nat
    PROVE  /\ PageNumber(n) \in Nat \ {0} /\ Offset(PageNumber(n)) \in Nat
           /\ Offset(PageNumber(n) + 1) = Offset(PageNumber(n)) + PageSize
           /\ PageNumber(PageNumber(n) + 1) = PageNumber(n) + 1
  BY PoolAssumption DEF PageNumber, Offset

\* What is behind the page before this one is on this page or behind it, and then this
\* page is full.
LEMMA RowsOfPage ==
    ASSUME WebTypeOK, NEW n \in Nat, NEW b \in confirmed,
           Newer(b) >= Offset(PageNumber(n)), b \notin GetBlocks(PageSize, Offset(PageNumber(n)))
    PROVE  /\ Newer(b) >= Offset(PageNumber(n) + 1)
           /\ Cardinality(GetBlocks(PageSize, Offset(PageNumber(n)))) = PageSize
<1> DEFINE off == Offset(PageNumber(n))
           table == GetBlocks(PageSize, off)
<1>1. off \in Nat /\ Offset(PageNumber(n) + 1) = off + PageSize /\ PageSize \in Nat
  BY NumberType, PoolAssumption
<1>2. /\ confirmed \in SUBSET Nat /\ IsFiniteSet(confirmed)
      /\ \A c \in Nat : Newer(c) = NewerIn(c, confirmed) /\ Newer(c) \in Nat
  BY ConfirmedIsFinite
<1>3. table = {c \in confirmed : NewerIn(c, confirmed) \in off .. off + PageSize - 1}
  BY <1>2 DEF GetBlocks
<1>4. b \notin table /\ Newer(b) >= off
  OBVIOUS
<1> HIDE DEF table, off
<1>5. Newer(b) >= off + PageSize /\ NewerIn(b, confirmed) >= off + PageSize
  BY <1>1, <1>2, <1>3, <1>4
<1>6. Cardinality(table) = PageSize
  BY <1>1, <1>2, <1>3, <1>5, PageIsFull
<1> QED BY <1>1, <1>5, <1>6 DEF table, off

\* What others do, and the confirmation of blocks, leave a visitor where he is.
LEMMA OthersFollow ==
    ASSUME WebInv, WebTypeOK', NEW w \in Visitors, confirmed \subseteq confirmed',
           Outstanding(w)' = Outstanding(w),
           page'[w] = page[w], asked'[w] = asked[w], failed'[w] = failed[w], reply'[w] = reply[w],
           stats'[w] = stats[w], rows'[w] = rows[w], since'[w] = since[w], seen'[w] = seen[w]
    PROVE  Following(w)'
<1>1. Following(w)
  BY DEF WebInv, BlocksInv
<1>2. since'[w] \subseteq confirmed'
  BY <1>1 DEF Following
<1>3. confirmed \in SUBSET Nat /\ \A b \in Nat : Newer(b) = NewerIn(b, confirmed)
  BY ConfirmedIsFinite DEF WebInv
<1>4. /\ confirmed' \in SUBSET Nat /\ IsFiniteSet(confirmed')
      /\ \A b \in Nat : Newer(b)' = NewerIn(b, confirmed')
  <2>1. world'.blocks \in Nat /\ confirmed' \in SUBSET (1 .. world'.blocks)
    BY WorldsAssumption DEF WebTypeOK
  <2>2. IsFiniteSet(1 .. world'.blocks)
    BY <2>1, FS_Interval
  <2>3. confirmed' \in SUBSET Nat /\ IsFiniteSet(confirmed')
    <3>1. 1 .. world'.blocks \in SUBSET Nat
      BY <2>1
    <3> QED BY <2>1, <2>2, <3>1, FS_Subset
  <2> QED BY <2>3 DEF Newer, NewerIn
<1>5. \A b \in since[w] : Newer(b) \in Nat /\ Newer(b)' \in Nat /\ Newer(b) <= Newer(b)'
  <2>1. \A b \in Nat : /\ NewerIn(b, confirmed) \in Nat /\ NewerIn(b, confirmed') \in Nat
                       /\ NewerIn(b, confirmed) <= NewerIn(b, confirmed')
    BY <1>3, <1>4, NewerGrows
  <2>2. since[w] \subseteq Nat
    BY <1>1, <1>3 DEF Following
  <2> QED BY <1>3, <1>4, <2>1, <2>2
<1>6. Counted(w, "poolStats") => Counted(w, "poolStats")'
  BY DEF Counted
<1>7. Counted(w, "extended") => Counted(w, "extended")'
  BY DEF Counted
<1>8. \A size : Listed(w, size) => Listed(w, size)'
  BY DEF Listed, LeavesOutOnlyOlder
<1>9. ASSUME ReadSoFar(w) PROVE ReadSoFar(w)'
  <2> DEFINE number == PageNumber(asked[w])
  <2>1. Offset(number) \in Nat /\ Offset(number + 1) \in Nat
    <3>1. asked[w] \in Nat
      BY DEF WebInv, WebTypeOK
    <3> QED BY <3>1, NumberType, PoolAssumption
  <2>2. number' = number
    BY DEF PageNumber
  <2>3. \A b \in since[w] \ seen[w] : Newer(b)' >= Offset(number)
    BY <1>5, <1>9, <2>1 DEF ReadSoFar
  <2>4. <<w, "blocks">> \notin Outstanding(w) =>
            \A b \in since[w] \ (seen[w] \cup rows[w]) :
                Newer(b)' >= Offset(number + 1) /\ Cardinality(rows[w]) = PageSize
    BY <1>5, <1>9, <2>1 DEF ReadSoFar
  <2> HIDE DEF number
  <2>5. Offset(number)' = Offset(number) /\ Offset(number + 1)' = Offset(number + 1)
    BY <2>2 DEF Offset
  <2> QED BY <2>2, <2>3, <2>4, <2>5 DEF ReadSoFar, number
<1> QED BY <1>1, <1>2, <1>6, <1>7, <1>8, <1>9 DEF Following

-----------------------------------------------------------------------------
(* A visitor's steps *)

\* Nobody is there at first.
LEMMA WebInitially == WebInit => WebInv
<1> SUFFICES ASSUME WebInit PROVE WebInv
  OBVIOUS
<1>1. Range(queue) = {}
  BY DEF WebInit, Range
<1>2. WebTypeOK
  BY DEF WebInit, WebTypeOK
<1>3. ASSUME NEW v \in Visitors PROVE Following(v)
  BY <1>1 DEF WebInit, Following, Outstanding, Waiting
<1> QED BY <1>2, <1>3 DEF WebInv, BlocksInv

\* The queries of each page, and those among them that read blocks.
LEMMA QueriesOfPage ==
    ASSUME NEW v \in Visitors, NEW p \in Pages, NEW issued,
           issued = [i \in DOMAIN QueriesOf[p] |-> <<v, QueriesOf[p][i]>>]
    PROVE  /\ issued \in Seq(Visitors \X Queries) /\ \A x \in Range(issued) : x[1] = v
           /\ p = "home" => <<v, "poolStats">> \in Range(issued)
           /\ p = "stats" => <<v, "extended">> \in Range(issued) /\ <<v, "blocks">> \in Range(issued)
           /\ p \in {"blocks", "apiBlocks"} => <<v, "blocks">> \in Range(issued)
<1> DEFINE s == QueriesOf[p]
<1>1. s \in Seq(Queries)
  <2>1. HomePage \in Seq(Queries) /\ StatsPage \in Seq(Queries)
    BY DEF HomePage, StatsPage, Queries
  <2>2. BlocksPage \in Seq(Queries) /\ LeaderboardPage \in Seq(Queries) /\ StatsRoute \in Seq(Queries)
        /\ BlocksRoute \in Seq(Queries) /\ LeaderboardRoute \in Seq(Queries)
    BY DEF BlocksPage, LeaderboardPage, StatsRoute, BlocksRoute, LeaderboardRoute, Queries
  <2>3. MinerDetailPage \in Seq(Queries) /\ MinerRoute \in Seq(Queries) /\ ExternalRoute \in Seq(Queries)
    BY DEF MinerDetailPage, MinerRoute, ExternalRoute, Queries
  <2>4. s \in {HomePage, StatsPage, BlocksPage, LeaderboardPage, MinerDetailPage,
               StatsRoute, BlocksRoute, LeaderboardRoute, MinerRoute, ExternalRoute}
    BY DEF Pages, QueriesOf
  <2> HIDE DEF s
  <2> QED BY <2>1, <2>2, <2>3, <2>4
<1>2. /\ p = "home" => 1 \in DOMAIN s /\ s[1] = "poolStats"
      /\ p = "stats" => {1, 2} \subseteq DOMAIN s /\ s[1] = "extended" /\ s[2] = "blocks"
      /\ p \in {"blocks", "apiBlocks"} => 1 \in DOMAIN s /\ s[1] = "blocks"
  BY DEF QueriesOf, HomePage, StatsPage, BlocksPage, BlocksRoute
<1> HIDE DEF s
<1>3. issued = [i \in DOMAIN s |-> <<v, s[i]>>]
  BY DEF s
<1>4. issued \in Seq(Visitors \X Queries)
  <2>1. DOMAIN s = 1 .. Len(s) /\ Len(s) \in Nat /\ \A i \in DOMAIN s : s[i] \in Queries
    BY <1>1
  <2> QED BY <1>3, <2>1
<1>5. \A i \in DOMAIN s : <<v, s[i]>> \in Range(issued)
  BY <1>3 DEF Range
<1>6. \A x \in Range(issued) : x[1] = v
  BY <1>3 DEF Range
<1>7. p = "home" => <<v, "poolStats">> \in Range(issued)
  BY <1>2, <1>5
<1>8. p = "stats" => <<v, "extended">> \in Range(issued) /\ <<v, "blocks">> \in Range(issued)
  <2>1. p = "stats" => 1 \in DOMAIN s /\ 2 \in DOMAIN s
    BY <1>2
  <2> QED BY <1>2, <1>5, <2>1
<1>9. p \in {"blocks", "apiBlocks"} => <<v, "blocks">> \in Range(issued)
  BY <1>2, <1>5
<1> QED BY <1>4, <1>6, <1>7, <1>8, <1>9

\* What a page issues waits for connections, and nobody else waits for more.
LEMMA IssueStep ==
    ASSUME WebTypeOK, NEW v \in Visitors, NEW p \in Pages, Issue(v, p)
    PROVE  /\ queue' \in Seq(Visitors \X Queries)
           /\ \A w \in Visitors \ {v} : Waiting(w)' = Waiting(w)
           /\ p = "home" => <<v, "poolStats">> \in Waiting(v)'
           /\ p = "stats" => <<v, "extended">> \in Waiting(v)' /\ <<v, "blocks">> \in Waiting(v)'
           /\ p \in {"blocks", "apiBlocks"} => <<v, "blocks">> \in Waiting(v)'
<1> DEFINE issued == [i \in DOMAIN QueriesOf[p] |-> <<v, QueriesOf[p][i]>>]
<1>1. /\ issued \in Seq(Visitors \X Queries) /\ \A x \in Range(issued) : x[1] = v
      /\ p = "home" => <<v, "poolStats">> \in Range(issued)
      /\ p = "stats" => <<v, "extended">> \in Range(issued) /\ <<v, "blocks">> \in Range(issued)
      /\ p \in {"blocks", "apiBlocks"} => <<v, "blocks">> \in Range(issued)
  BY QueriesOfPage
<1>2. queue' = queue \o issued /\ queue \in Seq(Visitors \X Queries)
  BY DEF Issue, WebTypeOK
<1> HIDE DEF issued
<1>3. Range(queue') = Range(queue) \cup Range(issued) /\ queue' \in Seq(Visitors \X Queries)
  BY <1>1, <1>2, RangeOfConcat
<1>4. \A w \in Visitors \ {v} : Waiting(w)' = Waiting(w)
  BY <1>1, <1>3 DEF Waiting
<1>5. \A q : <<v, q>> \in Range(issued) => <<v, q>> \in Waiting(v)'
  BY <1>3 DEF Waiting
<1> QED BY <1>1, <1>3, <1>4, <1>5

\* Whoever comes waits for all he will be shown.
LEMMA ArriveStep ==
    ASSUME WebInv, NEW v \in Visitors, NEW p \in world.asks[v], Arrive(v, p)
    PROVE  WebInv'
<1>1. p \in Pages
  BY WorldsAssumption DEF WebInv, WebTypeOK, Visitors
<1>2. /\ queue' \in Seq(Visitors \X Queries)
      /\ \A w \in Visitors \ {v} : Waiting(w)' = Waiting(w)
      /\ p = "home" => <<v, "poolStats">> \in Waiting(v)'
      /\ p = "stats" => <<v, "extended">> \in Waiting(v)' /\ <<v, "blocks">> \in Waiting(v)'
      /\ p \in {"blocks", "apiBlocks"} => <<v, "blocks">> \in Waiting(v)'
  BY <1>1, IssueStep DEF WebInv, Arrive
<1>3. WebTypeOK'
  BY <1>1, <1>2 DEF WebInv, WebTypeOK, Arrive
<1>4. ASSUME NEW w \in Visitors \ {v} PROVE Following(w)'
  <2>1. Outstanding(w)' = Outstanding(w)
    BY <1>2 DEF Outstanding, Arrive
  <2> QED BY <1>3, <2>1, OthersFollow DEF WebInv, WebTypeOK, Arrive
<1>5. Following(v)'
  <2>1. /\ page'[v] = p /\ p # "none" /\ since'[v] \in SUBSET confirmed /\ confirmed' = confirmed
        /\ asked'[v] \in {0, 1} /\ reply'[v] # "page"
    BY <1>1 DEF WebInv, WebTypeOK, BlocksInv, Following, Arrive, Pages, QueriesOf
  <2>2. Waiting(v)' \subseteq Outstanding(v)'
    BY DEF Outstanding
  <2>3. ReadSoFar(v)' \/ p # "apiBlocks"
    <3>1. (IF asked'[v] < 1 THEN 1 ELSE asked'[v]) = 1 /\ (1 - 1) * PageSize = 0
      BY <2>1, PoolAssumption
    <3>2. \A b \in since'[v] : Newer(b)' \in Nat
      <4>1. confirmed \in SUBSET Nat /\ \A b \in Nat : Newer(b) \in Nat
        BY ConfirmedIsFinite DEF WebInv
      <4> QED BY <2>1, <4>1 DEF Newer
    <3>3. \A b \in since'[v] \ seen'[v] : Newer(b)' >= 0
      BY <3>2
    <3> QED BY <1>2, <2>2, <3>1, <3>3 DEF ReadSoFar, PageNumber, Offset
  <2> QED BY <1>2, <2>1, <2>2, <2>3 DEF Following, Counted, Listed
<1> QED BY <1>3, <1>4, <1>5 DEF WebInv, BlocksInv

\* A page is sent when nothing is waited for, and what was listed has been seen then.
LEMMA RespondStep ==
    ASSUME WebInv, NEW v \in Visitors, Respond(v)
    PROVE  WebInv'
<1>1. WebTypeOK' /\ confirmed' = confirmed
  BY DEF WebInv, WebTypeOK, Respond, ReplyError, ReplyPage
<1>2. \A w \in Visitors : Outstanding(w)' = Outstanding(w)
  BY DEF Outstanding, Waiting, Respond, ReplyError, ReplyPage
<1>3. ASSUME NEW w \in Visitors \ {v} PROVE Following(w)'
  BY <1>1, <1>2, OthersFollow DEF WebInv, WebTypeOK, Respond, ReplyError, ReplyPage
<1>4. Following(v)'
  <2>1. /\ Following(v) /\ page' = page /\ asked' = asked /\ failed' = failed /\ stats' = stats
        /\ rows' = rows /\ since' = since /\ page[v] # "none"
        /\ seen[v] \subseteq seen'[v] /\ reply'[v] \in {"error", "page"}
        /\ reply'[v] = "page" => Outstanding(v) = {} /\ ~failed[v] /\ rows[v] \subseteq seen'[v]
    BY DEF WebInv, WebTypeOK, BlocksInv, Respond, ReplyError, ReplyPage
  <2>2. \A b : Newer(b)' = Newer(b)
    BY <1>1 DEF Newer
  <2>3. ReadSoFar(v) => ReadSoFar(v)'
    BY <1>2, <2>1, <2>2 DEF ReadSoFar, PageNumber, Offset
  <2> QED BY <1>1, <1>2, <2>1, <2>3 DEF Following, Counted, Listed, LeavesOutOnlyOlder
<1> QED BY <1>1, <1>3, <1>4 DEF WebInv, BlocksInv

\* What the pages so far have not shown of the blocks is behind them.
LEMMA NextPageStep ==
    ASSUME WebInv, NEW v \in Visitors, NextPage(v)
    PROVE  WebInv'
<1>1. page[v] = "apiBlocks" /\ page[v] \in Pages /\ reply[v] = "page" /\ Cardinality(rows[v]) = PageSize
  BY DEF NextPage, Pages, QueriesOf
<1>2. /\ queue' \in Seq(Visitors \X Queries)
      /\ \A w \in Visitors \ {v} : Waiting(w)' = Waiting(w)
      /\ <<v, "blocks">> \in Waiting(v)'
  BY <1>1, IssueStep DEF WebInv, NextPage
<1>3. PageNumber(asked[v]) \in Nat \ {0} /\ PageNumber(PageNumber(asked[v]) + 1) = PageNumber(asked[v]) + 1
  BY NumberType DEF WebInv, WebTypeOK
<1>4. WebTypeOK'
  BY <1>2, <1>3 DEF WebInv, WebTypeOK, NextPage
<1>5. ASSUME NEW w \in Visitors \ {v} PROVE Following(w)'
  <2>1. Outstanding(w)' = Outstanding(w)
    BY <1>2 DEF Outstanding, NextPage
  <2> QED BY <1>4, <2>1, OthersFollow DEF WebInv, WebTypeOK, NextPage
<1>6. Following(v)'
  <2>1. /\ Following(v) /\ confirmed' = confirmed /\ page' = page /\ failed' = failed /\ since' = since
        /\ seen' = seen /\ asked'[v] = PageNumber(asked[v]) + 1 /\ reply'[v] = "none"
    BY DEF WebInv, WebTypeOK, BlocksInv, NextPage
  <2>2. ~failed[v] /\ Outstanding(v) = {} /\ rows[v] \subseteq seen[v] /\ ReadSoFar(v)
    BY <1>1, <2>1 DEF Following
  <2>3. \A b \in since[v] \ seen[v] : Newer(b) >= Offset(PageNumber(asked[v]) + 1)
    BY <2>2 DEF ReadSoFar
  <2>4. \A b : Newer(b)' = Newer(b)
    BY <2>1 DEF Newer
  <2>5. PageNumber(asked[v])' = PageNumber(asked[v]) + 1
    BY <1>3, <2>1 DEF PageNumber
  <2>6. <<v, "blocks">> \in Outstanding(v)'
    BY <1>2 DEF Outstanding
  <2>7. ReadSoFar(v)'
    BY <2>1, <2>3, <2>4, <2>5, <2>6 DEF ReadSoFar, Offset
  <2> QED BY <1>1, <2>1, <2>7 DEF Following
<1> QED BY <1>4, <1>5, <1>6 DEF WebInv, BlocksInv

\* Only so many connections can be left behind by one visitor.
LEMMA QueriesAreFew == IsFiniteSet(Queries)
<1> DEFINE f == [i \in 1 .. 7 |->
        CASE i = 1 -> "poolStats" [] i = 2 -> "leaderboard" [] i = 3 -> "extended" [] i = 4 -> "blocks"
          [] i = 5 -> "rank" [] i = 6 -> "history" [] i = 7 -> "blocksInTop21"]
<1>1. f \in [1 .. 7 -> Queries]
  BY DEF Queries
<1>2. \A q \in Queries : \E i \in 1 .. 7 : f[i] = q
  <2>1. /\ f[1] = "poolStats" /\ f[2] = "leaderboard" /\ f[3] = "extended" /\ f[4] = "blocks"
        /\ f[5] = "rank" /\ f[6] = "history" /\ f[7] = "blocksInTop21"
    OBVIOUS
  <2> HIDE DEF f
  <2> QED BY <2>1 DEF Queries
<1> HIDE DEF f
<1>3. f \in Surjection(1 .. 7, Queries)
  BY <1>1, <1>2 DEF Surjection
<1>4. IsFiniteSet(1 .. 7)
  <2>1. 1 \in Int /\ 7 \in Int
    OBVIOUS
  <2> QED BY <2>1, FS_Interval
<1> QED BY <1>3, <1>4, FS_Surjection

\* Whoever leaves waits for nothing any more.
LEMMA LeaveStep ==
    ASSUME WebInv, NEW v \in Visitors, Leave(v)
    PROVE  WebInv'
<1> DEFINE ours == {q \in hung : q[1] = v}
<1>1. hung' = hung \ ours /\ dead' = dead + Cardinality(ours) /\ running' = running
      /\ Waiting(v) = {} /\ \A q \in running : q[1] # v
  BY DEF Leave
<1>2. Cardinality(ours) \in Nat
  <2>1. IsFiniteSet({v}) /\ IsFiniteSet(Queries)
    BY FS_Singleton, QueriesAreFew
  <2>2. IsFiniteSet({v} \X Queries)
    BY <2>1, FS_Product
  <2>3. ours \in SUBSET ({v} \X Queries)
    BY DEF WebInv, WebTypeOK
  <2> QED BY <2>2, <2>3, FS_Subset, FS_CardinalityType
<1>3. WebTypeOK'
  <2>1. dead' \in Nat /\ hung' \subseteq Visitors \X Queries
    BY <1>1, <1>2 DEF WebInv, WebTypeOK
  <2> QED BY <2>1 DEF WebInv, WebTypeOK, Leave
<1>4. \A w \in Visitors : Waiting(w)' = Waiting(w)
  BY DEF Waiting, Leave
<1>5. ASSUME NEW w \in Visitors \ {v} PROVE Following(w)'
  <2>1. Outstanding(w)' = Outstanding(w)
    BY <1>1, <1>4 DEF Outstanding, Leave
  <2>2. confirmed' = confirmed /\ page'[w] = page[w] /\ asked'[w] = asked[w] /\ failed'[w] = failed[w]
        /\ reply'[w] = reply[w]
    BY DEF WebInv, WebTypeOK, Leave
  <2>3. stats'[w] = stats[w] /\ rows'[w] = rows[w] /\ since'[w] = since[w] /\ seen'[w] = seen[w]
    BY DEF WebInv, WebTypeOK, Leave
  <2> QED BY <1>3, <2>1, <2>2, <2>3, OthersFollow
<1>6. Following(v)'
  <2>1. Outstanding(v)' = {}
    BY <1>1, <1>4 DEF Outstanding, Leave
  <2>2. page'[v] = "none" /\ reply'[v] = "none" /\ since'[v] = {} /\ confirmed' = confirmed
    BY DEF WebInv, WebTypeOK, Leave
  <2> QED BY <2>1, <2>2 DEF Following
<1> QED BY <1>3, <1>5, <1>6 DEF WebInv, BlocksInv

-----------------------------------------------------------------------------
(* The steps of the pool and of the reward service *)

\* A query that gets its connection is waited for as before.
LEMMA ConnectStep ==
    ASSUME WebInv, Connect
    PROVE  WebInv'
<1>1. queue \in Seq(Visitors \X Queries) /\ queue # <<>> /\ queue' = Tail(queue)
      /\ running' = running \cup {Head(queue)} /\ hung' = hung
  BY DEF WebInv, WebTypeOK, Connect
<1>2. /\ Range(queue) = {Head(queue)} \cup Range(queue')
      /\ Head(queue) \in Visitors \X Queries /\ queue' \in Seq(Visitors \X Queries)
  BY <1>1, RangeOfTail
<1>3. running' \subseteq Visitors \X Queries
  BY <1>1, <1>2 DEF WebInv, WebTypeOK
<1>4. WebTypeOK'
  BY <1>2, <1>3 DEF WebInv, WebTypeOK, Connect, poolFrame
<1>5. ASSUME NEW w \in Visitors PROVE Following(w)'
  <2>1. Outstanding(w)' = Outstanding(w)
    BY <1>1, <1>2 DEF Outstanding, Waiting
  <2> QED BY <1>4, <2>1, OthersFollow DEF Connect, poolFrame
<1> QED BY <1>4, <1>5 DEF WebInv, BlocksInv

\* A visitor one of whose queries failed, but had not been answered, is sent an error.
LEMMA FailedFollows ==
    ASSUME WebInv, NEW v \in Visitors, page[v] # "none", reply[v] # "page",
           UNCHANGED <<confirmed, page, reply, since, seen>>, failed'[v] = TRUE
    PROVE  Following(v)'
  BY DEF WebInv, BlocksInv, Following

\* A query that waited too long makes its visitor's page an error, and nobody else's.
LEMMA TimeOutStep ==
    ASSUME WebInv, NEW v \in Visitors, TimeOut(v)
    PROVE  WebInv'
<1>1. PICK i \in DOMAIN queue : queue[i][1] = v /\ queue' = RemoveAt(queue, i)
  BY DEF TimeOut
<1>2. /\ queue' \in Seq(Visitors \X Queries) /\ Range(queue') \subseteq Range(queue)
      /\ Range(queue) \subseteq Range(queue') \cup {queue[i]}
  <2>1. queue \in Seq(Visitors \X Queries)
    BY DEF WebInv, WebTypeOK
  <2> QED BY <1>1, <2>1, RangeOfRemoved
<1>3. WebTypeOK'
  BY <1>2 DEF WebInv, WebTypeOK, TimeOut, poolFrame
<1>4. ASSUME NEW w \in Visitors \ {v} PROVE Following(w)'
  <2>1. Waiting(w)' = Waiting(w)
    BY <1>1, <1>2 DEF Waiting
  <2>2. Outstanding(w)' = Outstanding(w)
    BY <2>1 DEF Outstanding, TimeOut
  <2>3. confirmed' = confirmed /\ page'[w] = page[w] /\ asked'[w] = asked[w] /\ failed'[w] = failed[w]
        /\ reply'[w] = reply[w]
    BY DEF WebInv, WebTypeOK, TimeOut, poolFrame
  <2>4. stats'[w] = stats[w] /\ rows'[w] = rows[w] /\ since'[w] = since[w] /\ seen'[w] = seen[w]
    BY DEF TimeOut, poolFrame
  <2> QED BY <1>3, <2>2, <2>3, <2>4, OthersFollow
<1>5. Following(v)'
  <2>1. Outstanding(v) # {} /\ Following(v)
    BY DEF WebInv, BlocksInv, TimeOut, Outstanding
  <2>2. page[v] # "none" /\ reply[v] # "page"
    BY <2>1 DEF Following
  <2>3. failed'[v] = TRUE /\ UNCHANGED <<confirmed, page, reply, since, seen>>
    BY DEF WebInv, WebTypeOK, TimeOut, poolFrame
  <2> QED BY <2>2, <2>3, FailedFollows
<1> QED BY <1>3, <1>4, <1>5 DEF WebInv, BlocksInv

\* So does a query that fails.
LEMMA QueryFailsStep ==
    ASSUME WebInv, NEW v \in Visitors, NEW q \in Queries, QueryFails(v, q)
    PROVE  WebInv'
<1>1. WebTypeOK'
  BY DEF WebInv, WebTypeOK, QueryFails, poolFrame
<1>2. ASSUME NEW w \in Visitors \ {v} PROVE Following(w)'
  <2>1. Outstanding(w)' = Outstanding(w)
    BY DEF Outstanding, Waiting, QueryFails
  <2>2. confirmed' = confirmed /\ page'[w] = page[w] /\ asked'[w] = asked[w] /\ failed'[w] = failed[w]
        /\ reply'[w] = reply[w]
    BY DEF WebInv, WebTypeOK, QueryFails, poolFrame
  <2>3. stats'[w] = stats[w] /\ rows'[w] = rows[w] /\ since'[w] = since[w] /\ seen'[w] = seen[w]
    BY DEF QueryFails, poolFrame
  <2> QED BY <1>1, <2>1, <2>2, <2>3, OthersFollow
<1>3. Following(v)'
  <2>1. <<v, q>> \in Outstanding(v) /\ Following(v)
    BY DEF WebInv, BlocksInv, QueryFails, Outstanding
  <2>2. page[v] # "none" /\ reply[v] # "page"
    BY <2>1 DEF Following
  <2>3. failed'[v] = TRUE /\ UNCHANGED <<confirmed, page, reply, since, seen>>
    BY DEF WebInv, WebTypeOK, QueryFails, poolFrame
  <2> QED BY <2>2, <2>3, FailedFollows
<1> QED BY <1>1, <1>2, <1>3 DEF WebInv, BlocksInv

\* A query that hangs is still waited for.
LEMMA HangStep ==
    ASSUME WebInv, NEW v \in Visitors, NEW q \in Queries, Hang(v, q)
    PROVE  WebInv'
<1>1. WebTypeOK'
  BY DEF WebInv, WebTypeOK, Hang, poolFrame
<1>2. ASSUME NEW w \in Visitors PROVE Following(w)'
  <2>1. Outstanding(w)' = Outstanding(w)
    BY DEF Outstanding, Waiting, Hang
  <2> QED BY <1>1, <2>1, OthersFollow DEF Hang, poolFrame
<1> QED BY <1>1, <1>2 DEF WebInv, BlocksInv

\* The answer counts the blocks, or lists those of the page, as they are confirmed now.
LEMMA AnswerStep ==
    ASSUME WebInv, NEW v \in Visitors, NEW q \in Queries, Answer(v, q)
    PROVE  WebInv'
<1>1. /\ Cardinality(confirmed) \in Nat /\ IsFiniteSet(confirmed) /\ confirmed \subseteq 1 .. world.blocks
      /\ \A size, off : GetBlocks(size, off) \subseteq confirmed
  BY ConfirmedIsFinite DEF WebInv, WebTypeOK, GetBlocks
<1>2. RowsFor(v) \subseteq confirmed
  BY <1>1 DEF RowsFor
<1>3. WebTypeOK'
  <2>1. stats' \in [Visitors -> Nat]
    BY <1>1 DEF WebInv, WebTypeOK, Answer, TotalBlocks
  <2>2. rows' \in [Visitors -> SUBSET (1 .. world.blocks)]
    BY <1>1, <1>2 DEF WebInv, WebTypeOK, Answer
  <2> QED BY <2>1, <2>2 DEF WebInv, WebTypeOK, Answer, poolFrame
<1>4. ASSUME NEW w \in Visitors \ {v} PROVE Following(w)'
  <2>1. Outstanding(w)' = Outstanding(w)
    BY DEF Outstanding, Waiting, Answer
  <2>2. confirmed' = confirmed /\ page'[w] = page[w] /\ asked'[w] = asked[w] /\ failed'[w] = failed[w]
        /\ reply'[w] = reply[w]
    BY DEF Answer, poolFrame
  <2>3. stats'[w] = stats[w] /\ rows'[w] = rows[w] /\ since'[w] = since[w] /\ seen'[w] = seen[w]
    BY DEF WebInv, WebTypeOK, Answer, poolFrame
  <2> QED BY <1>3, <2>1, <2>2, <2>3, OthersFollow
<1>5. Following(v)'
  <2>1. /\ Following(v) /\ confirmed' = confirmed /\ page' = page /\ asked' = asked /\ failed' = failed
        /\ reply' = reply /\ since' = since /\ seen' = seen
    BY DEF WebInv, BlocksInv, Answer, poolFrame
  <2>2. <<v, q>> \in Outstanding(v) /\ Outstanding(v) \ {<<v, q>>} \subseteq Outstanding(v)'
    BY DEF Outstanding, Waiting, Answer
  <2>3. page[v] # "none" /\ reply[v] # "page" /\ since[v] \in SUBSET confirmed
    BY <2>1, <2>2 DEF Following
  <2>4. /\ stats'[v] = IF q \in {"poolStats", "extended"} THEN TotalBlocks ELSE stats[v]
        /\ rows'[v] = IF q = "blocks" THEN RowsFor(v) ELSE rows[v]
    BY DEF WebInv, WebTypeOK, Answer
  <2>5. TotalBlocks >= Cardinality(since[v])
    BY <1>1, <2>3, FS_Subset DEF TotalBlocks
  <2>6. ASSUME NEW k \in {"poolStats", "extended"}, Counted(v, k) PROVE Counted(v, k)'
    <3>1. CASE q \in {"poolStats", "extended"}
      BY <2>1, <2>4, <2>5, <3>1 DEF Counted
    <3>2. CASE q \notin {"poolStats", "extended"}
      BY <2>1, <2>2, <2>4, <2>6, <3>2 DEF Counted
    <3> QED BY <3>1, <3>2
  <2>7. ASSUME NEW size \in Nat \ {0}, Listed(v, size), RowsFor(v) = GetBlocks(size, 0)
        PROVE  Listed(v, size)'
    <3>1. CASE q = "blocks"
      <4>1. LeavesOutOnlyOlder(GetBlocks(size, 0), size, since[v])
        BY <2>3, FirstRows DEF WebInv
      <4> QED BY <2>1, <2>4, <2>7, <3>1, <4>1 DEF Listed, LeavesOutOnlyOlder
    <3>2. CASE q # "blocks"
      BY <2>1, <2>2, <2>4, <2>7, <3>2 DEF Listed, LeavesOutOnlyOlder
    <3> QED BY <3>1, <3>2
  <2>8. ASSUME page[v] = "apiBlocks", ReadSoFar(v) PROVE ReadSoFar(v)'
    <3> DEFINE number == PageNumber(asked[v])
    <3>1. \A b : Newer(b)' = Newer(b)
      BY <2>1 DEF Newer
    <3>2. CASE q = "blocks"
      <4>1. rows'[v] = GetBlocks(PageSize, Offset(number))
        BY <2>4, <2>8, <3>2 DEF RowsFor
      <4>2. ASSUME NEW b \in since[v] \ (seen[v] \cup rows'[v])
            PROVE  Newer(b) >= Offset(number + 1) /\ Cardinality(rows'[v]) = PageSize
        <5>1. b \in confirmed /\ Newer(b) >= Offset(number) /\ b \notin GetBlocks(PageSize, Offset(number))
          BY <2>3, <2>8, <4>1 DEF ReadSoFar
        <5>2. asked[v] \in Nat
          BY DEF WebInv, WebTypeOK
        <5> QED BY <4>1, <5>1, <5>2, RowsOfPage DEF WebInv
      <4> QED BY <2>1, <2>8, <3>1, <4>2 DEF ReadSoFar, PageNumber, Offset
    <3>3. CASE q # "blocks"
      BY <2>1, <2>2, <2>4, <2>8, <3>1, <3>3 DEF ReadSoFar, PageNumber, Offset
    <3> QED BY <3>2, <3>3
  <2>9. /\ page[v] = "stats" => RowsFor(v) = GetBlocks(PageSize, 0)
        /\ page[v] = "blocks" => RowsFor(v) = GetBlocks(BlocksRows, 0)
    BY DEF RowsFor
  <2> QED BY <2>1, <2>3, <2>6, <2>7, <2>8, <2>9, PoolAssumption DEF Following
<1> QED BY <1>3, <1>4, <1>5 DEF WebInv, BlocksInv

\* A confirmed block moves those before it to later places only.
LEMMA ConfirmStep ==
    ASSUME WebInv, NEW b \in 1 .. world.blocks, Confirm(b)
    PROVE  WebInv'
<1>1. WebTypeOK'
  BY DEF WebInv, WebTypeOK, Confirm
<1>2. ASSUME NEW w \in Visitors PROVE Following(w)'
  <2>1. Outstanding(w)' = Outstanding(w)
    BY DEF Outstanding, Waiting, Confirm
  <2> QED BY <1>1, <2>1, OthersFollow DEF Confirm
<1> QED BY <1>1, <1>2 DEF WebInv, BlocksInv

\* Steps of the cache leave the pages alone.
LEMMA OtherStep ==
    ASSUME WebInv, UNCHANGED webVars
    PROVE  WebInv'
<1>1. WebTypeOK'
  BY DEF WebInv, WebTypeOK, webVars
<1>2. ASSUME NEW w \in Visitors PROVE Following(w)'
  <2>1. Outstanding(w)' = Outstanding(w)
    BY DEF Outstanding, Waiting, webVars
  <2> QED BY <1>1, <2>1, OthersFollow DEF webVars
<1> QED BY <1>1, <1>2 DEF WebInv, BlocksInv

\* Every step of the site keeps the invariant.
LEMMA WebInvStep == WebInv /\ [WebNext]_allVars => WebInv'
<1> SUFFICES ASSUME WebInv, [WebNext]_allVars PROVE WebInv'
  OBVIOUS
<1>1. ASSUME NEW v \in Visitors, NEW p \in world.asks[v], Arrive(v, p) PROVE WebInv'
  BY <1>1, ArriveStep
<1>2. ASSUME NEW v \in Visitors, Respond(v) \/ NextPage(v) \/ Leave(v) \/ TimeOut(v) PROVE WebInv'
  BY <1>2, RespondStep, NextPageStep, LeaveStep, TimeOutStep
<1>3. ASSUME NEW v \in Visitors, EndQuery(v) PROVE WebInv'
  BY <1>3, AnswerStep, QueryFailsStep DEF EndQuery
<1>4. ASSUME NEW v \in Visitors, NEW q \in Queries, Hang(v, q) PROVE WebInv'
  BY <1>4, HangStep
<1>5. ASSUME NEW b \in 1 .. world.blocks, Confirm(b) PROVE WebInv'
  BY <1>5, ConfirmStep
<1>6. CASE UNCHANGED webVars
  BY <1>6, OtherStep
<1>7. CASE UNCHANGED allVars
  BY <1>7, OtherStep DEF allVars
<1> QED BY <1>1, <1>2, <1>3, <1>4, <1>5, <1>6, <1>7, ConnectStep DEF WebNext

\* The pages' variables have their types, and every page has the blocks it should.
THEOREM WebInvariance == WebSpec => []WebInv
  BY WebInitially, WebInvStep, PTL DEF WebSpec

\* No page counts fewer blocks than were confirmed when its visitor came, or leaves one of
\* them out for an older one, and nobody who reads the list to its end misses one: for
\* any number of visitors, connections, blocks, rows of a page and failing queries.
THEOREM BlocksAreNotMissed == WebSpec => []NoBlockIsMissed
<1>1. WebInv => NoBlockIsMissed
  <2> SUFFICES ASSUME WebInv, NEW v \in Visitors, reply[v] = "page"
               PROVE  /\ page[v] = "home" => HomePageShows(v).blocksFound >= Cardinality(since[v])
                      /\ page[v] = "stats" =>
                            /\ StatsPageShows(v).blocksFound >= Cardinality(since[v])
                            /\ LeavesOutOnlyOlder(StatsPageShows(v).table, PageSize, since[v])
                      /\ page[v] = "blocks" =>
                            LeavesOutOnlyOlder(BlocksPageShows(v).table, BlocksRows, since[v])
                      /\ page[v] = "apiBlocks" /\ Cardinality(rows[v]) < PageSize => since[v] \subseteq seen[v]
    BY DEF NoBlockIsMissed
  <2>1. Following(v) /\ ~failed[v] /\ Outstanding(v) = {}
    BY DEF WebInv, BlocksInv, Following
  <2>2. page[v] = "home" => HomePageShows(v).blocksFound >= Cardinality(since[v])
    BY <2>1 DEF Following, Counted, HomePageShows
  <2>3. page[v] = "stats" =>
            /\ StatsPageShows(v).blocksFound >= Cardinality(since[v])
            /\ LeavesOutOnlyOlder(StatsPageShows(v).table, PageSize, since[v])
    BY <2>1 DEF Following, Counted, Listed, StatsPageShows
  <2>4. page[v] = "blocks" => LeavesOutOnlyOlder(BlocksPageShows(v).table, BlocksRows, since[v])
    BY <2>1 DEF Following, Listed, BlocksPageShows
  <2>5. page[v] = "apiBlocks" /\ Cardinality(rows[v]) < PageSize => since[v] \subseteq seen[v]
    <3> SUFFICES ASSUME page[v] = "apiBlocks", Cardinality(rows[v]) < PageSize,
                        NEW b \in since[v] \ seen[v]
                 PROVE  FALSE
      OBVIOUS
    <3>1. rows[v] \subseteq seen[v] /\ ReadSoFar(v)
      BY <2>1 DEF Following
    <3>2. Cardinality(rows[v]) = PageSize
      BY <2>1, <3>1 DEF ReadSoFar
    <3> QED BY <3>2, PoolAssumption
  <2> QED BY <2>2, <2>3, <2>4, <2>5
<1> QED BY <1>1, WebInvariance, PTL

=============================================================================

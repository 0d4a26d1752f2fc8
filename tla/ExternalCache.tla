--------------------------- MODULE ExternalCache ---------------------------
(***************************************************************************)
(* The web server's cache of mempool.space (src/web/lib/external.ts): one  *)
(* entry, made by two requests at once, that is served for a minute, and   *)
(* one fetch for all who ask meanwhile.                                    *)
(*                                                                         *)
(* JavaScript runs one continuation at a time: an action is what runs      *)
(* between two awaits. What mempool.space tells is a version that grows;   *)
(* 0 is null, the value of whatever failed. Its hashrate and difficulty    *)
(* come in one answer, "network". An empty cache is one whose entry is     *)
(* old: both are fetched anew.                                             *)
(***************************************************************************)
EXTENDS Integers

CONSTANTS
    Callers,        \* concurrent calls of getExternalStats
    NoOne,
    TTL,            \* an entry is served while it is younger
    MaxVersion      \* bound on mempool.space's versions

ASSUME CallersAssumption == NoOne \notin Callers
ASSUME TTLAssumption == TTL \in Nat \ {0}
ASSUME VersionsAssumption == MaxVersion \in Nat \ {0}

Parts == {"price", "network"}
Pending == -1

VARIABLES
    cache, age,     \* _cache's values, and the time since fetchedAt, to TTL at most
    inflight,       \* _inflight: the caller whose fetch it is
    fetch,          \* where each caller's own fetch is
    answer,         \* what it was answered so far, part by part
    asOf,           \* the versions when its requests were sent
    call, joined,   \* who is waiting, and for whose fetch
    upstream,       \* mempool.space's versions
    told            \* history: the value a caller was told last, of each part, null aside

cacheVars == <<cache, age, inflight, fetch, answer, asOf, call, joined, upstream, told>>

CacheTypeOK ==
    /\ cache \in [Parts -> Nat] /\ age \in 0 .. TTL
    /\ inflight \in Callers \cup {NoOne}
    /\ fetch \in [Callers -> {"none", "settling", "price", "network"}]
    /\ answer \in [Callers -> [Parts -> Int]] /\ asOf \in [Callers -> [Parts -> Nat]]
    /\ call \in [Callers -> {"idle", "waiting"}]
    /\ joined \in [Callers -> Callers]
    /\ upstream \in [Parts -> Nat] /\ told \in [Parts -> Nat]

CacheInit ==
    /\ cache = [p \in Parts |-> 0] /\ age = TTL
    /\ inflight = NoOne
    /\ fetch = [c \in Callers |-> "none"]
    /\ answer = [c \in Callers |-> [p \in Parts |-> Pending]]
    /\ asOf = [c \in Callers |-> [p \in Parts |-> 0]]
    /\ call = [c \in Callers |-> "idle"] /\ joined = [c \in Callers |-> c]
    /\ upstream = [p \in Parts |-> 1] /\ told = [p \in Parts |-> 0]

\* A caller is told the entry; null tells it nothing.
Tell(entry) == told' = [p \in Parts |-> IF entry[p] # 0 THEN entry[p] ELSE told[p]]

-----------------------------------------------------------------------------
(* getExternalStats *)

\* Mutated form of Fresh: an entry is good for ever.
Filled == \E p \in Parts : told[p] # 0

Fresh == age < TTL

ServeCached(c) ==
    /\ call[c] = "idle" /\ Fresh
    /\ Tell(cache)
    /\ UNCHANGED <<cache, age, inflight, fetch, answer, asOf, call, joined, upstream>>

JoinFetch(c) ==
    /\ call[c] = "idle" /\ ~Fresh /\ inflight # NoOne
    /\ call' = [call EXCEPT ![c] = "waiting"]
    /\ joined' = [joined EXCEPT ![c] = inflight]
    /\ UNCHANGED <<cache, age, inflight, fetch, answer, asOf, upstream, told>>

\* Mutated form of BeginFetch: whoever finds the entry old fetches.
BeginAnyway(c) ==
    /\ call[c] = "idle" /\ ~Fresh
    /\ fetch' = [fetch EXCEPT ![c] = "settling"]
    /\ asOf' = [asOf EXCEPT ![c] = upstream]
    /\ inflight' = c
    /\ call' = [call EXCEPT ![c] = "waiting"]
    /\ UNCHANGED <<cache, age, answer, joined, upstream, told>>

BeginFetch(c) ==
    /\ call[c] = "idle" /\ ~Fresh /\ inflight = NoOne
    /\ fetch' = [fetch EXCEPT ![c] = "settling"]
    /\ asOf' = [asOf EXCEPT ![c] = upstream]
    /\ inflight' = c
    /\ call' = [call EXCEPT ![c] = "waiting"]
    /\ UNCHANGED <<cache, age, answer, joined, upstream, told>>

GetExternalStats(c) == ServeCached(c) \/ JoinFetch(c) \/ BeginFetch(c)

-----------------------------------------------------------------------------
(* _fetchExternal *)

\* An answer tells a version that was current while the request was under way.
Responds(c, p) ==
    /\ fetch[c] = "settling" /\ answer[c][p] = Pending
    /\ \E v \in asOf[c][p] .. upstream[p] : answer' = [answer EXCEPT ![c][p] = v]
    /\ UNCHANGED <<cache, age, inflight, fetch, asOf, call, joined, upstream, told>>

\* Rejected, or not ok.
RequestFails(c, p) ==
    /\ fetch[c] = "settling" /\ answer[c][p] = Pending
    /\ answer' = [answer EXCEPT ![c][p] = 0]
    /\ UNCHANGED <<cache, age, inflight, fetch, asOf, call, joined, upstream, told>>

\* Mutated form of AllSettled: _inflight is cleared before the bodies are read.
AllSettledClears(c) ==
    /\ fetch[c] = "settling" /\ \A p \in Parts : answer[c][p] # Pending
    /\ fetch' = [fetch EXCEPT ![c] = "price"]
    /\ inflight' = NoOne
    /\ UNCHANGED <<cache, age, answer, asOf, call, joined, upstream, told>>

AllSettled(c) ==
    /\ fetch[c] = "settling" /\ \A p \in Parts : answer[c][p] # Pending
    /\ fetch' = [fetch EXCEPT ![c] = "price"]
    /\ UNCHANGED <<cache, age, inflight, answer, asOf, call, joined, upstream, told>>

\* The body is read after the answer: it may still break off, or hold no number.
ReadPrice(c, price) ==
    /\ fetch[c] = "price" /\ price \in {answer[c]["price"], 0}
    /\ fetch' = [fetch EXCEPT ![c] = "network"]
    /\ answer' = [answer EXCEPT ![c]["price"] = price]
    /\ UNCHANGED <<cache, age, inflight, asOf, call, joined, upstream, told>>

\* After the second body the entry is stored, _inflight cleared (finally), and all who
\* wait for this fetch are served.
Finish(c, network) ==
    LET entry == [answer[c] EXCEPT !["network"] = network]
    IN  /\ fetch[c] = "network" /\ network \in {answer[c]["network"], 0}
        /\ fetch' = [fetch EXCEPT ![c] = "none"]
        /\ cache' = entry /\ age' = 0
        /\ inflight' = NoOne
        /\ call' = [d \in Callers |-> IF joined[d] = c THEN "idle" ELSE call[d]]
        /\ joined' = [d \in Callers |-> IF joined[d] = c THEN d ELSE joined[d]]
        /\ Tell(entry)
        /\ answer' = [answer EXCEPT ![c] = [p \in Parts |-> Pending]]
        /\ asOf' = [asOf EXCEPT ![c] = [p \in Parts |-> 0]]
        /\ UNCHANGED upstream

-----------------------------------------------------------------------------
(* Time, and mempool.space *)

\* Age is counted to TTL; time goes on.
Tick ==
    /\ age' = IF age < TTL THEN age + 1 ELSE age
    /\ UNCHANGED <<cache, inflight, fetch, answer, asOf, call, joined, upstream, told>>

Moves(p) ==
    /\ upstream[p] < MaxVersion
    /\ upstream' = [upstream EXCEPT ![p] = @ + 1]
    /\ UNCHANGED <<cache, age, inflight, fetch, answer, asOf, call, joined, told>>

FetchStep(c) ==
    \/ \E p \in Parts : Responds(c, p) \/ RequestFails(c, p)
    \/ AllSettled(c)
    \/ \E v \in 0 .. MaxVersion : ReadPrice(c, v) \/ Finish(c, v)

CacheStep ==
    \/ \E c \in Callers : FetchStep(c)
    \/ Tick
    \/ \E p \in Parts : Moves(p)

CacheNext == CacheStep \/ \E c \in Callers : GetExternalStats(c)

CacheSpec == CacheInit /\ [][CacheNext]_cacheVars

\* A fetch goes on: requests are answered or given up (fetch has timeouts of its own),
\* and neither mempool.space's answers nor its bodies fail for ever.
CacheFairness ==
    /\ \A c \in Callers : WF_cacheVars(FetchStep(c))
    /\ WF_cacheVars(Tick)
    /\ \A p \in Parts : SF_cacheVars(\E c \in Callers : Responds(c, p))
    /\ SF_cacheVars(\E c \in Callers, v \in 1 .. MaxVersion : ReadPrice(c, v))
    /\ SF_cacheVars(\E c \in Callers, v \in 1 .. MaxVersion : Finish(c, v))

-----------------------------------------------------------------------------

\* One fetch at a time: whoever waits, waits for it, and only while no entry is fresh.
OneFetch ==
    /\ \A c \in Callers : fetch[c] # "none" => inflight = c
    /\ inflight # NoOne => fetch[inflight] # "none" /\ call[inflight] = "waiting" /\ age = TTL
    /\ \A c \in Callers :
          /\ call[c] = "waiting" => inflight # NoOne /\ joined[c] = inflight
          /\ call[c] = "idle" => joined[c] = c

\* A fetch has both answers, or failures, before it reads the bodies.
BothAreSettled ==
    \A c \in Callers, p \in Parts :
        /\ fetch[c] = "none" => answer[c][p] = Pending
        /\ fetch[c] \in {"price", "network"} => answer[c][p] # Pending

\* What a fetch brings is no older than what was told before it began.
FetchIsNews ==
    \A p \in Parts :
        /\ cache[p] # 0 => cache[p] = told[p]
        /\ told[p] <= upstream[p]
        /\ \A c \in Callers : fetch[c] # "none" =>
              /\ told[p] <= asOf[c][p] /\ asOf[c][p] <= upstream[p]
              /\ answer[c][p] \in {Pending, 0} \/ answer[c][p] \in asOf[c][p] .. upstream[p]

\* The invariant of the proofs.
CacheInv == CacheTypeOK /\ OneFetch /\ BothAreSettled /\ FetchIsNews

\* Whoever asks, whenever the entry expires, and however long the requests of a fetch
\* take: getExternalStats gives nobody an older price or difficulty than somebody
\* before him.
NoStepBack == [][\A p \in Parts : told[p] <= told'[p]]_told

=============================================================================

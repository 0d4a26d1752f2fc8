----------------------------- MODULE WebServer -----------------------------
(***************************************************************************)
(* The site (src/web): visitors ask for pages, a page issues its queries   *)
(* and its call of getExternalStats together (Promise.all), queries wait   *)
(* for a connection of the pool (pg, external to src/), and the first one  *)
(* that fails makes the page an error, while the others go on. Of the      *)
(* tables, the blocks that are confirmed are modelled, in the order they   *)
(* were found in; they are confirmed in any order.                         *)
(***************************************************************************)
EXTENDS ExternalCache, Sequences, SequencesExt

CONSTANTS
    MaxConnections,     \* the pool's max, 5
    PageSize,           \* rows of a list of blocks, 20
    BlocksRows,         \* rows of the blocks page, 50
    Worlds              \* of which one is: the pages each visitor asks for, the bounds on
                        \* the confirmed blocks and on the queries that hang, and
                        \* whether mempool.space's values change

ASSUME PoolAssumption == MaxConnections \in Nat \ {0} /\ PageSize \in Nat \ {0} /\ BlocksRows \in Nat \ {0}

VARIABLES
    world,
    confirmed,      \* the confirmed blocks
    queue,          \* the pool's waiting queries, <<visitor, query>>
    running, hung,  \* the queries that have a connection; those that never end
    dead,           \* connections held by such queries of visitors who have gone
    page, asked,    \* what each visitor asked for, and the page of the list
    failed, reply,  \* whether a query failed; what the visitor was sent
    stats, rows,    \* the answers of the queries that count and list blocks
    since, seen     \* history: the blocks confirmed when the visitor came to see blocks,
                    \* and those he has been shown since

webVars == <<world, confirmed, queue, running, hung, dead, page, asked, failed, reply, stats, rows, since, seen>>
allVars == <<cacheVars, webVars>>

Visitors == Callers

WebInit ==
    /\ CacheInit
    /\ world \in Worlds
    /\ confirmed = {} /\ queue = <<>> /\ running = {} /\ hung = {} /\ dead = 0
    /\ page = [v \in Visitors |-> "none"] /\ asked = [v \in Visitors |-> 1]
    /\ failed = [v \in Visitors |-> FALSE] /\ reply = [v \in Visitors |-> "none"]
    /\ stats = [v \in Visitors |-> 0] /\ rows = [v \in Visitors |-> {}]
    /\ since = [v \in Visitors |-> {}] /\ seen = [v \in Visitors |-> {}]

-----------------------------------------------------------------------------
(* The pages' queries, in the order they are issued in *)

HomePage == <<"poolStats", "leaderboard">>
StatsPage == <<"extended", "blocks">>
BlocksPage == <<"blocks">>
LeaderboardPage == <<"leaderboard">>
MinerDetailPage == <<"rank", "history", "blocksInTop21">>

StatsRoute == <<"extended">>
BlocksRoute == <<"blocks">>
LeaderboardRoute == <<"leaderboard">>
MinerRoute == <<"rank", "history", "blocksInTop21">>
ExternalRoute == <<>>

QueriesOf == [
    home |-> HomePage, stats |-> StatsPage, blocks |-> BlocksPage,
    leaderboard |-> LeaderboardPage, miner |-> MinerDetailPage,
    apiStats |-> StatsRoute, apiBlocks |-> BlocksRoute, apiLeaderboard |-> LeaderboardRoute,
    apiMiner |-> MinerRoute, apiExternal |-> ExternalRoute]

Pages == DOMAIN QueriesOf

ASSUME WorldsAssumption ==
    \A w \in Worlds :
        /\ w.asks \in [Callers -> SUBSET Pages]
        /\ w.blocks \in Nat /\ w.hangs \in Nat /\ w.moves \in BOOLEAN

Queries == {"poolStats", "leaderboard", "extended", "blocks", "rank", "history", "blocksInTop21"}

WebTypeOK ==
    LET Blocks == 1 .. world.blocks
        Asked == Visitors \X Queries
    IN  /\ world \in Worlds /\ confirmed \subseteq Blocks
        /\ queue \in Seq(Asked) /\ running \subseteq Asked /\ hung \subseteq Asked /\ dead \in Nat
        /\ page \in [Visitors -> Pages \cup {"none"}] /\ asked \in [Visitors -> Nat]
        /\ failed \in [Visitors -> BOOLEAN] /\ reply \in [Visitors -> {"none", "error", "page"}]
        /\ stats \in [Visitors -> Nat] /\ rows \in [Visitors -> SUBSET Blocks]
        /\ since \in [Visitors -> SUBSET Blocks] /\ seen \in [Visitors -> SUBSET Blocks]

ShowsBlocks(p) == p \in {"home", "stats", "blocks", "apiBlocks"}
AsksExternal(p) == p \in {"stats", "apiExternal"}

\* The page of the list the route takes the page parameter for.
PageNumber(param) == IF param < 1 THEN 1 ELSE param

\* Mutated form of Offset: pages are counted from 0.
OffsetFromZero(number) == number * PageSize

Offset(number) == (number - 1) * PageSize

\* ORDER BY found_at DESC LIMIT limit OFFSET offset: a row's place is the number of
\* newer ones.
Newer(b) == Cardinality({c \in confirmed : c > b})
GetBlocks(limit, offset) == {b \in confirmed : Newer(b) \in offset .. offset + limit - 1}

\* Only the route has pages.
RowsFor(v) ==
    CASE page[v] = "apiBlocks" -> GetBlocks(PageSize, Offset(PageNumber(asked[v])))
      [] page[v] = "blocks" -> GetBlocks(BlocksRows, 0)
      [] OTHER -> GetBlocks(PageSize, 0)

\* total_blocks
TotalBlocks == Cardinality(confirmed)

-----------------------------------------------------------------------------
(* A visitor and the answer *)

Issue(v, p) ==
    /\ queue' = queue \o [i \in DOMAIN QueriesOf[p] |-> <<v, QueriesOf[p][i]>>]
    /\ IF AsksExternal(p) THEN GetExternalStats(v) ELSE UNCHANGED cacheVars

Arrive(v, p) ==
    /\ page[v] = "none" /\ call[v] = "idle"
    /\ page' = [page EXCEPT ![v] = p]
    /\ \E param \in {0, 1} : asked' = [asked EXCEPT ![v] = IF p = "apiBlocks" THEN param ELSE 1]
    /\ Issue(v, p)
    /\ since' = [since EXCEPT ![v] = IF ShowsBlocks(p) THEN confirmed ELSE {}]
    /\ UNCHANGED <<world, confirmed, running, hung, dead, failed, reply, stats, rows, seen>>

Waiting(v) == {q \in Range(queue) : q[1] = v}
Outstanding(v) == Waiting(v) \cup {q \in running \cup hung : q[1] = v}

\* Promise.all rejects with the first rejection: an error page, or the route's 500.
ReplyError(v) ==
    /\ page[v] # "none" /\ reply[v] = "none" /\ failed[v]
    /\ reply' = [reply EXCEPT ![v] = "error"]
    /\ UNCHANGED <<cacheVars, world, confirmed, queue, running, hung, dead, page, asked, failed, stats, rows, since, seen>>

ReplyPage(v) ==
    /\ page[v] # "none" /\ reply[v] = "none" /\ ~failed[v]
    /\ Outstanding(v) = {} /\ call[v] = "idle"
    /\ reply' = [reply EXCEPT ![v] = "page"]
    /\ seen' = [seen EXCEPT ![v] = @ \cup rows[v]]
    /\ UNCHANGED <<cacheVars, world, confirmed, queue, running, hung, dead, page, asked, failed, stats, rows, since>>

\* A reader of the list asks for the next page while there was a full one.
NextPage(v) ==
    /\ page[v] = "apiBlocks" /\ reply[v] = "page" /\ Cardinality(rows[v]) = PageSize
    /\ asked' = [asked EXCEPT ![v] = PageNumber(@) + 1]
    /\ reply' = [reply EXCEPT ![v] = "none"] /\ rows' = [rows EXCEPT ![v] = {}]
    /\ Issue(v, page[v])
    /\ UNCHANGED <<world, confirmed, running, hung, dead, page, failed, stats, since, seen>>

\* What was issued for the page goes on without the visitor; then another may come. A
\* query that hangs is not waited for, by the visitor neither: it keeps its connection.
Leave(v) ==
    LET ours == {q \in hung : q[1] = v}
    IN  /\ reply[v] # "none" \/ ours # {}
        /\ Waiting(v) = {} /\ (\A q \in running : q[1] # v) /\ call[v] = "idle"
        /\ hung' = hung \ ours /\ dead' = dead + Cardinality(ours)
        /\ page' = [page EXCEPT ![v] = "none"] /\ reply' = [reply EXCEPT ![v] = "none"]
        /\ asked' = [asked EXCEPT ![v] = 1] /\ failed' = [failed EXCEPT ![v] = FALSE]
        /\ stats' = [stats EXCEPT ![v] = 0] /\ rows' = [rows EXCEPT ![v] = {}]
        /\ since' = [since EXCEPT ![v] = {}] /\ seen' = [seen EXCEPT ![v] = {}]
        /\ UNCHANGED <<cacheVars, world, confirmed, queue, running>>

-----------------------------------------------------------------------------
(* The pool of connections *)

poolFrame == <<cacheVars, world, confirmed, dead, page, asked, reply, since, seen>>

Connect ==
    /\ queue # <<>> /\ Cardinality(running \cup hung) + dead < MaxConnections
    /\ running' = running \cup {Head(queue)} /\ queue' = Tail(queue)
    /\ UNCHANGED <<poolFrame, hung, failed, stats, rows>>

\* Mutated form of TimeOut: the pool's default, no time-out.
TimeOutNever(v) == FALSE /\ UNCHANGED allVars

\* connectionTimeoutMillis
TimeOut(v) ==
    /\ Waiting(v) # {}
    /\ \E i \in DOMAIN queue : queue[i][1] = v /\ queue' = RemoveAt(queue, i)
    /\ failed' = [failed EXCEPT ![v] = TRUE]
    /\ UNCHANGED <<poolFrame, running, hung, stats, rows>>

\* The statement reads one snapshot of the tables, and the connection is free again.
Answer(v, q) ==
    /\ <<v, q>> \in running
    /\ running' = running \ {<<v, q>>}
    /\ stats' = [stats EXCEPT ![v] = IF q \in {"poolStats", "extended"} THEN TotalBlocks ELSE @]
    /\ rows' = [rows EXCEPT ![v] = IF q = "blocks" THEN RowsFor(v) ELSE @]
    /\ UNCHANGED <<poolFrame, queue, hung, failed>>

QueryFails(v, q) ==
    /\ <<v, q>> \in running
    /\ running' = running \ {<<v, q>>}
    /\ failed' = [failed EXCEPT ![v] = TRUE]
    /\ UNCHANGED <<poolFrame, queue, hung, stats, rows>>

\* No statement or query has a time-out: a database that is gone without a word holds
\* the connection.
Hang(v, q) ==
    /\ <<v, q>> \in running /\ Cardinality(hung) + dead < world.hangs
    /\ running' = running \ {<<v, q>>} /\ hung' = hung \cup {<<v, q>>}
    /\ UNCHANGED <<poolFrame, queue, failed, stats, rows>>

\* The reward service confirms a block (PoolRounds); none is unconfirmed again.
Confirm(b) ==
    /\ b \notin confirmed
    /\ confirmed' = confirmed \cup {b}
    /\ UNCHANGED <<cacheVars, world, queue, running, hung, dead, page, asked, failed, reply, stats, rows, since, seen>>

-----------------------------------------------------------------------------

Respond(v) == ReplyError(v) \/ ReplyPage(v)
EndQuery(v) == \E q \in Queries : Answer(v, q) \/ QueryFails(v, q)

WebNext ==
    \/ \E v \in Visitors :
          \/ \E p \in world.asks[v] : Arrive(v, p)
          \/ Respond(v) \/ NextPage(v) \/ Leave(v) \/ TimeOut(v) \/ EndQuery(v)
          \/ \E q \in Queries : Hang(v, q)
    \/ Connect
    \/ \E b \in 1 .. world.blocks : Confirm(b)
    \/ CacheStep /\ (world.moves \/ UNCHANGED upstream) /\ UNCHANGED webVars

\* The event loop runs what is ready, timers fire, and a query that does not hang ends.
Fairness ==
    /\ CacheFairness
    /\ WF_allVars(Connect)
    /\ \A v \in Visitors :
          WF_allVars(Respond(v)) /\ WF_allVars(TimeOut(v)) /\ WF_allVars(EndQuery(v))

WebSpec == WebInit /\ [][WebNext]_allVars /\ Fairness

-----------------------------------------------------------------------------

(* What the pages show of the blocks *)

HomePageShows(v) == [blocksFound |-> stats[v]]
StatsPageShows(v) == [blocksFound |-> stats[v], table |-> rows[v]]
BlocksPageShows(v) == [table |-> rows[v]]

\* A table that is full may leave out blocks older than all it has.
LeavesOutOnlyOlder(table, size, blocks) ==
    \A b \in blocks \ table : Cardinality(table) = size /\ \A shown \in table : shown > b

\* "Pool data is live" (src/web/app/stats/page.tsx:36), although a page's parts are read
\* one by one while blocks are confirmed in any order: no block that was confirmed
\* when the visitor came is missing from the count; a list leaves it out only if it is
\* full of later ones; and who reads the list page by page has been shown it when he is
\* at the end, although each new block moves the others to other pages.
NoBlockIsMissed ==
    \A v \in Visitors :
        reply[v] = "page" =>
            /\ page[v] = "home" => HomePageShows(v).blocksFound >= Cardinality(since[v])
            /\ page[v] = "stats" =>
                  /\ StatsPageShows(v).blocksFound >= Cardinality(since[v])
                  /\ LeavesOutOnlyOlder(StatsPageShows(v).table, PageSize, since[v])
            /\ page[v] = "blocks" => LeavesOutOnlyOlder(BlocksPageShows(v).table, BlocksRows, since[v])
            /\ page[v] = "apiBlocks" /\ Cardinality(rows[v]) < PageSize => since[v] \subseteq seen[v]

\* Whoever asks for a page is sent the page or an error, unless a query of his own hangs
\* in the database: also when other visitors' queries hold every connection.
AnsweredUnlessHung ==
    \A v \in Visitors :
        page[v] # "none" /\ reply[v] = "none" ~>
            reply[v] # "none" \/ \E q \in hung : q[1] = v

\* A failed request leaves a dash on the statistics page for a minute, not for ever:
\* while visitors come, each value is there again and again.
FailuresExpire ==
    []<><<\E v \in Visitors : \E p \in world.asks[v] : AsksExternal(p) /\ Arrive(v, p)>>_allVars =>
        \A p \in Parts : []<>(cache[p] # 0)

=============================================================================

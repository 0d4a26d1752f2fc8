---------------------------- MODULE MCWebServer ----------------------------
(* WebServer on small instances. *)
EXTENDS WebServer

CONSTANTS v1, v2, v3

World(pages1, pages2, pages3, blocks, hangs, moves) ==
    [asks |-> (v1 :> pages1) @@ (v2 :> pages2) @@ (v3 :> pages3),
     blocks |-> blocks, hangs |-> hangs, moves |-> moves]

\* Who shares a fetch; a page of all sorts of parts; who reads a list of blocks while
\* others look at it; who waits for whose queries.
SmallWorlds == {
    World({"apiExternal"}, {"apiExternal"}, {}, 0, 0, TRUE),
    World({"stats", "home"}, {}, {}, 1, 0, FALSE),
    World({"apiBlocks"}, {"blocks"}, {}, 3, 0, FALSE),
    World({"miner"}, {"leaderboard"}, {"apiStats"}, 0, 2, FALSE)}

=============================================================================

----------------------- MODULE MCInteractionCommands -----------------------
(* Instances of InteractionCommands and SessionControl for TLC.            *)
EXTENDS SessionControl

\* The unblock loop across a reconnection, with two requests or with overlapping
\* snapshots; prompts; overlapping catalogues; and one of each on one connection.
MCBudgets == {
    [conns |-> 2, queries |-> 1, commands |-> 2, asks |-> 2, moves |-> 0, prompts |-> 0, catalogs |-> 0, changes |-> 0],
    [conns |-> 2, queries |-> 2, commands |-> 2, asks |-> 1, moves |-> 0, prompts |-> 0, catalogs |-> 0, changes |-> 0],
    [conns |-> 1, queries |-> 1, commands |-> 1, asks |-> 1, moves |-> 2, prompts |-> 0, catalogs |-> 0, changes |-> 0],
    [conns |-> 2, queries |-> 0, commands |-> 0, asks |-> 0, moves |-> 0, prompts |-> 2, catalogs |-> 0, changes |-> 0],
    [conns |-> 2, queries |-> 0, commands |-> 0, asks |-> 0, moves |-> 0, prompts |-> 0, catalogs |-> 1, changes |-> 2],
    [conns |-> 1, queries |-> 0, commands |-> 0, asks |-> 0, moves |-> 0, prompts |-> 0, catalogs |-> 2, changes |-> 0],
    [conns |-> 1, queries |-> 1, commands |-> 1, asks |-> 1, moves |-> 0, prompts |-> 1, catalogs |-> 0, changes |-> 0]}

StaleBudgets == {
    [conns |-> 1, queries |-> 2, commands |-> 0, asks |-> 2, moves |-> 0, prompts |-> 0, catalogs |-> 0, changes |-> 0]}
=============================================================================

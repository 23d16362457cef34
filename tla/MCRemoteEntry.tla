---------------------------- MODULE MCRemoteEntry ----------------------------
(* Instance of RemoteEntry for TLC. *)
EXTENDS RemoteEntry

Bounds(f, t, e) == [faults |-> f, tunnels |-> t, events |-> e]

\* Executions with a tunnel, with a failing channel, with a history that exhausts
\* the listing, with several host events, and under OpenCode 2.
MCSetups == {[v2 |-> FALSE, always |-> TRUE, history |-> 0, budget |-> Bounds(1, 1, 0)],
             [v2 |-> FALSE, always |-> FALSE, history |-> 2, budget |-> Bounds(1, 0, 1)],
             [v2 |-> FALSE, always |-> FALSE, history |-> 0, budget |-> Bounds(1, 0, 2)],
             [v2 |-> FALSE, always |-> FALSE, history |-> 0, budget |-> Bounds(0, 0, 3)],
             [v2 |-> TRUE, always |-> FALSE, history |-> 0, budget |-> Bounds(0, 0, 2)]}
MCLimits == <<1, 2>>
=============================================================================

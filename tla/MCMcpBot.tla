------------------------------ MODULE MCMcpBot ------------------------------
(***************************************************************************)
(* Instances of McpBot for TLC: people come and go; the bot's start, with  *)
(* its account reset under it; the bot's rooms.                            *)
(***************************************************************************)
EXTENDS McpBot, TLC

CONSTANTS p1, p2, p3, r1, r2

Of(name) == {a \in Asks : a.name = name /\ a.host # "unknown"}
Removals == {a \in Asks : a.op = "remove"}
MCScenes == {
    [asks |-> Of("carol"), mcp |-> FALSE, rooms |-> {}, passwords |-> {p1}],
    [asks |-> Removals, mcp |-> FALSE, rooms |-> {}, passwords |-> {p1}],
    [asks |-> {a \in Of("bot") : a.op # "add"}, mcp |-> TRUE, rooms |-> {}, passwords |-> {p1, p2}],
    [asks |-> {}, mcp |-> TRUE, rooms |-> {r1, r2}, passwords |-> {p1}]}
=============================================================================

-------------------------- MODULE MCAgentEmbodiment --------------------------
(* Two calls, and the tools each of them runs. *)
EXTENDS AgentEmbodiment, TLC

CONSTANTS c1, c2

Symmetric == Permutations(Calls) \cup Permutations(Plans)

\* A call that works through the task, and one that stops it, looks and detects anew.
TaskTools == c1 :> AllTools \ {"giveUp"} @@ c2 :> {"stop", "inspect", "detect"}

LiveTools == [c \in Calls |-> {"detect", "pick", "inspect", "giveUp", "stop"}]

FinishTools == [c \in Calls |-> {"state", "finish", "stop"}]
=============================================================================

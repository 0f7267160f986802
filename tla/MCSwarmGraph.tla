---------------------------- MODULE MCSwarmGraph ----------------------------
\* Three runs, the later ones of which may resume the earlier; two parallel
\* agents and one that depends on both, a chain of three whose last agent
\* depends on both others, a cycle, and a parallel wave with an auto_edit agent.
EXTENDS SwarmGraph, TLC

MCAgents == 1..3
MCKeys == {"x", "y"}
MCCosts == {0, 1}

Fork == 1 :> {} @@ 2 :> {} @@ 3 :> {1, 2}
Chain == 1 :> {} @@ 2 :> {1} @@ 3 :> {1, 2}
Cycle == 1 :> {} @@ 2 :> {3} @@ 3 :> {2}
Contracts == 1 :> {"x"} @@ 2 :> {} @@ 3 :> {}

MCConfigs == {
    [deps |-> Fork, requires |-> Contracts, paused |-> {3}],
    [deps |-> Chain, requires |-> Contracts, paused |-> {}],
    [deps |-> Cycle, requires |-> Contracts, paused |-> {}],
    [deps |-> Fork, requires |-> Contracts, paused |-> {1}]}
=============================================================================

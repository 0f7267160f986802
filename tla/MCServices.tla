----------------------------- MODULE MCServices -----------------------------
\* Small instances of the services: two keys, two calls or flows of each kind,
\* three workers, two agents, four calls on the memory, two reloads.
EXTENDS Services, SequencesExt

\* Three workers of two roles; a pipeline, and at most one and two at a time
MCModes == {[topology |-> "pipeline", concurrency |-> 3],
            [topology |-> "parallel", concurrency |-> 1],
            [topology |-> "parallel", concurrency |-> 2]}
\* a starts from its task and the artifacts, b from its own messages
MCContextMode == [a |-> "filtered", b |-> "isolated"]
\* Two messages, an atom and a clear
MCCalls == <<"p", "q", "r", "z">>
MCMemoryCalls == ToSet(MCCalls)
MCOp == [p |-> "append", q |-> "append", r |-> "atom", z |-> "clear"]
\* A pattern, and a skill of another name
MCPlan == <<[kind |-> "pattern", name |-> "p"], [kind |-> "skill", name |-> "s"]>>
MCKeys == {"k1", "k2"}
MCConnects == 1..2
MCServers == 1..3
MCFlowing == 1..2
MCRoleOf == <<"a", "b", "a">>
MCAgents == {"a", "b"}
MCStrangers == {"x"}
MCCallIds == <<1, 2>>
MCPolicies == {"suggest", "full_auto"}
MCSessionIds == {"s1", "s2"}
MCHistory == <<"old">>
\* Three names, a stale one or two in skill-index.json, and room for two
MCNames == {"s", "p", "t"}
MCDisks == {[files |-> {"s"}, saved |-> {"t"}], [files |-> {}, saved |-> {"s", "t"}]}
MCRegistrations == 1..2
MCReloads == 1..2

\* What is waited for in a service; two calls, their connections, workers, runs
\* or authorizations are told apart by i
Waiting(i) ==
    \/ Runs("mcp") /\ i <= 2 /\ Mcp!Connecting(i)
    \/ Runs("mcp") /\ i = 3 /\ \E c \in 1..2 : Mcp!Unnoticed(c)
    \/ Runs("auth") /\ i <= 2 /\ Auth!FlowOpen(i)
    \/ Runs("workers") /\ Worker!Working
    \/ Runs("handoff") /\ Handoff!Swarming
    \/ Runs("react") /\ React!Stepping
    \/ Runs("sessions") /\ Session!Unwritten
    \/ Runs("memory") /\ Tiers!UnderWay(MCCalls[i])
    \/ Runs("skills") /\ i <= 2 /\ Skills!Registering(i)

\* Nothing is waited for for ever: a call that connects, a dead server that is
\* listed, an authorization, workers, a swarm, an agent's loop, an unwritten
\* session, a message to remember, a skill to register (mcp/, harness/, swarm/,
\* graph/create-agent.ts, session/, memory/, skills/).
ServicesSettle == \A i \in 1..3 : Waiting(i) ~> ~Waiting(i)
=============================================================================

----------------------------- MODULE MCBackends -----------------------------
\* Small instances of the servers, the savers and the worktrees: two clients,
\* two requests, two executions, three agents, three calls on a saver; and the
\* algorithms, which run where none of them does.
EXTENDS Backends

VARIABLES input   \* of the algorithms, None where another part runs
Algorithms == INSTANCE MCAlgorithms
ASSUME InputsAssumption == Algorithms!AlgorithmsAssumption

\* Two agents whose names are cut to the same, and one whose branch is taken
MCSafeName == [a |-> "n", b |-> "n", c |-> "m"]
\* Three calls on a saver that meet in a thread
CallOf(op, thread, round) == [op |-> op, thread |-> thread, round |-> round, to |-> "u"]
MCPlans == {<<CallOf("save", "t", 1), CallOf("save", "t", 2), CallOf("load", "t", 0)>>,
            <<CallOf("save", "t", 1), CallOf("append", "t", 1), CallOf("delete", "t", 0)>>,
            <<CallOf("graph", "g", 1), CallOf("loadAt", "t", 1), CallOf("save", "t", 1)>>,
            <<CallOf("save", "t", 1), CallOf("fork", "t", 1), CallOf("delete", "u", 0)>>,
            <<CallOf("save", "t", 1), CallOf("fork", "t", 1), CallOf("fork", "t", 1)>>,
            <<CallOf("save", "t", 1), CallOf("graph", "t", 1), CallOf("fork", "t", 1)>>,
            <<CallOf("save", "t", 1), CallOf("fork", "t", 1), CallOf("save", "u", 1)>>}
MCClients == {"c1", "c2"}
MCSessions == {"s1", "s2"}
MCSends == 1..2
MCTaskIds == {"t1", "t2"}
MCThreads == {"t1", "t2"}
MCExecutions == 1..2
MCAgents == {"a", "b", "c"}
MCForeign == {"m"}
MCCalls == 1..3

MCInit ==
    \/ Init /\ input = None
    \/ /\ part = "algorithms" /\ Algorithms!Init
       /\ ChannelUnused /\ A2aUnused /\ RestUnused /\ TreeUnused /\ PostgresUnused

MCNext ==
    \/ Next /\ part # "algorithms" /\ UNCHANGED input
    \/ part = "algorithms" /\ Algorithms!Next /\ UNCHANGED vars

\* Where a part runs its behaviours are those of Spec.
MCSpec == MCInit /\ [][MCNext]_<<vars, input>>

-----------------------------------------------------------------------------
\* What is learned from the past: compressing messages loses none of their
\* sources, clusters and windows hold every message, and a workflow repeats the
\* calls of each trajectory it was made from, if that one did not call a tool
\* twice with different inputs and all called it with the same keys
\* (memory/compression.ts, skills/synthesizer.ts, skills/executor.ts).
LearningSound == part = "algorithms" => Algorithms!LearningSound

\* What is screened, redacted and read: stopping the tiers early halts nothing
\* that collecting would let pass, and for most thresholds and within the latency
\* budget the verdicts are the same, what a span covers is masked, and a stream
\* is read the same however the network cuts it (guardrails/,
\* telemetry/redaction.ts, llm/).
TextsSound == part = "algorithms" => Algorithms!TextsSound

\* What is chosen and judged: skills that fit the window, results in the order of
\* the cases, the end of a conversation, a vote, the handoffs of a supervisor and
\* the end of a subagent (skills/, evals/, context/, swarm/, subagents/runtime.ts).
JudgementsSound == part = "algorithms" => Algorithms!JudgementsSound
=============================================================================

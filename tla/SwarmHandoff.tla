---------------------------- MODULE SwarmHandoff ----------------------------
(***************************************************************************)
(* A swarm in handoff mode: runSwarm() of src/swarm/orchestrator.ts runs   *)
(* one agent at a time, as long as each hands off to another, under the    *)
(* circuit breaker of src/swarm/circuit-breaker.ts, a cost budget and an   *)
(* AbortSignal, and keeps a trace (src/swarm/trace.ts).                    *)
(*                                                                         *)
(* An agent's turn is the agent loop (AgentLoop), by its outcomes.  A task *)
(* description is the position of its handoff in agentHistory.  The loop   *)
(* works on a copy of the messages it is given, so that what is kept of a  *)
(* turn is the context it began with; messages are counted.                *)
(***************************************************************************)
EXTENDS Naturals, Sequences

CONSTANTS Agents, Initial,
          Strangers,       \* names that are not registered
          ContextMode,     \* [Agents -> {"shared", "isolated", "filtered"}]
          MaxHandoffs, SameAgentLimit,
          TokenBudget,     \* in messages
          CostLimit,       \* costBudget.totalUsd
          Nobody

SwarmHandoffAssumption ==
    /\ MaxHandoffs \in Nat /\ SameAgentLimit \in Nat \ {0}
    /\ Nobody \notin Agents \cup Strangers

VARIABLES phase,    \* of the generator, and how it ended
          session,  \* activeAgent, agentHistory, handoffCount, ...
          runs,     \* the turns begun: [agent, task]
          payload,  \* handoffPayload
          spent,    \* orchCostUsd
          aborted,  \* the signal
          trace     \* [unflushed, timer, handler, lost]

hvars == <<phase, session, runs, payload, spent, aborted, trace>>

Ended == phase \in {"done", "threw", "left"}

HInit ==
    /\ phase = "idle"
    /\ session = [active |-> Nobody, history |-> <<>>, handoffs |-> 0, artifacts |-> 0,
                  told |-> [a \in Agents |-> 0], messages |-> [a \in Agents |-> 0]]
    /\ runs = <<>>
    /\ payload = Nobody
    /\ spent = 0
    /\ aborted = FALSE
    /\ trace = [unflushed |-> FALSE, timer |-> FALSE, handler |-> FALSE, lost |-> FALSE]

(***************************************************************************)
(* SwarmTracer                                                             *)
(***************************************************************************)
Recorded(t) == [t EXCEPT !.unflushed = TRUE, !.timer = TRUE]

\* The exit handler goes with the first flush that wrote something.
MutFlushed(t) == [t EXCEPT !.timer = FALSE]
Flushed(t) == [t EXCEPT !.timer = FALSE, !.unflushed = FALSE,
                        !.handler = IF t.unflushed THEN FALSE ELSE @]

FlushTimer ==
    /\ trace.timer
    /\ trace' = Flushed(trace)
    /\ UNCHANGED <<phase, session, runs, payload, spent, aborted>>

Exit ==
    /\ Ended /\ trace.unflushed
    /\ trace' = IF trace.handler THEN Flushed(trace)
                ELSE [trace EXCEPT !.lost = TRUE, !.unflushed = FALSE, !.timer = FALSE]
    /\ UNCHANGED <<phase, session, runs, payload, spent, aborted>>

(***************************************************************************)
(* runSwarm                                                                *)
(***************************************************************************)
\* createSession, swarm-start and, if there is such an agent, its task.
Begin ==
    /\ phase = "idle"
    /\ trace' = Recorded([trace EXCEPT !.handler = TRUE])
    /\ IF Initial \in Agents
       THEN /\ phase' = "head"
            /\ session' = [session EXCEPT !.active = Initial, !.history = <<Initial>>,
                                          !.told[Initial] = 1]
       ELSE phase' = "threw" /\ UNCHANGED session
    /\ UNCHANGED <<runs, payload, spent, aborted>>

Abort ==
    /\ ~aborted /\ ~Ended
    /\ aborted' = TRUE
    /\ UNCHANGED <<phase, session, runs, payload, spent, trace>>

\* checkCircuitBreaker
MutTightLoop(a) == FALSE
TightLoop(a) ==
    LET n == Len(session.history)
    IN n >= SameAgentLimit /\ \A i \in n - SameAgentLimit + 1 .. n : session.history[i] = a

Tripped(a) ==
    \/ session.handoffs >= MaxHandoffs
    \/ TightLoop(a)
    \/ session.messages[a] > 0 /\ session.messages[a] >= TokenBudget

\* buildAgentContext and buildSystemPrompt: only a filtered agent is told its
\* task, and of the artifacts.
Context(a) ==
    IF ContextMode[a] = "filtered"
    THEN [task |-> session.told[a], size |-> 1 + session.artifacts]
    ELSE [task |-> 0, size |-> IF ContextMode[a] = "isolated" THEN session.messages[a] ELSE 0]

StartAgent ==
    LET a == session.active
    IN /\ phase = "head" /\ a # Nobody /\ ~aborted /\ ~Tripped(a)
       /\ phase' = "running"
       /\ runs' = Append(runs, [agent |-> a, task |-> Context(a).task])
       /\ trace' = Recorded(trace)
       /\ UNCHANGED <<session, payload, spent, aborted>>

\* set_artifact
SetArtifact ==
    /\ phase = "running" /\ session.artifacts = 0
    /\ session' = [session EXCEPT !.artifacts = 1]
    /\ UNCHANGED <<phase, runs, payload, spent, aborted, trace>>

\* The turn is done, by a handoff or not: a handoff tool's, or a tool result
\* that reads like one.  A spent budget clears activeAgent.
TurnDone(target, cost) ==
    LET a == session.active
    IN /\ phase = "running"
       /\ phase' = "after"
       /\ payload' = target
       /\ spent' = spent + cost
       /\ session' = [session EXCEPT !.messages[a] = @ + Context(a).size,
                                     !.active = IF spent' > CostLimit THEN Nobody ELSE @]
       /\ trace' = Recorded(trace)
       /\ UNCHANGED <<runs, aborted>>

\* It ends by an abort or an error, without a done event.
TurnEndsWithout(target) ==
    /\ phase = "running"
    /\ phase' = "after"
    /\ payload' = target
    /\ trace' = Recorded(trace)
    /\ UNCHANGED <<session, runs, spent, aborted>>

TurnThrows ==
    /\ phase = "running"
    /\ phase' = "threw"
    /\ UNCHANGED <<session, runs, payload, spent, aborted, trace>>

\* applyHandoff, whoever is active by now.
Handoff ==
    /\ phase = "after" /\ payload \in Agents
    /\ phase' = "head"
    /\ session' = [session EXCEPT
           !.active = payload, !.handoffs = @ + 1,
           !.history = Append(@, payload), !.told[payload] = Len(session.history) + 1]
    /\ payload' = Nobody
    /\ trace' = Recorded(trace)
    /\ UNCHANGED <<runs, spent, aborted>>

NoHandoff ==
    /\ phase = "after" /\ payload = Nobody
    /\ phase' = "head"
    /\ session' = [session EXCEPT !.active = Nobody]
    /\ trace' = Recorded(trace)
    /\ UNCHANGED <<runs, payload, spent, aborted>>

\* Nobody is active, or the loop breaks: swarm-done, and the trace is flushed.
Finish ==
    /\ \/ phase = "head" /\ (~aborted /\ session.active # Nobody => Tripped(session.active))
       \/ phase = "after" /\ payload \in Strangers
    /\ phase' = "done"
    /\ trace' = Flushed(Recorded(trace))
    /\ UNCHANGED <<session, runs, payload, spent, aborted>>

\* The consumer stops iterating.
Leave ==
    /\ phase \in {"head", "running", "after"}
    /\ phase' = "left"
    /\ UNCHANGED <<session, runs, payload, spent, aborted, trace>>

Targets == Agents \cup Strangers \cup {Nobody}
Turn ==
    \/ \E target \in Targets : TurnEndsWithout(target) \/ \E cost \in 0..1 : TurnDone(target, cost)
    \/ TurnThrows
Orchestrate == StartAgent \/ Handoff \/ NoHandoff \/ Finish

HNext ==
    \/ Begin \/ Abort \/ Orchestrate \/ Turn \/ SetArtifact \/ Leave
    \/ FlushTimer \/ Exit

HSpec == HInit /\ [][HNext]_hvars

\* Each turn ends (AgentLoop!EveryTurnEnds), and the consumer goes on or leaves.
HFairness == WF_hvars(Orchestrate) /\ WF_hvars(Turn)

-----------------------------------------------------------------------------
(***************************************************************************)
(* Properties                                                              *)
(***************************************************************************)
HTypeOK ==
    /\ phase \in {"idle", "head", "running", "after", "done", "threw", "left"}
    /\ session.active \in Agents \cup {Nobody} /\ payload \in Targets
    /\ session.handoffs \in 0..MaxHandoffs /\ spent \in 0..MaxHandoffs
    /\ {aborted, trace.unflushed, trace.timer, trace.handler, trace.lost} \subseteq BOOLEAN

\* However the agents hand off, at most maxHandoffs turns are taken, and no
\* agent takes SameAgentLimit of them in a row.
BreakerHolds ==
    /\ Len(runs) <= MaxHandoffs
    /\ \A i \in 1 .. Len(runs) - SameAgentLimit + 1 :
           \E j \in i .. i + SameAgentLimit - 1 : runs[j].agent # runs[i].agent

\* A filtered agent works on the task of the handoff that made it active, not
\* on one it was given in an earlier turn.
LatestTask ==
    \A i \in DOMAIN runs :
        ContextMode[runs[i].agent] = "filtered" =>
            runs[i].task = i /\ session.history[i] = runs[i].agent

\* The trace of a swarm that ran to its end is on disk; while it runs, what is
\* not will be; and events are lost at exit only after an earlier flush.
TraceKept ==
    /\ phase = "done" => ~trace.unflushed
    /\ trace.unflushed => trace.timer
    /\ trace.lost => ~trace.handler /\ phase # "done"

HandoffSafe == BreakerHolds /\ LatestTask /\ TraceKept

\* What must not last, though every agent hands off to the next.
Swarming == phase # "idle" /\ ~Ended

=============================================================================

----------------------------- MODULE SwarmGraph -----------------------------
(***************************************************************************)
(* runSwarmGraph, src/swarm/graph-executor.ts: agents run in waves, those  *)
(* of a wave in parallel, each writing artifacts to a store of its own     *)
(* that is merged when the wave is over.  After each wave the artifacts    *)
(* and the number of finished waves are saved, so that a later call with   *)
(* resumeSwarmId can go on from there.                                     *)
(*                                                                         *)
(* The environment may fire the abort signal, stop consuming the events,   *)
(* crash the process, and call runSwarmGraph again with the same           *)
(* configuration and swarm id.  An artifact's value is the agent and the   *)
(* run that wrote it; an agent's own loop is abstracted to its writes and  *)
(* the way it ends.                                                        *)
(***************************************************************************)
EXTENDS Integers, Sequences, FiniteSets, Functions

CONSTANTS Agents,    \* numbered in the order config.agents lists them
          Keys,      \* artifact keys
          Configs,   \* [deps, requires, paused]: see ConfigType
          Costs,     \* what an agent may cost
          Budget,    \* CostBudget.totalUsd
          MaxRuns,   \* bound on the calls of runSwarmGraph
          None

ConfigType == [deps : [Agents -> SUBSET Nat],       \* dependsOn
               requires : [Agents -> SUBSET Keys],  \* requiredArtifacts
               paused : SUBSET Agents]              \* permissionMode auto_edit

\* How a run may end.
Endings == {"swarm-done", "circuit-break", "abandoned", "crashed"}

ASSUME SwarmAssumption ==
    /\ Agents \subseteq Nat \ {0} /\ IsFiniteSet(Agents)
    /\ Configs \subseteq ConfigType
    /\ Costs \subseteq Nat /\ Budget \in Nat /\ MaxRuns \in Nat
    /\ None \notin Agents /\ None \notin Endings

Artifact == [by : Agents, run : 1..MaxRuns]

VARIABLES config,
          pc,        \* where the generator is; "down": no run is active
          outcome,   \* how the last run ended
          run,       \* runs started
          waves, wave, \* the computed waves, and the number of finished ones
          artifacts, snapshot, \* shared artifacts; what the wave's agents read
          stores,    \* agent -> its own writes
          agent,     \* agent -> state of its generator
          queue,     \* mergeGenerators: events not yet yielded
          cancelled, \* mergeGenerators: no more events are taken
          aborted,   \* config.abortSignal.aborted
          cost,      \* swarmCostUsd
          saved,     \* the checkpoint file
          \* History variables, of the runs since the last start from scratch.
          endedIn,   \* agent -> the run in which it last came to its end
          charged,   \* what agents that came to their end in this run cost
          cutShort   \* the abort signal has fired in one of these runs

runVars == <<waves, wave, artifacts, snapshot>>
waveVars == <<stores, agent, queue, cancelled>>
historyVars == <<endedIn, charged, cutShort>>
vars == <<config, pc, outcome, run, runVars, waveVars, aborted, cost, saved,
          historyVars>>

Empty == [k \in Keys |-> None]
NoStores == [a \in Agents |-> Empty]
Running == {a \in Agents : agent[a] = "running"}

(***************************************************************************)
(* computeWaves: a wave holds the agents all of whose dependencies are in  *)
(* earlier waves.  It throws if some agent never gets into one, for an     *)
(* unknown or a circular dependency: the result is then <<>> here.         *)
(***************************************************************************)
\* "some" for "every".
MutReady(deps, completed) ==
    {a \in Agents \ completed :
        deps[a] = {} \/ deps[a] \cap completed # {}}
Ready(deps, completed) == {a \in Agents \ completed : deps[a] \subseteq completed}

ComputeWaves(deps) ==
    LET after[completed \in SUBSET Agents] ==
            LET ready == Ready(deps, completed)
            IN IF ready = {} THEN <<>>
               ELSE <<ready>> \o after[completed \cup ready]
    IN IF UNION Range(after[{}]) = Agents THEN after[{}] ELSE <<>>

Init ==
    /\ config \in Configs
    /\ pc = "down" /\ outcome = None /\ run = 0
    /\ waves = <<>> /\ wave = 0 /\ artifacts = Empty /\ snapshot = Empty
    /\ stores = NoStores /\ agent = [a \in Agents |-> "idle"]
    /\ queue = <<>> /\ cancelled = FALSE /\ aborted = FALSE
    /\ cost = 0 /\ saved = None
    /\ endedIn = [a \in Agents |-> 0] /\ charged = 0 /\ cutShort = FALSE

Delete == saved' = None

\* The run is over and its local state gone.
Ends(how) ==
    /\ pc' = "down" /\ outcome' = how
    /\ waves' = <<>> /\ wave' = 0 /\ artifacts' = Empty /\ snapshot' = Empty
    /\ stores' = NoStores /\ agent' = [a \in Agents |-> "idle"]
    /\ queue' = <<>> /\ cancelled' = FALSE
    /\ cost' = 0
    /\ UNCHANGED <<config, run, aborted, historyVars>>

(***************************************************************************)
(* A call of runSwarmGraph: restore the checkpoint, if there is one, and   *)
(* reject a configuration whose waves cannot be computed or run a pausing  *)
(* agent next to others.                                                   *)
(***************************************************************************)
Unsafe(layers) ==
    \E i \in DOMAIN layers :
        Cardinality(layers[i]) > 1 /\ layers[i] \cap config.paused # {}

FirstWave == IF saved = None THEN 0 ELSE saved.waves

Launch ==
    /\ pc = "down" /\ run < MaxRuns
    /\ run' = run + 1 /\ outcome' = None /\ aborted' = FALSE
    /\ charged' = 0
    /\ wave' = FirstWave
    /\ artifacts' = IF saved = None THEN Empty ELSE saved.artifacts
    /\ cutShort' = (saved # None /\ cutShort)
    /\ endedIn' = IF saved = None THEN [a \in Agents |-> 0] ELSE endedIn
    /\ pc' = "validate"
    /\ UNCHANGED <<config, waves, snapshot, waveVars, cost, saved>>

Valid ==
    LET layers == ComputeWaves(config.deps) IN
    /\ pc = "validate"
    /\ layers # <<>> /\ ~Unsafe(layers)
    /\ waves' = layers
    /\ pc' = "top"
    /\ UNCHANGED <<config, outcome, run, wave, artifacts, snapshot, waveVars,
                   aborted, cost, saved, historyVars>>

Invalid ==
    LET layers == ComputeWaves(config.deps) IN
    /\ pc = "validate"
    /\ layers = <<>> \/ Unsafe(layers)
    /\ Delete
    /\ Ends("circuit-break")

(***************************************************************************)
(* The top of a wave: the abort check, then the wave-start event, then the *)
(* agents are created, under a signal that fires when config.abortSignal   *)
(* does.  If that already has, in the meantime, mergeGenerators never      *)
(* hears of it.                                                            *)
(***************************************************************************)
Wave == waves[wave + 1]

AbortSeen ==
    /\ pc = "top" /\ wave < Len(waves)
    /\ aborted
    /\ Delete
    /\ Ends("circuit-break")

WaveStart ==
    /\ pc = "top" /\ wave < Len(waves)
    /\ ~aborted
    /\ pc' = "announced"
    /\ UNCHANGED <<config, outcome, run, runVars, waveVars, aborted, cost,
                   saved, historyVars>>

AgentsStart ==
    /\ pc = "announced"
    /\ pc' = "merging"
    /\ snapshot' = artifacts
    /\ stores' = NoStores
    /\ agent' = [a \in Agents |-> IF a \in Wave THEN "running" ELSE "idle"]
    /\ queue' = <<>> /\ cancelled' = FALSE
    /\ endedIn' = [a \in Agents |-> IF a \in Wave THEN 0 ELSE endedIn[a]]
    /\ UNCHANGED <<config, outcome, run, waves, wave, artifacts, aborted, cost,
                   saved, charged, cutShort>>

(***************************************************************************)
(* runAgentInGraph.  An agent goes on, and may write, until it next yields *)
(* an event, even when it has been told to stop.                           *)
(***************************************************************************)

\* set_artifact
Write(a, k) ==
    /\ agent[a] = "running"
    /\ stores' = [stores EXCEPT ![a][k] = [by |-> a, run |-> run]]
    /\ UNCHANGED <<config, pc, outcome, run, runVars, agent, queue, cancelled,
                   aborted, cost, saved, historyVars>>

Enqueue(event) == queue' = Append(queue, event)

\* The agent's loop is over: done, or with an error or an aborted event, which
\* costs nothing; agent-done follows in each case.
AgentEnds(a, usd) ==
    /\ agent[a] = "running" /\ ~cancelled
    /\ agent' = [agent EXCEPT ![a] = "ended"]
    /\ Enqueue([type |-> "agent-done", cost |-> usd])
    /\ endedIn' = [endedIn EXCEPT ![a] = run]
    /\ charged' = charged + usd
    /\ UNCHANGED <<config, pc, outcome, run, runVars, stores, cancelled,
                   aborted, cost, saved, cutShort>>

\* A generator that throws is finished too.
MutStateAfterThrow == "thrown"
StateAfterThrow == "ended"

AgentThrows(a) ==
    /\ agent[a] = "running" /\ ~cancelled
    /\ agent' = [agent EXCEPT ![a] = StateAfterThrow]
    /\ Enqueue([type |-> "circuit-break", cost |-> 0])
    /\ UNCHANGED <<config, pc, outcome, run, runVars, stores, cancelled,
                   aborted, cost, saved, historyVars>>

\* iter.return(), or the end of the consuming task, closes the generator at its
\* next yield; an event it had ready is dropped.
AgentClosed(a) ==
    /\ agent[a] = "running" /\ cancelled
    /\ agent' = [agent EXCEPT ![a] = "closed"]
    /\ UNCHANGED <<config, pc, outcome, run, runVars, stores, queue, cancelled,
                   aborted, cost, saved, historyVars>>

(***************************************************************************)
(* The consuming side of mergeGenerators: yield the queued events in turn, *)
(* until all generators have finished and the queue is empty, or until     *)
(* cancelled; then wait for the ones still running.                        *)
(***************************************************************************)
OverBudget(usd) == usd > Budget

Taken == pc = "merging" /\ ~cancelled /\ queue # <<>>

\* The wave is broken off: the sibling agents are told to stop.
Break(how) == pc' = "closing" /\ outcome' = how /\ cancelled' = TRUE

AgentDone ==
    /\ Taken /\ Head(queue).type = "agent-done"
    /\ queue' = Tail(queue)
    /\ cost' = cost + Head(queue).cost
    /\ IF OverBudget(cost')
       THEN Break("circuit-break") /\ Delete
       ELSE UNCHANGED <<pc, outcome, cancelled, saved>>
    /\ UNCHANGED <<config, run, runVars, stores, agent, aborted, historyVars>>

CircuitBreak ==
    /\ Taken /\ Head(queue).type = "circuit-break"
    /\ queue' = Tail(queue)
    /\ Break("circuit-break")
    /\ UNCHANGED <<config, run, runVars, stores, agent, aborted, cost, saved,
                   historyVars>>

Finished == Wave \subseteq {a \in Agents : agent[a] = "ended"}

\* A merge that does not wake up when it is cancelled, and one that does not
\* drain the queue.
MutMergeDeaf == Finished /\ queue = <<>>
MutMergeHasty == cancelled \/ Finished
MergeOver == cancelled \/ (Finished /\ queue = <<>>)

MergeEnds ==
    /\ pc = "merging"
    /\ MergeOver
    /\ Break(None)
    /\ UNCHANGED <<config, run, runVars, stores, agent, queue, aborted, cost,
                   saved, historyVars>>

\* The generators are closed before the run goes on.
MutClosed == TRUE
Closed == Running = {}

\* After a trip the checkpoint is deleted, after return() it is not.
WaveBroken ==
    /\ pc = "closing" /\ Closed /\ outcome # None
    /\ saved' = IF outcome = "circuit-break" THEN None ELSE saved
    /\ Ends(outcome)

(***************************************************************************)
(* The end of a wave that was not broken off: merge the stores, the last   *)
(* of two writers of a key being the one listed last; check that each      *)
(* agent's required artifacts are there; save.                             *)
(***************************************************************************)
Writers(k) == {a \in Wave : stores[a][k] # None}
LastOf(S) == CHOOSE a \in S : \A b \in S : b <= a
Merged == [k \in Keys |-> IF Writers(k) = {} THEN artifacts[k]
                          ELSE stores[LastOf(Writers(k))][k]]

\* A contract check on the agent's own word for it: nothing is missing when
\* the agent ended.
MutMissing == {k \in Keys : Merged[k] = None /\ \E a \in Wave :
                                k \in config.requires[a] /\ agent[a] # "ended"}
Missing == {k \in Keys : Merged[k] = None /\ \E a \in Wave :
                             k \in config.requires[a]}

\* Two events are yielded, before and after the checkpoint is deleted: a
\* consumer that leaves in between keeps the checkpoint.
ArtifactMissing ==
    /\ pc = "closing" /\ Closed /\ outcome = None
    /\ Missing # {}
    /\ \/ Delete /\ Ends("circuit-break")
       \/ UNCHANGED saved /\ Ends("abandoned")

\* Off by one.
MutSavedWaves == wave + 2
SavedWaves == wave + 1

\* cp.save() ignores a failing write.
WaveSaved ==
    /\ pc = "closing" /\ Closed /\ outcome = None
    /\ Missing = {}
    /\ artifacts' = Merged
    /\ \/ saved' = [waves |-> SavedWaves, artifacts |-> Merged]
       \/ UNCHANGED saved
    /\ wave' = wave + 1
    /\ pc' = "top"
    /\ stores' = NoStores /\ agent' = [a \in Agents |-> "idle"]
    /\ queue' = <<>> /\ cancelled' = FALSE /\ snapshot' = Empty
    /\ UNCHANGED <<config, outcome, run, waves, aborted, cost, historyVars>>

SwarmDone ==
    /\ pc = "top" /\ wave >= Len(waves)
    /\ Delete
    /\ Ends("swarm-done")

(***************************************************************************)
(* The environment                                                         *)
(***************************************************************************)
Abort ==
    /\ pc # "down" /\ ~aborted
    /\ aborted' = TRUE /\ cutShort' = TRUE
    /\ cancelled' = (cancelled \/ pc = "merging")
    /\ UNCHANGED <<config, pc, outcome, run, runVars, stores, agent, queue,
                   cost, saved, endedIn, charged>>

\* The consumer leaves at an event of a wave's agents, or between two waves.
Abandon ==
    \/ /\ pc = "merging"
       /\ Break("abandoned")
       /\ UNCHANGED <<config, run, runVars, stores, agent, queue, aborted,
                      cost, saved, historyVars>>
    \/ /\ pc \in {"top", "announced"}
       /\ UNCHANGED saved
       /\ Ends("abandoned")

Crash ==
    /\ pc # "down"
    /\ UNCHANGED saved
    /\ Ends("crashed")

AgentStep(a) ==
    AgentThrows(a) \/ AgentClosed(a) \/ \E usd \in Costs : AgentEnds(a, usd)

GraphStep ==
    \/ Valid \/ Invalid
    \/ AbortSeen \/ WaveStart \/ AgentsStart
    \/ AgentDone \/ CircuitBreak \/ MergeEnds \/ WaveBroken
    \/ ArtifactMissing \/ WaveSaved \/ SwarmDone

Next ==
    \/ Launch
    \/ GraphStep
    \/ \E a \in Agents : AgentStep(a) \/ \E k \in Keys : Write(a, k)
    \/ Abort \/ Abandon \/ Crash

Spec == Init /\ [][Next]_vars

\* The consumer keeps asking for events, and each agent comes to its next
\* yield: runAgentLoop ends, module AgentLoop, property EveryTurnEnds.
FairSpec ==
    /\ Spec
    /\ WF_vars(GraphStep)
    /\ \A a \in Agents : WF_vars(AgentStep(a))

-----------------------------------------------------------------------------
(***************************************************************************)
(* Properties                                                              *)
(***************************************************************************)
ArtifactMap == [Keys -> Artifact \cup {None}]

TypeOK ==
    /\ config \in Configs
    /\ pc \in {"down", "validate", "top", "announced", "merging", "closing"}
    /\ outcome \in Endings \cup {None}
    /\ run \in 0..MaxRuns
    /\ waves \in Seq(SUBSET Agents) /\ wave \in 0..Cardinality(Agents)
    /\ artifacts \in ArtifactMap /\ snapshot \in ArtifactMap
    /\ stores \in [Agents -> ArtifactMap]
    /\ agent \in [Agents -> {"idle", "running", "ended", "closed"}]
    /\ queue \in Seq([type : {"agent-done", "circuit-break"}, cost : Nat])
    /\ cancelled \in BOOLEAN /\ aborted \in BOOLEAN /\ cutShort \in BOOLEAN
    /\ cost \in Nat /\ charged \in Nat
    /\ saved = None \/ saved \in [waves : Nat, artifacts : ArtifactMap]
    /\ endedIn \in [Agents -> 0..MaxRuns]

\* The agents of the first n waves.
Before(n) == UNION {ComputeWaves(config.deps)[i] : i \in 1..n}

\* The checkpoint counts only waves all of whose agents came to their end, in
\* whatever run, unless the abort signal cut one short; and it holds only what
\* those runs of those agents wrote, nothing of a wave that was broken off.
SavedWavesFinished ==
    saved # None /\ ~cutShort =>
        /\ \A a \in Before(saved.waves) : endedIn[a] # 0
        /\ \A k \in Keys : saved.artifacts[k] # None =>
               LET v == saved.artifacts[k]
               IN v.by \in Before(saved.waves) /\ v.run = endedIn[v.by]

\* dependsOn: an agent runs only after each of its dependencies came to its
\* end, in this run or in one this run resumed, unless the abort signal cut
\* the dependency short.
DependenciesFirst ==
    ~cutShort =>
        \A a \in Running : \A d \in config.deps[a] : endedIn[d] # 0

\* requiredArtifacts: an agent that runs can read every artifact its
\* dependencies have to produce, also in a resumed run, aborted or not.
ContractsHold ==
    \A a \in Running : \A d \in config.deps[a] :
        \A k \in config.requires[d] : snapshot[k] # None

\* Hard cost cap: no further wave is announced once the agents that came to
\* their end in this run have cost more than the budget, however late their
\* agent-done events are taken from the queue.
BudgetStopsSwarm == pc = "announced" => charged <= Budget

\* A run ends, crashed or not, only when none of its agents is at work on a
\* store that has been merged or given up.
NobodyLeftBehind ==
    [][\A a \in Agents : agent[a] = "running" /\ agent'[a] # "running" =>
           \/ agent'[a] \in {"ended", "closed"}
           \/ outcome' = "crashed"]_vars

\* Each run comes to an end.
SwarmEnds == (pc # "down") ~> (pc = "down")

\* types.ts: "When the signal fires, ... the swarm emits a circuit-break event
\* before returning".
AbortedSwarmBreaks == aborted => outcome # "swarm-done"

=============================================================================

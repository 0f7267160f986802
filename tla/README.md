# chorus-engine in TLA+

TLA+ models of the parts of chorus-engine in which the order of events matters
(what runs concurrently, what waits for whom, what is on disk when the process
dies) and of the algorithms whose answers the rest relies on. Each module is a
translation of the TypeScript it names, method by method; TLC checks it on small
instances, and TLAPS proves the invariants of every component that has a state of
its own (the gate, the agent loop, the durable checkpointer, both graph executors, the
services, servers and savers), and that the gate implements its abstract
specification, for every instance. `PROJECT.json` says which lines
each definition stands for.

Check a model with `tlc -config MCHitlGate.cfg MCHitlGate`, a proof with
`tlapm HitlGateProofs.tla`. Paths below are relative to `src/src/`.

## The system

chorus-engine is a TypeScript engine for LLM agents. Everything runs on Node's
event loop: code between two `await`s (or two `yield`s of an async generator) is
atomic, and everything else interleaves. Nothing else is synchronised, so each
component's correctness is a question of what may happen at its awaits, and of
what is on disk when a process dies there.

| Component | State | Operations | Interacts with | Hard behaviour | What makes it correct |
|---|---|---|---|---|---|
| HITL gate `agent/hitl.ts` | map key -> blocked caller, map key -> parked decision, approved tools, timers | wait, resolve, dispose, resetSessionApprovals, shouldPause | loop, UI, A2A, subagents | answers before waits, timeouts, two waits on a key, dispose while blocked | no lost wake-up, a decision used once, every timed wait ends |
| Agent loop `agent/loop.ts`, `loop-utils.ts`, `retry.ts`, `btw.ts` | history, round, pending decision; a generator suspended at each event | one round: drain /btw, stream, decide, tools, checkpoint | gate, checkpointer, LLM provider, tools, hooks, guardrails | retries of partial streams, pauses across restarts, abandonment | each call answered once before the model is asked again, approvals apply to what was approved, turns end |
| JSON checkpointer `agent/checkpointer.ts` | a file per thread and round | save (rename), load (highest round), fork, delete | loop, durable checkpointer | crash between two steps, stale files of earlier turns | what was saved is what is loaded |
| Durable checkpointer `agent/durable-checkpointer.ts` | event log, sequence counters, the last async save | save in three modes, appendEvent, fork, delete, flush, recoverFromCrash | JSON checkpointer | methods overlapping at their awaits, crashes | acknowledged saves survive, deleted threads stay deleted |
| Swarm graph `swarm/graph-executor.ts`, `swarm-checkpointer.ts` | waves, artifact stores, cost, checkpoint file | compute waves, run a wave, merge, check contracts, save, resume | loop, budget, worktrees | parallel agents, one failing, aborts, resume after a crash | no wave starts on unfinished ones, budget, every run ends |
| Swarm handoffs `swarm/orchestrator.ts`, `circuit-breaker.ts`, `session.ts`, `trace.ts` | active agent, round counts, artifacts, spent tokens, trace buffer | run the active agent until it hands off | loop, breaker, trace file | a handoff in the turn that spends the budget, abort, exit before a flush | hops bounded, circles broken, the latest task, the trace flushed |
| Swarm worktrees `swarm/worktree.ts` | directories, git's registrations, branches | create, remove | swarm graph | a crash between two commands, failing commands, resumption | no two agents in one worktree, no branch of another lost |
| Group chat, supervisor, presets `swarm/` | the chat's history; configuration | rounds of speakers, four merges | loop | votes over several rounds | the vote elects a most frequent answer |
| State graph `graph/state-graph.ts`, `channel.ts` | channels, completed nodes, checkpoints | stream (supersteps), resume, updateState, getState | savers, createAgent, REST server | parallel nodes, interrupts, crash between a superstep and its checkpoint | result independent of the order nodes finish in; a resume continues |
| createAgent `graph/create-agent.ts` | messages, tool calls, iteration | agent node, tools node, router | state graph, gate | tools in parallel, resumed approvals | one result per call in order, no unapproved tool |
| Graph REST server `graph/rest-server.ts` | threads, runs | create, patch, delete, start, resume | state graph | runs of a thread that overlap, a patch while running | a report agrees with the run |
| PostgreSQL savers `agent/postgres-checkpointer.ts`, `graph/postgres-saver.ts` | rows, event rows, "initialized" | setup, save, load, loadAt, fork, delete, append | loop, state graph | overlapping statements, answers lost after the commit | a load is no older than an acknowledged save, forks whole |
| Workers `harness/workerEngine.ts`, `workerPool.ts` | queue, workers in flight, results | run with bounded concurrency, retries, abort | loop | abort while queued, one failing | bound kept, every worker reported |
| Harness orchestration, storage, logs `harness/` | session directory, approval log | route, assemble context, append | loop, workers | mostly data and file I/O | - |
| A2A `a2a/server.ts`, `client.ts` | task table | send, get, cancel, stream, poll | loop | completion after cancel, two sends of a task | a stream ends once, a tool is told what became of its task |
| Channels `channels/broadcaster.ts`, `server.ts` | subscribers and their number, heartbeat timer | subscribe, emit, unsubscribe, dispose | every event source | disconnect during emit, double unsubscribe | the heartbeat runs while somebody listens, one order for all |
| Session manager `session/` | current session, debounce timer, files, index | create, add, save, rename, resume, flush, delete | CLI | a snapshot of another session pending, a crash between file and index | nothing unsaved for long, the index agrees with the files |
| MCP client `mcp/client.ts` | connections, health timers | connect, health check, reconnect, reload | tools | overlapping connects, reconnects of what was replaced | what is listed is checked, nobody is given an old configuration |
| MCP auth `mcp/auth.ts`, `manage.ts` | key file, encrypted store, cached providers | browser flow, client credentials, save, clear | MCP client | flows that overlap, a crash in a save | the store can be decrypted and loses no token |
| Memory `memory/` | four tiers per scope, index | appendMessage, setAtom, clear, search; compress, cluster, synthesize | loop, compressor, embedder | read-modify-write over awaits, a failing compressor | no message lost without an overlap, limits kept, no duplicate atoms |
| Skills `skills/` | two maps, the index, a debounce timer; trajectories | reload, register, unregister, observe, synthesize, execute, select | loop, embedder | reloads that overlap registrations, an index that is full | what is registered can be found while there is room, what is learned repeats what was done |
| Context `context/` | the token cache | compact, trim | loop | budgets at their boundary | the newest messages are kept and fit |
| Guardrails, redaction `guardrails/`, `telemetry/redaction.ts` | adaptive thresholds | tiers, feedback, spans | loop | early exit, escalation, overlapping matches | the shortcut alone does not change the verdict |
| LLM providers `llm/` | HTTP stream, parser | stream, retry | loop | lines and tags cut by the network | a stream is read the same however it is cut |
| Evaluation `evals/` | suites, baselines | run in batches, score, compare | loop | a case that throws, regressions at the threshold | one result per case, in order |
| Subagents, tools, settings, prompts | - | run an agent, a command, a file operation | loop | I/O | - |

`PROJECT.json` lists the same components with their files and status, and under
"hazards" the places where this code can go wrong in a way a test would hardly
reach, with the properties that cover each.

## Modules and the code

| Module | Models | Composes |
|---|---|---|
| `HitlGate` | `agent/hitl.ts` | instantiates `Mailbox`, which it implements |
| `Mailbox` | what the gate promises: the abstract specification | - |
| `HitlGateProofs`, `AgentLoopProofs`, `DurableCheckpointerProofs`, `SwarmGraphProofs`, `StateGraphProofs`, `ServicesProofs`, `BackendsProofs` | theorems about the module each is named after | extends it |
| `FiniteInduction` | lemmas: induction over numbers, and functions defined by iteration | - |
| `AgentLoop` | `agent/loop.ts`, `loop-utils.ts`, `retry.ts`, `btw.ts`, `checkpointer.ts` | instantiates `HitlGate`, one resume key per round |
| `DurableCheckpointer` | `agent/durable-checkpointer.ts` over `checkpointer.ts` | - |
| `SwarmGraph` | `swarm/graph-executor.ts`, `swarm-checkpointer.ts`, the total cap of `cost-router.ts` | - |
| `StateGraph` | `graph/state-graph.ts`, the ordering and ids of `graph/postgres-saver.ts` | - |
| `SwarmHandoff` | `swarm/orchestrator.ts`, `circuit-breaker.ts`, `session.ts`, `trace.ts` | - |
| `ReactAgent` | `graph/create-agent.ts` | - |
| `Workers` | `harness/workerEngine.ts` | - |
| `McpClient`, `McpAuth` | `mcp/client.ts`; `mcp/auth.ts`, `mcp/manage.ts` | - |
| `SessionStore` | `session/manager.ts`, `session/storage.ts` | - |
| `TieredMemory` | `memory/index.ts` and its backends | - |
| `SkillRegistry` | `skills/registry.ts`, `skills/semanticIndex.ts` | - |
| `Channels`, `A2aTasks`, `GraphServer` | `channels/`; `a2a/`; `graph/rest-server.ts` | - |
| `Worktrees` | `swarm/worktree.ts` as `graph-executor.ts` uses it | - |
| `PostgresSaver` | `agent/postgres-checkpointer.ts`, `graph/postgres-saver.ts` | - |
| `MemoryCompression`, `SkillSynthesis`, `SkillSelection`, `Guardrails`, `Redaction`, `LlmStream`, `Evals`, `ContextWindow`, `Delegation` | the algorithms of `memory/`, `skills/`, `guardrails/`, `telemetry/`, `llm/`, `evals/`, `context/`, group chat, supervisor and subagents, as operators | - |
| `Services` | what runs beside the loop | the eight modules from `SwarmHandoff` to `SkillRegistry`, one in each behaviour |
| `Backends` | servers and savers | `Channels`, `A2aTasks`, `GraphServer`, `Worktrees`, `PostgresSaver`, one in each behaviour |
| `MCAlgorithms` | - | the algorithms, one input in each state |
| `MCBackends` | - | `Backends` and `MCAlgorithms`: the algorithms run where no other part does |

The other `MC` modules hold the values of the constants of one module; there is
one `.cfg` per run. An action is the code between two awaits (or two yields,
where the consumer may leave), with every call it makes. Names are those of the
source. History variables are marked as such: what the code does never depends
on one. A definition called `Mut...` is a plausible bug in the definition that
follows it; it is used by no specification, and stands for "the property would
notice if the code were this".

**HitlGate.** `gates`, `pending`, `sessionApproved` and `disposed` are the fields
of the class; `wState`, `wKey`, `wDecision` and `timer` are the promises that
`wait()` returned and their timers. A `wait()` and a `resolve()` are identities
used once, so that "this decision settled that wait" can be said. `WaitParked`
and `WaitRegister` are the two paths of `wait()`, `ResolveDeliver` and
`ResolvePark` those of `resolve()`; `Timeout`, `Dispose` and
`ResetSessionApprovals` are the rest. A second `wait()` on a key takes the entry
of the first over, as in the code; `overlapped` remembers such keys, for which
weaker things hold.

**AgentLoop.** `pc` is where the generator is suspended. A round is
`RoundBegins` (drain `/btw`, compact the history or not, call the model), `StreamToken`/`StreamRetry`/
`StreamFails`/`StreamDone`, then either `FinalInvalid`/`FinalHalted`/`FinalDone`
or `Decide`, and from there `Pause`, `AwaitDecision`, `DecisionArrives`,
`Rejected` when a call needs approval, and `BatchBegins`, `Invoke`,
`AnswerAfterRun`, `AnswerWithoutRun`, `Handoff`, `HookFails`, `BatchDone` for
the calls. `files` are the checkpoint files of the thread, one per round.
Messages carry a role and an identity: what the properties tell apart. A compaction puts
a summary in place of a beginning of the history, of any length: how much stays is a matter of
tokens (`ContextWindow`). `cut` is a history variable: the responses the code keeps in a
conversation without the results of all their calls. The
environment starts turns, answers the hitl events it has seen (late, twice, with
either answer), enqueues texts, leaves, and crashes.

**DurableCheckpointer.** A method runs to its first await when it is called; the
rest is a queue of microtasks, `tasks`, run in the order in which they were queued,
between which other methods may be called. `snapshots` and `log` are the files. The
messages of a checkpoint are the number of the `save()` that wrote them.

**SwarmGraph.** `waves` are computed as `computeWaves` does. `mergeGenerators` is
modelled as it is: agents run by themselves and put events in `queue`,
the run takes them (`AgentDone`, `CircuitBreak`), and the merge is over when all have
ended or an abort is seen (`MergeOver`); the generators that are left are then
closed one by one (`AgentClosed`). `saved` is the checkpoint file, from which a
later run of the same swarm id goes on.

**StateGraph.** A call of `stream()`, `resume()` or `updateState()` is a *run*, a
record with the local variables of the call. `StreamWave`/`ResumedWave` are the
top of the loop, `NodeReturns`/`NodeFails`/`NodeInterrupts` the nodes of the wave
settling in any order, `WaveMerged`/`WaveFinishes`/`WaveFails` what follows
`Promise.all`, `SaveCheckpoint`/`SaveRefused` the insert. The state is one append
channel, so that a lost, repeated or reordered update shows. `latest` is the set
of checkpoints with the greatest `created_at`: the rest are never loaded.

**Mailbox.** A decision is an answer to a key; it answers a caller (`AskAnswered`,
`DecideAnswers`) or is kept while nobody waits for it (`DecideKept`), a caller
waits (`AskWaits`) until he is answered, his time is up (`Expire`) or the mailbox closes
(`Close`). `HitlGate!Box` instantiates it with what `Status` and `Parked`
compute from the gate's maps and promises; arming a timer or approving a tool for
the session is no step of the mailbox.

**SwarmHandoff.** The swarm's generator is at `phase`; one turn of the active
agent is `StartAgent`, then one of `TurnDone`, `TurnEndsWithout` and `TurnThrows`, of which the
first two may carry a handoff (captured by a handoff tool, or read from a tool
result), then `Handoff` or `NoHandoff`. The trace is its buffer, its timer, its
exit handler and its file.

**ReactAgent.** `AgentNode` and `ToolsNode` take turns; `Invoke` and `InvokeEnds`
are the calls of one response, one after the other or all at once. Both nodes
return the history they were given with their own messages added to it, and the
channel appends it: the model keeps that.

**Workers.** `Start` is the head of the loop with its inner loop, to
`Promise.race`; `Drain` and `Return` are its ends; `AskAgain` and `Finish` are what
the model's answer does to a worker. `early` says that the signal had fired before the call.

**McpClient** and **McpAuth.** Each `connectServer()` has its connection; `connect`
is where the call stands, and a connection's `check` where its health check stands:
`Tick` starts it, and a ping, a close or a reconnect is answered, fails or times out.
`reloadMcpConnections()` clears the map and closes what it held. In `McpAuth` a save
is `UsesKey` or `CreatesKey` and `FillsKey`, then `Renames`: a crash
falls between any two. `last` is a history variable: what was stored last.

**SessionStore.** `current` is the session in memory, `pending` the snapshot of
the debounce timer. A save is `SaveFile`, and `SaveIndex` after it; `Crash` forgets
the memory and leaves the files. `crossed` is a history variable: the session was resumed from its file
while the timer still held a snapshot of that session, which is then saved over that file.

**TieredMemory.** Each `appendMessage` is a sequence of reads and writes of two
tiers. `heap` holds the arrays by who made them, so that it can be said that the
in-memory backend gives everybody the same array and the disk backend a copy. The in-memory
backend answers in the order it was asked (`ready`). `overlaps` is a history variable: the
appends made while another was under way.

**SkillRegistry.** `reload()` and the registrations put a name into a map and index
it after an await; `Debounced` is the timer of the file watcher. `IndexSkill` evicts
what is over `maxSize`: which name goes depends on the searches made, and any may, save the one
just set. The names in `skill-index.json`, stale ones included, take up room from the
beginning. `evicted` is a history variable: what was let go of and has not come back or been removed.

**Channels**, **A2aTasks**, **GraphServer.** A request is an identity: it connects,
emits or is answered, closes, fails. What handles it (a handler, a
graph) yields, ends or throws. A restart empties the maps; the checkpoints of the graph stay.
An execution of the REST server loads the checkpoint of its thread (`Loads`), saves one after each
superstep that is not the last (`Superstep`), and `Ends` at a finish point, with nothing left to
run, at an interrupt or by an exception.

**Worktrees.** One action per git command and directory operation, each of which
may fail; `Dies` is a crash, after which a resumed swarm uses the same names. `SafeName` is
what a name becomes when it is sanitised and cut, and two agents may have one. `displaced` is a
history variable: the agents whose directory another took for a stale one.

**PostgresSaver.** One action per statement. `Throws` is a connection lost before a
statement is executed or before its answer arrives: in both the caller sees an exception.
The rows of the agent's saver are replaced by round, those of the graph's saver are only added.
The id of a graph's checkpoint is its thread, wave and millisecond, so that two can collide.
What a load, a fork and a delete promise depends on what else touches their threads meanwhile; `Kept`
and `Unmixed` say which calls must not.

**The algorithms** are operators with the arguments of the functions they
translate; texts are sequences of terms or characters, embeddings directions on
a line, scores whole numbers of hundredths. Loops are folds, and a `while` a
recursive function. What a regular expression, a model or an embedder answers is
part of the input.

## The runs

| Run | What it shows | Distinct states |
|---|---|---|
| `hitl_gate` | every blocked caller can be reached, no decision is lost, used twice or kept over a reset, every timed wait settles, and the gate implements `Mailbox` | 119,020 |
| `agent_loop` | in what is sent to the model each call is followed by its results, but in the places named in Findings, a decision authorises one batch, what a human is asked is on disk, every turn ends | 638,503 |
| `durable_checkpointer` | what a sync `save()` acknowledged survives a crash and is recovered, deleted threads stay deleted and saves are logged in their order, a `flush()` that waits covers the saves before it | 436,555 |
| `swarm_graph` | a resumed run builds on finished waves only, dependencies and contracts hold over resumes, the budget stops the next wave, no agent is left at work, every run ends | 136,016 |
| `state_graph` | a checkpoint holds whole waves whatever the order and the overlap, a thread is not set back, an end is reported only after a finish point, every stream ends | 192,315 |
| `services` | MCP connections and tokens, workers, handoffs, createAgent, sessions, memory and skills: what each keeps, whatever overlaps, and that nothing is waited for for ever | 195,590 |
| `backends` | channels, A2A, REST server, worktrees and PostgreSQL savers in every interleaving: streams end once and in one order, a report agrees with the run, no two agents share a worktree, a load is not older than a save it follows; the algorithms against a reference, on every input of small sets | 407,760 |
| `agent_loop_approval`, `agent_loop_pause`, `swarm_abort`, `durable_seq`, `graph_queued` | one counterexample each, see Findings | - |

In `services` and `backends` the variable `service` or `part` chooses in the initial
state what runs, and the variables of the others stay `None`: these components have
no state in common, so that their state spaces add up instead of multiplying. A
property of such a run is the conjunction of what each component promises
(`Mcp!HealthChecked`, `Handoff!BreakerHolds`, `Postgres!PostgresSafe`, ...), under the
condition that it is the one that runs. Where `part` is "algorithms" a state is one input: the
invariants compare the operator with a reference on each.

### Bounds

- *HitlGate*: two keys; three waits, so that a third can follow two that
  overlapped on a key; two decisions, so that one can be parked while another is
  delivered. Nothing in the code counts anything.
- *AgentLoop*: two turns of at most two rounds, so that the second turn reuses the
  resume keys and the files of the first, two attempts per stream and tool, and
  the batch `<<read, write>>` of which one call needs approval. `MaxTurns` and
  `MaxBtw` bound the environment; the other limits are the program's own. `CompactAbove` is the
  number of messages below which the window cannot be full: 8, so that
  the longer conversations of the second turn are cut, before any of their messages.
- *DurableCheckpointer*: two threads (one forked from the other), two rounds, four calls
  and one crash: the longest scenario the properties speak of is
  save, save, delete or flush, and one more call in between. What four calls do not reach
  (a thread forked, and forked back) is covered by the proof. The threads are
  interchangeable, and are declared as a symmetry set; there is no liveness property in that run.
- *SwarmGraph*: three agents in four dependency graphs (fork, chain, cycle,
  a wave with an `auto_edit` agent), three runs, so that a resumed run can be
  resumed; costs 0 or 1 on a budget of 1, so that two agents of a wave together go over it.
- *StateGraph*: three calls of which two may overlap (`MaxActive`); graphs with a
  join, a loop that changes nothing, a loop that counts, a fan-out that sends two
  arguments to one node, and a cycle that does not compile; waves of at most two nodes.
  `MaxResumed` bounds the waves of `resume()`, which has no limit of its own but the
  total timeout.
- *McpClient*: two calls of `connectServer()` for a configuration that changes, three
  faults (`MaxFaults`) and the give-up limit `MaxFailures` at two (three in the code):
  a reconnect can fail, be told to go on, and fail for good, while the other call replaces it.
- *McpAuth*: three servers, of which two are authorized in the browser at the same time;
  `MaxTokens` and `MaxKeys` bound what the servers and the key generator make up.
- *Workers*: three workers of two roles, concurrency one, two and a pipeline;
  `MaxRetries` is above the three attempts the policy itself allows.
- *SwarmHandoff*: two agents and a stranger, four handoffs and two turns in a row:
  a circle of two trips one breaker, an agent that hands off to itself the other.
  `TokenBudget` and `CostLimit` are such that either can be exceeded.
- *ReactAgent*: two tool calls in a response, four iterations.
- *SessionStore*: two sessions, `MaxTime` 7: the debounce of one can hold while the other is resumed, and a
  session can be created, saved, changed and resumed before the snapshot of that change is written.
- *TieredMemory*: two messages, an atom and a clear, over a history of one that is at its
  limit (`MaxMessages` 1), `MaxWorkingMemory` 4: the doubled array must be trimmed.
- *SkillRegistry*: three names of which the index has room for two (`MaxSize`), an index file with a stale
  name and one that is full, two reloads and two registrations; `MaxChanges` bounds edits of files.
- *Channels*: two clients, three events. *A2aTasks*: two sends of two ids, one chunk, one cancel.
  *GraphServer*: two threads, two executions. *Worktrees*: two agents whose names are cut to
  the same and a third, whose branch somebody else has made, two crashes and two failing commands. *PostgresSaver*: seven plans of
  three calls that meet in a thread.
- *Algorithms*: sequences of two to five elements, of which the sets are chosen so that each case
  occurs: clusters on both sides of the thresholds, windows of up to 20 messages of 4 with 1
  overlap, trajectories of at most two calls of which three make a pattern, with the same keys and with others,
  guardrails with escalation thresholds below, in and above 0.70-0.75 and latency budgets that are spent at
  once, half-way and never, eleven outcomes of a
  skill (ten are the minimum to be judged), texts of four characters and one of six that is cut at
  five, streams of up to three events cut at every point into two reads, tags of two characters
  split in any way, histories of up to four messages in which two calls are answered in any order
  or not at all, policies with any combination of their fields over two parameters, groups of two
  speakers over two rounds.

Deadlock checking is off: in each of these systems the environment may have
used up its calls and everything be at rest.

### Fairness

- `HitlGate`: an armed timer fires (Node's timers do). Nobody has to answer.
- `AgentLoop`: the generator goes on (the consumer keeps iterating; a provider or
  tool that hangs is ended by its own timeout), and the timer of a wait fires.
  Nothing is assumed of the human, of `/btw` or of the application.
- `SwarmGraph`: the executor goes on, and each agent reaches its next yield (a
  round of the loop ends, by `AgentLoop`'s liveness). No assumption that aborts come.
- `StateGraph`: the consumer keeps iterating, the database answers, and a node's
  timeout fires when the node has not returned. Nodes need not return.
- `McpClient`: the interval of the health check fires, and each request it or a connect
  makes is answered, fails or times out, as the client races all of them against a timer.
- `McpAuth`: a save goes on (it is synchronous). A flow's timeout is *strongly* fair,
  as is the answer to its token request: a save of another flow is synchronous and disables both meanwhile.
- `Workers`, `SwarmHandoff`, `ReactAgent`: the engine goes on, and a model call, a turn (by
  `AgentLoop`'s liveness), a node or a tool ends. Nobody need abort, approve or resume.
- `SessionStore`, `SkillRegistry`, `TieredMemory`: timers fire, a save goes on to its index,
  the embedder and the compressor answer or throw.
- `DurableCheckpointer`, and the modules of `Backends`, have safety properties only: what is
  awaited there is the client's or the handler's business, and neither need come.

But for `McpAuth` it is weak fairness, and all of it of the system's own steps; leaving, crashing, aborting
and calling again are never fair, and never needed for a property to hold.

## Proofs

| Module | Theorems |
|---|---|
| `HitlGateProofs` | the type invariant, every safety property of the run `hitl_gate`, that only the timer of a blocked caller is armed (`NoLateTimer`), the refinement of `Mailbox` (`Implements`) |
| `AgentLoopProofs` | `TypeCorrect`, `CallsAnswered`, `OneBatch`, `PausesSaved`: every safety property of `agent_loop` |
| `DurableCheckpointerProofs` | `TypeCorrect`, `AcknowledgedKept`, `Recovered`, `LogsSound`, `FlushCovered`: every property of `durable_checkpointer` |
| `SwarmGraphProofs` | `TypeCorrect`, `SavedFinished`, `DependenciesDone`, `ContractsKept`, `BudgetKept`, `AgentsClosed`: every safety property of `swarm_graph`; that `computeWaves` throws exactly where it should (`WavesComplete`) |
| `StateGraphProofs` | `TypeCorrect`, `WholeWaves`, `EndsAtFinish`, `NotSetBack`: every safety property of `state_graph` |
| `ServicesProofs` | `TypeCorrect`, `ConnectionsAreSafe`, `TeamsAreSafe`, `RecordsAreSafe`: every safety property of `services` |
| `BackendsProofs` | `ServersAreSafe`, `StoresAreSafe`: every property of `backends` but those of the algorithms |

Each module has one theorem `Invariance == Spec => []IInv` (`Inv` for the gate), for an
inductive invariant that TLC found to hold on the run's instance first; the others follow
from it, an action property from it and one step. The proof that a step keeps it has a
lemma per conjunct or per action, whichever is shorter, with a step per action below. All
hold for every value of the constants that satisfies the module's assumption (that of `Services` and
`Backends` is the assumptions of what they compose). What the
assumptions say: limits are natural numbers, sets of configurations consist of
configurations, and `None` is not among the values it is told from. The last is needed and not a
formality: the proofs of the loop and of both graphs fail for an identity, an outcome or an
answer that is taken for "nothing".

**HitlGate.** The invariants are not inductive one by one. That no decision is parked under a
key somebody is blocked on needs to know that blocked callers are the registered
ones (`OpenWaitsReachable`); that a decision settles one wait needs to know that
a decision in use is not parked as well, that it has been made, and that an
unsettled wait has none. `Inv` is their conjunction with the type invariant and
`Bookkeeping`, which says the latter: open waits have a key, parked decisions
were made for the key they are parked under, decisions in use or cleared were
made. `DisposeReleasesWaits` is proved from
`Inv`: `dispose()` rejects the registered callers, and by `OpenWaitsReachable` the
others share a key with another wait.

`Implements` maps the initial state to an initial state of `Mailbox` and each
action to one of its actions or to a stutter (`InitMailbox`, `NextMailbox`), in states that satisfy `Inv`:
that a parked decision is a held one needs `Bookkeeping` (one live decision
per key), that a decision is parked only when nobody unshared waits needs
`OpenWaitsReachable`, and that a timer which fires sends away a caller who waits
needs the invariant of `NoLateTimer`.

**AgentLoop.** `Control` says what each place of the generator may rely on;
`Conversation` says of every history there is, the running turn's, the one the application kept
and those of the pauses on disk, that it is `Sound`: each result follows its call or a summary, and
each call is answered, except those of the responses in `cut`, which the code itself leaves
unanswered (see "Findings"), and those of the batch in progress, of whose answers the history ends with a
prefix (`InProgress`). It has to speak of all three because a turn starts from any of them, and of
summaries because a compaction may cut a batch in two. `OnePlace` carries `OneBatchPerDecision`: a decision is with the
turn that resumes, parked in the gate, the answer of one wait or that of the batch about to run,
in one of these at a time, and in none once a batch ran under it. `Restored` is why a finished turn's pause
does not come back: the checkpoint `load()` would return waits for a human only while the turn
it belongs to is running in its round or stopped short of its end.

**DurableCheckpointer.** The queue of microtasks is the heart of it: log entries are queued in the order of
the calls as this process numbered them (`InOrder`), what is queued after an entry decides
whether it stays (`Kept`), the log with the queued entries after it is numbered upwards
(`Numbered`), and the continuation of a `flush()` stands behind all it covers (`Flushes`).
`Recoverable` ties log and snapshots: an entry that stays has a snapshot beside it.
Trying to prove `LogSound` showed that it was too strong as it was stated first: a
thread that is forked and forked back gets older copies of its own entries after newer
ones. That takes one call more than the run makes; the property now excepts copies (`by` is
the process that numbered an entry, `None` in a copy).

**SwarmGraph.** `Progress` says what was finished by the waves counted in memory and in the
checkpoint; `WaveWork` that what is in the store of an agent was written by it and in this
run, and that an agent which threw has left an event nobody has taken yet, which is why a
merge that ends with an empty queue has complete agents. `Ledger` is the budget: what the ended agents cost is what
has been counted plus what is still in the queue. The waves are a recursive function of
the dependencies; `WavesComplete` says it is total exactly where no set of agents waits for
itself or for somebody unknown.

**StateGraph.** The reference replays a history: `StateAfter` and `CompletedIn` go over
the waves one by one and say what each does, from what the nodes returned. The code merges
into what it has. `MergeIsEffect` relates the two, for a wave with any nodes, results and
finish points; `StateAfterStep` and `CompletedInStep` add a wave to a history. `IInv` says of
each call (`Sound`) that what it has in hand is what its history leads to (`Whole`), how many
waves it may have run (`Bounded`, `Placed`), that it is about to end, or has ended, only with a
finish point behind it (`Finishing`), and that it continues every checkpoint there is if
nobody else saved behind it (`Continues`); and of each checkpoint that it is whole.
The proof needs no bound on the length of a wave: the model had one, and has it no more.

**Services.** One service runs in a behaviour, and `ServicesInv` is the invariant of the one that
does; the services are proved apart, each with its own lemmas.
- *MCP client*: a connection is listed or given to a caller only when the call that opens it has
  returned, and is checked only from then on (`OpenedByCall`); one that gave up is left without a
  timer and without a check (`FailedUnchecked`).
- *MCP tokens*: what a save is about to write is what was stored, but for one server, under the key of the key
  file (`SaveInv`): that is why the store can be read between any two of its steps.
- *Workers*: the queue is what comes after the first k assignments (`QueueInOrder`), the results are
  the workers that are done, each once (`ResultsOnce`), and in a pipeline the next worker has seen
  them all (`PipelineNext`). `SignalHeard` says who knows of an abort: everybody, except a parallel call whose
  signal had fired before it began.
- *Handoffs*: each handoff follows a turn, and the turns are those of the history (`TurnsCounted`,
  `TurnsInHistory`); `NoTightLoop` says of every window of turns that the breaker lets through.
- *createAgent*: below the limit the history ends with the calls of the round, or with their answers in the
  order of the calls.
- *Sessions*: the snapshot that waits has all messages of the current session (`PendingLeads`), and a
  save that has still to write the index is the only one the index misses (`IndexFollows`).
- *Memory*: the in-memory backend gives all calls one array. A message appended is in that array
  or in the batch of one call that compresses, in one of them, and once (`OncePresent`, `OnceTaken`,
  `AppendedKept`, `KeptAppended`). With either backend, an append that no other overlaps
  is in the array it works on, or in its batch; once it has ended it is in the history, and in what any later
  append has read (`AloneKept`, which needs that the appends under way are known to overlap, `OverlapsSeen`,
  and that each has an array of its own on disk, `OwnArrays`).
- *Skills*: a registered name that is neither indexed nor evicted since is about to be indexed, by a
  reload that embeds it or by a registration that put it into its map (`SkillsCovered`); and the index
  never has more names than it has room for (`IndexRoom`).

Proving these changed what they say. `NothingUnsaved` failed in one case: a session that is resumed
twice while the timer holds a snapshot of it is set back the first time and goes on, and the second time its file has more
messages than the snapshot, which the timer saves over it. `crossed` marks it, and the property
excepts it; the run was too short to get there, and now gets there. The assumptions of the tokens, the handoffs
and the memory are those the proofs asked for: what is authorized is one of the servers, a limit of
messages, atoms or turns in a row is not zero, and no message is already in the history it is appended to.

**Backends.** `BackendsInv` is the invariant of the part that runs.
- *Channels*: until a request fails and is counted out twice, the listeners are the
  open requests and their number is the count (`CountExact`); after that the count is only bounded by the
  requests there were (`Counted`). `SameOrder` is inductive with it: what one client got ends what the other got.
- *A2A*: the map has the request that came last for an id (`MapIsLast`), which is what `cancel` and `get` see;
  a tool that has been told has been told what was so (`ToolsTold`).
- *REST server*: an execution that runs or has completed is one of a thread, and a checkpoint it
  has loaded or saved is there; what it reports is compared with the checkpoint of that thread.
- *Worktrees*: from the command that adds a branch to the one that deletes it (`Holds`), the branch is there,
  it is not somebody else's, and of the agents whose names agree only one has it. Nothing is assumed of
  the names.
- *PostgreSQL*: `SavedStays` follows a checkpoint from its statement to the loads that come after it;
  `LoadsNewest` is what such a load got; `OwnSaves` and `CopiesStay` carry a fork over its two statements;
  `GoneStays` a delete over its own. `PgTables` says that a row
  has its key to itself and is not of the future; two checkpoints of a graph may share an id,
  and the insert of the second then fails (`PgRefused`).

Here the proof found that `ForksCopied` needed a hypothesis more, `Unmixed`: a thread that was itself
forked holds rows that look like saves of its own, and in the agent's table a graph's checkpoint or a save of
the same round in the new thread takes the place of the row. Seven plans instead of five now show
TLC those cases.

**Induction over data.** The library's induction theorems take operators as parameters, which the
installed provers cannot instantiate. `FiniteInduction` states them with sets and
functions instead: a set of numbers with 0 and the successor of each member has
all of them (`NaturalInduction`); an iteration of a step function exists, stays in
its type, agrees with another as far as their steps agree, and rests where its steps
do. What a recursive function of the model computes (the layers of a swarm, the events that
a fork copies, the flattening and the replay of a history) is proved by giving its step.

Model-checked only:
- the liveness properties (`TimedWaitsSettle`, `EveryTurnEnds`, `SwarmEnds`, `StreamsEnd`,
  `ServicesSettle`): liveness under fairness and ENABLED are out of the proof system's reach;
- `LearningSound`, `TextsSound` and `JudgementsSound`, the algorithms: what a fold or a recursive function
  computes for every input is an induction over data. TLC compares them with their references on every input of the bounds above.

The properties of the five runs of "Findings" are false of the code, and have a counterexample instead.

## Findings

Where the code does something else than its documentation says; details and
lines are in `PROJECT.json`.

- *A decision is applied to calls nobody saw* (`agent_loop_approval`). After a restart the
  resumed turn asks the model again, and applies the decision to the new response.
- *A pause is shadowed* (`agent_loop_pause`). `load()` returns the file of the highest
  round, and files of an earlier, longer turn remain.
- *An aborted swarm reports success* (`swarm_abort`). The signal is looked at before each wave only;
  a wave it cut short is merged and saved as finished.
- *Sequence numbers are not monotonic* (`durable_seq`). A number is taken when `save()`
  is called and written later; a new process starts at one again.
- *Queued nodes are forgotten* (`graph_queued`). A graph stopped between two waves and
  invoked again starts from its START edges, less the completed nodes, and never reads `nextNodes`.
- Without a run, each with the lines it is about in `PROJECT.json`:
  - *Conversations*: a rejection, a handoff within a batch and the restart of a paused turn each leave calls
    without results in a history that is sent again (`cut` marks them, and `ToolCallsAnswered` is about
    the others); a compaction may keep the results of a batch and drop its calls.
  - *Memory*: two appends that overlap on the disk backend, or on the first use of a scope, lose one of the
    messages (`overlaps` marks them); a batch whose compressor throws is lost by the in-memory backend.
  - *Skills*: a registered skill leaves the index when there are more than it holds; a synthesised
    workflow looks up the arguments of each step by the first call of that name, so that a tool called twice is
    called twice with the first arguments, and takes its keys from the first trajectory; the router's table
    is in neither sum of its budget.
  - *Guardrails*: collecting all violations gives another uncertainty (0.75 for 0.70) than stopping at the first,
    and spends the latency budget differently, so that the verdicts may differ.
  - *Durability and recovery*: in exit mode nothing is recorded for `flush()` to write; a swarm's
    checkpoint is deleted on every trip of the breaker; `resume()` merges its update without the
    channel's reducer, and neither counts its waves nor looks for repetition; the trace's exit handler
    is removed by the first flush; a worktree's branch outlives a crash, so that the resumed agent works
    without isolation; of two agents whose names are sanitised and cut to the same, the second removes the
    directory in which the first is at work.
  - *Limits*: a signal that has fired already does not reach a parallel worker call; more than three retries
    of a worker have no effect; a handoff in the turn that spends the budget starts the swarm again;
    the middleware takes a fraction of a fraction of the window; the latency budget of the guardrails
    is looked at when it is spent; the escalation threshold is compared with an uncertainty.
  - *Data*: an agent's shared and own messages never hold what was said in a turn; a vote counts
    responses, not agents; archival chunks all begin at message 0 and have other atoms than L2;
    feedback of a false negative can make the next more likely; a restored threshold has the default
    options; of two spans that overlap one is dropped, with what only it covered; a REST run is never
    "interrupted"; a request that fails is counted out of the broadcaster twice.

Worth knowing, though no document says otherwise:

- `flush()` clears `pendingFlush` after its await, even when a newer `save()` has replaced it
  meanwhile, so that a second `flush()` returns at once while that save is in progress
  (`FlushCovers` is about the flush that waits); `stream()` yields the interrupt event before it
  saves the interrupt's checkpoint.
- Two `connectServer()` calls that overlap leave the client that was replaced open, unlisted and unchecked.
- `createAgent`'s nodes return their whole history to a channel that appends: the messages double with each step.
- Workers of one role overwrite each other's entry in the shared context.
- A canceled A2A task becomes completed when its handler returns.
- A streaming A2A task that throws says why in its last event only, and `tasks/get` finds no error among its messages.
- The cache of reasoning content for DeepSeek is filled and read by a wrapper that nothing calls.
- Both PostgreSQL savers default to the table `chorus_checkpoints`, with different columns.
- With `concurrency` 0 an evaluation never ends, nor does the window splitter with an
  overlap as long as its window.

## Not modelled

The components marked `not_modelled` in `PROJECT.json` say why: the harness's
routing and storage (scores, prompt assembly, file appends) and the tools (checks on
strings followed by I/O; `AgentLoop` has a tool's outcomes). Of the `partly` modelled ones:
model selection of the cost router; the registry and presets of `swarm/`; reading and printing
a trace; `workerPool.ts`, which reads results; the parsing of the MCP configuration and the
SDK's adapters; the loading of skill files; spans and their export; the requests, the
configuration and the registry of the LLM providers, and the fetch wrapper for DeepSeek, which is not in use; settings, agent files and prompts.
Everywhere: prompts, telemetry and formatting, which no property depends on; argument editing in
a decision; what a tool or a node does outside the engine; HTTP; and the database behind the
savers, whose statements are taken as atomic.

The MCP client's listing and calling of tools change no connection, and are left out. Regular
expressions, embeddings and models are their outcomes: that a pattern matches what it should
is not a question for a model of this kind.

## Plan

1. *Done*: the gate, its proofs, its abstract specification and the refinement; the loop over it; the
   durable checkpointer; the swarm graph; the state graph; the services, servers and savers;
   the algorithms.
2. *Proofs*: done for the core, the services, the servers and the savers. Left are the algorithms that go
   through a sequence once (redaction, trimming, votes), with `FiniteInduction` as the state graph does it.
3. *Abstract specifications*: a *durable map* that the sync mode of the durable checkpointer
   implements, and a *sequence of committed waves* that both graph executors implement.
4. *Compositions*: `SwarmGraph` over `Worktrees` and the trace of `SwarmHandoff`; `ReactAgent`
   as a graph of `StateGraph` under `GraphServer`; `StateGraph` over `PostgresSaver`.

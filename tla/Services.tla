------------------------------ MODULE Services ------------------------------
\* The services beside the agent's loop, one of them in each behaviour: they have
\* no state in common, so that all their interleavings would show nothing that
\* each of them alone does not.  The variables of the others stay at None.
EXTENDS Integers, Sequences

CONSTANTS None,
          Keys, Connects, MaxFailures, MaxFaults,               \* McpClient
          Servers, Flowing, MaxTokens, MaxKeys,                 \* McpAuth
          Workers, RoleOf, Modes, MaxRetries,                   \* Workers
          Agents, Initial, Strangers, ContextMode, MaxHandoffs, \* SwarmHandoff
          SameAgentLimit, TokenBudget, CostLimit,
          CallIds, MaxIterations, Policies,                     \* ReactAgent
          SessionIds, MaxTime,                                  \* SessionStore
          MemoryCalls, Op, History, MaxMessages,                \* TieredMemory
          MaxWorkingMemory,
          Names, Registrations, Plan, Reloads, MaxChanges,      \* SkillRegistry
          MaxSize, Disks

VARIABLES service,  \* the one that runs
          config, connected, healthTimer, connect, conn, faults,
          key, store, save, flow, cache, issued, keys, last,
          mode, engine, signal, early, heard, queue, worker, racing, results,
          shared,
          swarm, session, runs, payload, spent, aborted, trace,
          policy, parallel, at, state, executing, ended, supersteps,
          current, pending, files, index, saving, torn, time, crossed,
          backend, established, heap, stored, remember, indexed, ready,
          overlaps, skillFiles, skills, patterns, vectors, loaded, reload, register,
          reloadTimer, changes, closed, onDisk,
          evicted

mcpVars    == <<config, connected, healthTimer, connect, conn, faults>>
authVars   == <<key, store, save, flow, cache, issued, keys, last>>
workersVars == <<mode, engine, signal, early, heard, queue, worker, racing,
          results, shared>>
handoffVars == <<swarm, session, runs, payload, spent, aborted, trace>>
reactVars  == <<policy, parallel, at, state, executing, ended, supersteps>>
sessionsVars == <<current, pending, files, index, saving, torn, time, crossed>>
memoryVars == <<backend, established, heap, stored, remember, indexed, ready,
          overlaps>>
skillsVars == <<skillFiles, skills, patterns, vectors, loaded, reload,
          register, reloadTimer, changes, closed, onDisk, evicted>>

Mcp == INSTANCE McpClient WITH Calls <- Connects, registered <- connected,
    timer <- healthTimer, call <- connect
Auth == INSTANCE McpAuth
Worker == INSTANCE Workers WITH phase <- engine
Handoff == INSTANCE SwarmHandoff WITH Nobody <- None, phase <- swarm
React == INSTANCE ReactAgent
Session == INSTANCE SessionStore
Tiers == INSTANCE TieredMemory WITH Calls <- MemoryCalls, Absent <- None,
    call <- remember
Skills == INSTANCE SkillRegistry WITH Calls <- Registrations,
    files <- skillFiles, index <- vectors, call <- register,
    timer <- reloadTimer, disposed <- closed, ready <- loaded

ASSUME ServicesAssumption ==
    /\ Mcp!McpAssumption
    /\ Auth!AuthBounds
    /\ Worker!WorkersAssumption
    /\ Handoff!SwarmHandoffAssumption
    /\ React!ReactAssumption
    /\ Session!SessionAssumption
    /\ Tiers!TieredAssumption
    /\ Skills!RegistryBounds

\* The variables of a service that does not run
McpUnused == config = None /\ connected = None /\ healthTimer = None
    /\ connect = None /\ conn = None /\ faults = None
AuthUnused == key = None /\ store = None /\ save = None /\ flow = None
    /\ cache = None /\ issued = None /\ keys = None /\ last = None
WorkerUnused == mode = None /\ engine = None /\ signal = None /\ early = None
    /\ heard = None /\ queue = None /\ worker = None /\ racing = None
    /\ results = None /\ shared = None
HandoffUnused == swarm = None /\ session = None /\ runs = None
    /\ payload = None /\ spent = None /\ aborted = None /\ trace = None
ReactUnused == policy = None /\ parallel = None /\ at = None /\ state = None
    /\ executing = None /\ ended = None /\ supersteps = None
SessionUnused == current = None /\ pending = None /\ files = None
    /\ index = None /\ saving = None /\ torn = None /\ time = None
    /\ crossed = None
TiersUnused == backend = None /\ established = None /\ heap = None
    /\ stored = None /\ remember = None /\ indexed = None /\ ready = None
    /\ overlaps = None
SkillsUnused == skillFiles = None /\ skills = None /\ patterns = None
    /\ vectors = None /\ loaded = None /\ reload = None /\ register = None
    /\ reloadTimer = None /\ changes = None /\ closed = None /\ onDisk = None
    /\ evicted = None

Init ==
    /\ service \in {"mcp", "auth", "workers", "handoff", "react", "sessions",
                   "memory", "skills"}
    /\ IF service = "mcp" THEN Mcp!Init ELSE McpUnused
    /\ IF service = "auth" THEN Auth!UInit ELSE AuthUnused
    /\ IF service = "workers" THEN Worker!WInit ELSE WorkerUnused
    /\ IF service = "handoff" THEN Handoff!HInit ELSE HandoffUnused
    /\ IF service = "react" THEN React!RInit ELSE ReactUnused
    /\ IF service = "sessions" THEN Session!SInit ELSE SessionUnused
    /\ IF service = "memory" THEN Tiers!MInit ELSE TiersUnused
    /\ IF service = "skills" THEN Skills!GInit ELSE SkillsUnused

Next ==
    /\ UNCHANGED service
    /\ IF service = "mcp" THEN Mcp!Next ELSE UNCHANGED mcpVars
    /\ IF service = "auth" THEN Auth!UNext ELSE UNCHANGED authVars
    /\ IF service = "workers" THEN Worker!WNext ELSE UNCHANGED workersVars
    /\ IF service = "handoff" THEN Handoff!HNext ELSE UNCHANGED handoffVars
    /\ IF service = "react" THEN React!RNext ELSE UNCHANGED reactVars
    /\ IF service = "sessions" THEN Session!SNext ELSE UNCHANGED sessionsVars
    /\ IF service = "memory" THEN Tiers!MNext ELSE UNCHANGED memoryVars
    /\ IF service = "skills" THEN Skills!GNext ELSE UNCHANGED skillsVars

\* The fairness of each service's own specification, while it is the one that runs
Runs(s) == service = s
Fairness ==
    /\ WF_mcpVars(Runs("mcp") /\ Mcp!Tick)
    /\ \A c \in Connects : /\ WF_mcpVars(Runs("mcp") /\ Mcp!CallStep(c))
                           /\ WF_mcpVars(Runs("mcp") /\ Mcp!CheckStep(c))
    /\ WF_authVars(Runs("auth") /\ Auth!Saves)
    /\ \A s \in Flowing :
          /\ SF_authVars(Runs("auth") /\ Auth!TimesOut(s))
          /\ SF_authVars(Runs("auth") /\ (Auth!ExchangeCodeForTokens(s) \/ Auth!ExchangeFails(s)))
    /\ WF_workersVars(Runs("workers") /\ Worker!Engine)
    /\ \A w \in 1..Workers : WF_workersVars(Runs("workers") /\ Worker!Answer(w))
    /\ WF_handoffVars(Runs("handoff") /\ Handoff!Orchestrate)
    /\ WF_handoffVars(Runs("handoff") /\ Handoff!Turn)
    /\ WF_reactVars(/\ Runs("react")
                    /\ \/ React!AgentFails
                       \/ \E n \in 0..Len(CallIds) : React!AgentNode(SubSeq(CallIds, 1, n)))
    /\ WF_reactVars(Runs("react") /\ (React!Interrupt \/ React!ToolsNode))
    /\ \A i \in DOMAIN CallIds : WF_reactVars(Runs("react") /\ React!Invoke(i))
    /\ \A id \in React!Ids : WF_reactVars(Runs("react") /\ React!InvokeEnds(id))
    /\ WF_sessionsVars(Runs("sessions") /\ Session!SaveIndex)
    /\ WF_sessionsVars(Runs("sessions") /\ Session!TimerFires)
    /\ \A c \in MemoryCalls : WF_memoryVars(Runs("memory") /\ Tiers!Continue(c))
    /\ WF_skillsVars(Runs("skills") /\ Skills!Debounced)
    /\ \A r \in Reloads : WF_skillsVars(Runs("skills") /\ Skills!ReloadEmbedded(r))
    /\ \A c \in Registrations : WF_skillsVars(Runs("skills") /\ (Skills!Ready(c) \/ Skills!Embedded(c)))

vars == <<service, mcpVars, authVars, workersVars, handoffVars, reactVars,
          sessionsVars, memoryVars, skillsVars>>
Spec == Init /\ [][Next]_vars
FairSpec == Spec /\ Fairness

-----------------------------------------------------------------------------
\* Every variable of the service that runs has a value of its type.
ServicesTypeOK ==
    /\ Runs("mcp") => Mcp!TypeOK
    /\ Runs("auth") => Auth!UTypeOK
    /\ Runs("workers") => Worker!WTypeOK
    /\ Runs("handoff") => Handoff!HTypeOK
    /\ Runs("react") => React!RTypeOK
    /\ Runs("sessions") => Session!STypeOK
    /\ Runs("memory") => Tiers!MTypeOK
    /\ Runs("skills") => Skills!GTypeOK

\* The connections of the MCP client and the tokens they need: whatever
\* connects, reloads, health checks, authorizations and saves overlap, a
\* listed server is checked, no caller is given a connection of an old
\* configuration, reconnecting stops, and the token last stored is the one in
\* the file (mcp/client.ts, mcp/auth.ts).
ConnectionsSafe ==
    /\ Runs("mcp") => Mcp!McpSafe
    /\ Runs("auth") => Auth!AuthSafe

\* Agents that work together: no more workers at a time than allowed and none
\* begun after an abort, a stage sees what the stages before it found, a swarm
\* that goes round in circles is stopped, a trace is flushed, a tool that needs
\* an approval does not run without it (harness/workerEngine.ts, swarm/, graph/create-agent.ts).
TeamsSafe ==
    /\ Runs("workers") => Worker!WorkersSafe
    /\ Runs("handoff") => Handoff!HandoffSafe
    /\ Runs("react") => React!ReactSafe

\* What is stored: the session in memory is on its way to the disk and the
\* index agrees with the files; no message of an append that no other append
\* overlaps leaves the history without being taken up, nor of any that share the
\* array the in-memory backend holds; and a skill that is registered can be
\* searched for until the index lets go of it for want of room
\* (session/manager.ts, memory/index.ts, skills/).
RecordsSafe ==
    /\ Runs("sessions") => Session!SessionSafe
    /\ Runs("memory") => Tiers!TieredSafe
    /\ Runs("skills") => Skills!RegistrySafe
=============================================================================

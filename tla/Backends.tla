------------------------------ MODULE Backends ------------------------------
\* The servers, the Postgres savers and the worktrees, one of them in each
\* behaviour: like the services they have no state in common, and the variables
\* of the others stay at None.
EXTENDS Integers, Sequences, FiniteSets

CONSTANTS None,
          Clients, Sessions, MaxEvents,              \* Channels
          Sends, TaskIds, MaxChunks, MaxCancels,     \* A2aTasks
          Threads, Executions,                       \* GraphServer
          Agents, SafeName, Foreign,                 \* Worktrees
          MaxCrashes, MaxFailures,
          Calls, Plans, MaxTime                      \* PostgresSaver

VARIABLES part,   \* the one that runs
          listeners, subscriberCount, heartbeat, client, disposed,
          tasks, task, tool, cancels,
          threads, saved, patched, exec,
          dirs, registered, branches, work, displaced, crashes, failures,
          saver, plan, rows, events, initialized, now, call

channelsVars == <<listeners, subscriberCount, heartbeat, client, disposed>>
a2aVars   == <<tasks, task, tool, cancels>>
restVars  == <<threads, saved, patched, exec>>
worktreesVars == <<dirs, registered, branches, work, displaced, crashes, failures>>
postgresVars == <<saver, plan, rows, events, initialized, now, call>>

Channel == INSTANCE Channels
A2a == INSTANCE A2aTasks WITH Absent <- None
Rest == INSTANCE GraphServer
Tree == INSTANCE Worktrees
Postgres == INSTANCE PostgresSaver WITH Absent <- None

ASSUME BackendsAssumption ==
    /\ Channel!ChannelsAssumption
    /\ A2a!A2aAssumption
    /\ Rest!GraphServerAssumption
    /\ Tree!WorktreeBounds
    /\ Postgres!PostgresAssumption

\* The variables of a part that does not run
ChannelUnused == listeners = None /\ subscriberCount = None /\ heartbeat = None
    /\ client = None /\ disposed = None
A2aUnused == tasks = None /\ task = None /\ tool = None /\ cancels = None
RestUnused == threads = None /\ saved = None /\ patched = None /\ exec = None
TreeUnused == dirs = None /\ registered = None /\ branches = None
    /\ work = None /\ displaced = None /\ crashes = None /\ failures = None
PostgresUnused == saver = None /\ plan = None /\ rows = None /\ events = None
    /\ initialized = None /\ now = None /\ call = None

Init ==
    /\ part \in {"channels", "a2a", "rest", "worktrees", "postgres"}
    /\ IF part = "channels" THEN Channel!CInit ELSE ChannelUnused
    /\ IF part = "a2a" THEN A2a!AInit ELSE A2aUnused
    /\ IF part = "rest" THEN Rest!GInit ELSE RestUnused
    /\ IF part = "worktrees" THEN Tree!TInit ELSE TreeUnused
    /\ IF part = "postgres" THEN Postgres!PInit ELSE PostgresUnused

Next ==
    /\ UNCHANGED part
    /\ IF part = "channels" THEN Channel!CNext ELSE UNCHANGED channelsVars
    /\ IF part = "a2a" THEN A2a!ANext ELSE UNCHANGED a2aVars
    /\ IF part = "rest" THEN Rest!GNext ELSE UNCHANGED restVars
    /\ IF part = "worktrees" THEN Tree!TNext ELSE UNCHANGED worktreesVars
    /\ IF part = "postgres" THEN Postgres!PNext ELSE UNCHANGED postgresVars

vars == <<part, channelsVars, a2aVars, restVars, worktreesVars, postgresVars>>
Spec == Init /\ [][Next]_vars

-----------------------------------------------------------------------------
\* The servers others connect to, with the type of their state: a stream's
\* events come in order and end once, a tool is told what its task became,
\* subscribers keep a heartbeat and see the events in one order, and a run
\* reported as completed has left a checkpoint (a2a/, channels/,
\* graph/rest-server.ts).
ServersSafe ==
    /\ part = "a2a" => A2a!ATypeOK /\ A2a!A2aSafe
    /\ part = "channels" => Channel!CTypeOK /\ Channel!ChannelsSafe
    /\ part = "rest" => Rest!GTypeOK /\ Rest!ReportsAgree

\* What the Postgres savers and the worktrees keep, with the type of their
\* state: a load gives nothing older than what was saved before it, a fork is
\* whole, what is deleted is gone, the worktree an agent was given stays unless
\* an agent of the same name takes it for a stale one, no two agents work in
\* one, and the branches of others stay (agent/postgres-checkpointer.ts,
\* graph/postgres-saver.ts, swarm/worktree.ts).
StoresSafe ==
    /\ part = "postgres" => Postgres!PTypeOK /\ Postgres!PostgresSafe
    /\ part = "worktrees" => Tree!TTypeOK /\ Tree!WorktreesSafe
=============================================================================

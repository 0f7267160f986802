--------------------------- MODULE PostgresSaver ---------------------------
(***************************************************************************)
(* The two Postgres checkpointers: the agent's, whose rows are replaced by *)
(* round (agent/postgres-checkpointer.ts), and the graph's, whose rows are *)
(* only added (graph/postgres-saver.ts).  A call is one or two statements; *)
(* each is atomic, and the statements of calls that overlap are executed   *)
(* in any order.  The connection may be lost before a statement is         *)
(* executed or before its answer arrives: the call throws.                 *)
(***************************************************************************)
EXTENDS Integers, FiniteSets

CONSTANTS Calls,      \* the calls that are made on the saver
          Plans,      \* what the calls are: sets of [op, thread, round, to] by call
          MaxTime,    \* bound: how often the clock ticks
          Absent      \* no row

Ops == {"save", "graph", "load", "loadAt", "fork", "delete", "append"}
PlanThreads == UNION {{p[c].thread, p[c].to} : p \in Plans, c \in Calls}
\* A row: what identifies it in its thread, whose checkpoint it is, what it
\* holds, its order
Rows == [thread : PlanThreads, id : {"cp", "graph"} \X Nat \X Nat, type : {"agent", "graph"},
         state : Calls, round : Nat, time : Nat]
PostgresAssumption ==
    /\ Plans \subseteq [Calls -> [op : Ops, thread : PlanThreads, round : Nat, to : PlanThreads]]
    /\ Absent \notin Rows /\ MaxTime \in Nat

VARIABLES saver,      \* which of the two classes
          plan,       \* the calls of this behaviour
          rows,       \* the checkpoints table
          events,     \* the event log table
          initialized,
          now,
          call
pvars == <<saver, plan, rows, events, initialized, now, call>>

Returned == {c \in Calls : call[c].at = "ok"}
Thread(c) == plan[c].thread

AgentRow(thread, round, state) ==
    [thread |-> thread, id |-> <<"cp", round, 0>>, type |-> "agent", state |-> state,
     round |-> round, time |-> 0]
GraphRow(thread, round, state, time) ==
    [thread |-> thread, id |-> <<"cp", round, time>>, type |-> "agent", state |-> state,
     round |-> round, time |-> time]
\* saveGraphCheckpoint: the graph's id is its thread, wave and millisecond, so
\* that of two with the same wave in one millisecond the second replaces the
\* first or is refused; the graph's saver names what it saves for an agent alike
CheckpointRow(c) ==
    [thread |-> Thread(c), type |-> "graph", state |-> c, round |-> plan[c].round,
     id |-> <<IF saver = "agent" THEN "graph" ELSE "cp", plan[c].round, call[c].time>>,
     time |-> call[c].time]

Same(r, s) == r.thread = s.thread /\ r.id = s.id
Conflicts(row) == \E r \in rows : Same(r, row)
Upsert(row) == {r \in rows : ~Same(r, row)} \cup {row}

\* ORDER BY wave_count DESC, or created_at DESC; LIMIT 1
Rank(r) == IF saver = "agent" THEN r.round ELSE r.time
MutNewest(S) == {r \in S : \A s \in S : Rank(r) <= Rank(s)}
Newest(S) == {r \in S : \A s \in S : Rank(r) >= Rank(s)}
\* the graph's saver keeps the two kinds of checkpoints apart
Visible(thread) ==
    {r \in rows : r.thread = thread /\ (saver = "graph" => r.type = "agent")}
Found(c) ==
    IF plan[c].op = "load" THEN Visible(Thread(c))
    ELSE {r \in Visible(Thread(c)) : r.round = plan[c].round}

PInit ==
    /\ saver \in {"agent", "graph"} /\ plan \in Plans
    /\ rows = {} /\ events = {} /\ now = 0
    /\ initialized = (saver = "graph")     \* its setup() is the caller's
    /\ call = [c \in Calls |-> [at |-> "idle", time |-> 0, got |-> Absent, after |-> {}]]

Offered(c) == saver = "graph" => plan[c].op # "append"
Begin(c) ==
    /\ call[c].at = "idle" /\ Offered(c)
    /\ call' = [call EXCEPT ![c] = [at |-> IF initialized THEN "sent" ELSE "setup", time |-> now,
                                    got |-> Absent, after |-> Returned]]
    /\ UNCHANGED <<saver, plan, rows, events, initialized, now>>

\* ensureSetup(): CREATE TABLE IF NOT EXISTS of two sessions at once may fail
SetUp(c) ==
    /\ call[c].at = "setup"
    /\ initialized' = TRUE
    /\ call' = [call EXCEPT ![c].at = "sent"]
    /\ UNCHANGED <<saver, plan, rows, events, now>>
SetUpFails(c) ==
    /\ call[c].at = "setup"
    /\ \E d \in Calls \ {c} : call[d].at # "idle"
    /\ call' = [call EXCEPT ![c].at = "failed"]
    /\ UNCHANGED <<saver, plan, rows, events, initialized, now>>

Step(c, at, got) == call' = [call EXCEPT ![c].at = at, ![c].got = got]
Insert(c, row) ==       \* a plain INSERT: the unique key refuses a second one
    IF Conflicts(row) THEN Step(c, "failed", Absent) /\ UNCHANGED rows
    ELSE Step(c, "answered", Absent) /\ rows' = rows \cup {row}

Save(c) ==
    /\ call[c].at = "sent" /\ plan[c].op = "save"
    /\ IF saver = "agent"
       THEN /\ rows' = Upsert(AgentRow(Thread(c), plan[c].round, c))
            /\ Step(c, "answered", Absent)
       ELSE Insert(c, GraphRow(Thread(c), plan[c].round, c, call[c].time))
    /\ UNCHANGED <<saver, plan, events, initialized, now>>

SaveGraphCheckpoint(c) ==
    /\ call[c].at = "sent" /\ plan[c].op = "graph"
    /\ IF saver = "agent"
       THEN rows' = Upsert(CheckpointRow(c)) /\ Step(c, "answered", Absent)
       ELSE Insert(c, CheckpointRow(c))
    /\ UNCHANGED <<saver, plan, events, initialized, now>>

Load(c) ==
    /\ call[c].at = "sent" /\ plan[c].op \in {"load", "loadAt"}
    /\ \E got \in IF Found(c) = {} THEN {Absent} ELSE Newest(Found(c)) : Step(c, "answered", got)
    /\ UNCHANGED <<saver, plan, rows, events, initialized, now>>

\* fork: one INSERT .. SELECT, or loadAt() and then save()
Fork(c) ==
    /\ call[c].at = "sent" /\ plan[c].op = "fork"
    /\ IF Found(c) = {} THEN Step(c, "answered", Absent) /\ UNCHANGED rows
       ELSE \E r \in Newest(Found(c)) :
              IF saver = "agent" THEN Insert(c, AgentRow(plan[c].to, plan[c].round, r.state))
              ELSE /\ call' = [call EXCEPT ![c].at = "copying", ![c].got = r, ![c].time = now]
                   /\ UNCHANGED rows
    /\ UNCHANGED <<saver, plan, events, initialized, now>>
ForkSaves(c) ==
    /\ call[c].at = "copying"
    /\ Insert(c, GraphRow(plan[c].to, call[c].got.round, call[c].got.state, call[c].time))
    /\ UNCHANGED <<saver, plan, events, initialized, now>>

Delete(c) ==
    /\ call[c].at = "sent" /\ plan[c].op = "delete"
    /\ rows' = {r \in rows : r.thread # Thread(c)}
    /\ Step(c, IF saver = "agent" THEN "events" ELSE "answered", Absent)
    /\ UNCHANGED <<saver, plan, events, initialized, now>>
DeleteEvents(c) ==
    /\ call[c].at = "events"
    /\ events' = {e \in events : e.thread # Thread(c)}
    /\ Step(c, "answered", Absent)
    /\ UNCHANGED <<saver, plan, rows, initialized, now>>

AppendEvent(c) ==       \* ON CONFLICT DO NOTHING
    /\ call[c].at = "sent" /\ plan[c].op = "append"
    /\ events' = IF \E e \in events : e.thread = Thread(c) /\ e.seq = plan[c].round THEN events
                 ELSE events \cup {[thread |-> Thread(c), seq |-> plan[c].round, payload |-> c]}
    /\ Step(c, "answered", Absent)
    /\ UNCHANGED <<saver, plan, rows, initialized, now>>

Returns(c) ==
    /\ call[c].at = "answered"
    /\ call' = [call EXCEPT ![c].at = "ok"]
    /\ UNCHANGED <<saver, plan, rows, events, initialized, now>>
Throws(c) ==
    /\ call[c].at \in {"setup", "sent", "copying", "events", "answered"}
    /\ call' = [call EXCEPT ![c].at = "failed"]
    /\ UNCHANGED <<saver, plan, rows, events, initialized, now>>
Tick ==
    /\ now < MaxTime /\ now' = now + 1
    /\ UNCHANGED <<saver, plan, rows, events, initialized, call>>

Executes(c) ==
    \/ SetUp(c) \/ Save(c) \/ SaveGraphCheckpoint(c) \/ Load(c) \/ Fork(c) \/ ForkSaves(c)
    \/ Delete(c) \/ DeleteEvents(c) \/ AppendEvent(c)
PNext ==
    \/ \E c \in Calls : Begin(c) \/ SetUpFails(c) \/ Executes(c) \/ Returns(c) \/ Throws(c)
    \/ Tick
PSpec == PInit /\ [][PNext]_pvars

PTypeOK ==
    /\ saver \in {"agent", "graph"} /\ plan \in Plans /\ initialized \in BOOLEAN /\ now \in 0..MaxTime
    /\ \A r \in rows : r.state \in Calls /\ r.time \in 0..MaxTime
    /\ \A r, s \in rows : Same(r, s) => r = s
    /\ \A c \in Calls : /\ call[c].at \in {"idle", "setup", "sent", "copying", "events",
                                           "answered", "ok", "failed"}
                        /\ call[c].got # Absent => call[c].got.thread = Thread(c)

-----------------------------------------------------------------------------
Begun(c) == call[c].at # "idle"
\* No delete of the thread can have taken away what s wrote
Kept(s, thread) ==
    \A d \in Calls : (plan[d].op = "delete" /\ Thread(d) = thread /\ Begun(d)) => d \in call[s].after

\* A load that begins when a save has returned finds it, or a newer one:
\* calls that overlap and run out of order never bring an older round back
\* (postgres-checkpointer.ts:128-137, postgres-saver.ts:153-158).
NothingOlder ==
    \A l \in Returned, s \in Calls :
        (/\ plan[l].op = "load" /\ plan[s].op = "save" /\ Thread(s) = Thread(l)
         /\ s \in call[l].after /\ Kept(s, Thread(s)))
        => /\ call[l].got # Absent
           /\ IF saver = "agent" THEN call[l].got.round >= plan[s].round
              ELSE call[l].got.time >= call[s].time

Writes(c) == IF plan[c].op = "fork" THEN plan[c].to ELSE Thread(c)

\* The thread that is copied has no copies of others, nor checkpoints of a graph
\* where they look like its own, and the new one is not saved over: the agent's
\* saver keeps one row of a round.
Unmixed(f) ==
    \A w \in Calls : Begun(w) =>
        /\ Writes(w) = Thread(f) => plan[w].op # "fork"
        /\ saver = "agent" /\ Thread(w) = Thread(f) => plan[w].op # "graph"
        /\ saver = "agent" /\ Thread(w) = plan[f].to => plan[w].op # "save"

\* A fork that returns has given the new thread a checkpoint of that round
\* of the source, if one had been saved before the fork began
\* (postgres-checkpointer.ts:187-198, postgres-saver.ts:186-194).
ForksCopied ==
    \A f \in Returned, s \in Calls :
        (/\ plan[f].op = "fork" /\ plan[s].op = "save" /\ Thread(s) = Thread(f)
         /\ plan[s].round = plan[f].round /\ s \in call[f].after
         /\ Kept(s, Thread(s)) /\ Kept(f, plan[f].to) /\ Unmixed(f))
        => \E r \in rows : /\ r.thread = plan[f].to /\ r.round = plan[f].round
                           /\ plan[r.state].op = "save" /\ Thread(r.state) = Thread(f)

\* What a delete has returned for is gone, checkpoints and events, unless a
\* call that writes the thread overlapped the delete or came after it.
DeletedGone ==
    \A d \in Returned :
        (/\ plan[d].op = "delete"
         /\ \A w \in Calls : (Writes(w) = Thread(d) /\ Begun(w) /\ w # d
                               /\ plan[w].op \notin {"load", "loadAt", "delete"})
                              => w \in call[d].after)
        => \A r \in rows \cup events : r.thread # Thread(d)

PostgresSafe == NothingOlder /\ ForksCopied /\ DeletedGone
=============================================================================

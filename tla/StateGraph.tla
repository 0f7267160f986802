----------------------------- MODULE StateGraph -----------------------------
(***************************************************************************)
(* CompiledGraph, src/graph/state-graph.ts, for one thread of one graph:   *)
(* stream() runs the nodes of a wave in parallel, merges their outputs,    *)
(* computes the next wave and saves a checkpoint; resume() goes on from a  *)
(* checkpoint; updateState() rewrites one.  Each call is a run here; runs  *)
(* of one thread may overlap, and stop anywhere, when the consumer leaves  *)
(* or the process dies.                                                    *)
(*                                                                         *)
(* The state is one append channel: who wrote, in what order.  A node, its *)
(* hooks and its router do anything the graph allows: it returns an output,*)
(* empty or not, fans out with Send objects, interrupts, fails or hangs;   *)
(* its router picks one of the targets listed.                             *)
(*                                                                         *)
(* load() orders checkpoints by created_at, in milliseconds: of several    *)
(* saved in one millisecond it may return any.                             *)
(***************************************************************************)
EXTENDS Integers, FiniteSets, Sequences, SequencesExt

CONSTANTS Nodes,
          Graphs,          \* see GraphType
          Runs,            \* calls of stream(), resume() and updateState(),
                           \* numbered in the order they are made
          ResumeNodes,     \* nodes a Command may name to resume from
          MaxResumed,      \* bound on the waves of a resumed run
          MaxActive,       \* bound on the runs in progress at once
          None

GraphType == [start : Seq(Nodes),              \* targets of the START edges
              edges : [Nodes -> Seq(Nodes)],   \* of static edges, without END
              routes : [Nodes -> SUBSET Seq(Nodes)], \* what its router may return
              sends : [Nodes -> SUBSET Seq(Nodes)],  \* its Send fan-outs
              silent : SUBSET Nodes,           \* return an empty output
              interrupts : SUBSET Nodes,       \* may throw GraphInterrupt
              finish : SUBSET Nodes,           \* finish points
              recursionLimit : Nat]

\* What a node's promise settles with.
Results == [what : {"write", "nothing", "send", "error"}, sends : Seq(Nodes)]
Outcomes == {"end", "interrupt", "deadlock", "failed", "stopped", "updated"}

ASSUME GraphAssumption ==
    /\ Nodes \subseteq Nat /\ IsFiniteSet(Nodes) /\ Runs \subseteq Nat
    /\ ResumeNodes \subseteq Nodes
    /\ None \notin Nodes /\ None \notin Results /\ None \notin Outcomes
    /\ Graphs \subseteq GraphType
    /\ MaxResumed \in Nat /\ MaxActive \in Nat

VARIABLES graph,
          latest,  \* the checkpoints with the greatest created_at
          run      \* the calls: see Unused
vars == <<graph, latest, run>>

\* Entries of the channel.
Output(n) == [by |-> n, kind |-> "output"]
Arg(n) == [by |-> n, kind |-> "arg"]       \* the argument of a Send to n
Update == [by |-> 0, kind |-> "update"]    \* an input, or an update of the state

\* What a run does to the state, in the order it does it.
Step(kind) == [kind |-> kind, nodes |-> <<>>, results |-> <<>>]
Wave(r) == [kind |-> run[r].kind, nodes |-> run[r].runnable,
            results |-> run[r].results]

NoCheckpoint == [state |-> <<>>, completed |-> {}, next |-> <<>>,
                 waveCount |-> 0, trace |-> <<>>]

Unused == [kind |-> None, pc |-> "unused", outcome |-> None,
           state |-> <<>>, completed |-> {}, waveCount |-> 0,
           runnable |-> <<>>, results |-> <<>>, seen |-> {},
           after |-> None, waves |-> 0,
           \* History: the waves that led to the state; whether the checkpoint
           \* this run loaded or saved is still the only latest one; the nodes
           \* queued in the one it loaded, if it was the only run then, and the
           \* nodes it has finished; whether resume() overwrote the channel.
           trace |-> <<>>, alone |-> FALSE, queued |-> {}, ran |-> {},
           overlaid |-> FALSE]

(***************************************************************************)
(* compile(): the entry point exists, and no cycle of static edges.        *)
(***************************************************************************)
Reachable(g, n) ==
    LET reach[k \in 0..Cardinality(Nodes)] ==
            IF k = 0 THEN ToSet(g.edges[n])
            ELSE reach[k - 1] \cup
                     UNION {ToSet(g.edges[m]) : m \in reach[k - 1]}
    IN reach[Cardinality(Nodes)]

DetectCycles(g) == \E n \in Nodes : n \in Reachable(g, n)

Compiles(g) == g.start # <<>> /\ ~DetectCycles(g)

Init ==
    /\ graph \in {g \in Graphs : Compiles(g)}
    /\ latest = {}
    /\ run = [r \in Runs |-> Unused]

(***************************************************************************)
(* Starting a run                                                          *)
(***************************************************************************)
GetInitialRunnable(completed) ==
    FlattenSeq([i \in DOMAIN graph.start |->
                   IF graph.start[i] \in completed THEN <<>>
                   ELSE <<graph.start[i]>>])

\* An input that is laid over the checkpoint, and not the other way round.
MutRestored(input, cp) == input
Restored(input, cp) == cp.state

Active == {r \in Runs : run[r].pc \notin {"unused", "ended"}}

Loads(r, cp) ==
    /\ run[r].pc = "unused"
    /\ Cardinality(Active) < MaxActive
    /\ \A q \in Runs : q < r => run[q].pc # "unused"
    /\ \/ cp \in latest
       \/ latest = {} /\ cp = NoCheckpoint

From(cp, kind) ==
    [Unused EXCEPT !.kind = kind,
                   !.completed = cp.completed, !.waveCount = cp.waveCount,
                   !.alone = latest \subseteq {cp},
                   !.queued = IF Active = {} THEN ToSet(cp.next) ELSE {}]

\* stream(): the checkpoint, if there is one, replaces the input.
Stream(r) ==
    \E cp \in latest \cup {NoCheckpoint} :
        /\ Loads(r, cp)
        /\ LET input == <<Update>>
               fresh == latest = {}
           IN run' = [run EXCEPT ![r] =
                  [From(cp, "stream") EXCEPT
                      !.pc = "top",
                      !.state = IF fresh THEN input ELSE Restored(input, cp),
                      !.trace = IF fresh THEN <<Step("update")>>
                                ELSE cp.trace,
                      !.runnable = GetInitialRunnable(cp.completed)]]
        /\ UNCHANGED <<graph, latest>>

\* resume(): its update is laid over the state without the channel's reducer;
\* the node named is run, else the first of the queued ones, and no other.
Resume(r, overlay, named) ==
    \E cp \in latest :
        /\ Loads(r, cp)
        /\ named # None \/ cp.next # <<>>
        /\ run' = [run EXCEPT ![r] =
               [From(cp, "resume") EXCEPT
                   !.pc = "wave",
                   !.queued = IF named = None THEN @ ELSE {},
                   !.state = IF overlay THEN <<Update>> ELSE cp.state,
                   !.trace = IF overlay THEN Append(cp.trace, Step("overlay"))
                             ELSE cp.trace,
                   !.overlaid = overlay,
                   !.runnable = IF named = None THEN <<Head(cp.next)>>
                                ELSE <<named>>,
                   !.results = <<None>>]]
        /\ UNCHANGED <<graph, latest>>

UpdateState(r) ==
    \E cp \in latest :
        /\ Loads(r, cp)
        /\ run' = [run EXCEPT ![r] =
               [From(cp, "update") EXCEPT
                   !.pc = "saving", !.after = "updated",
                   !.state = Append(cp.state, Update),
                   !.trace = Append(cp.trace, Step("update")),
                   !.runnable = cp.next]]
        /\ UNCHANGED <<graph, latest>>

(***************************************************************************)
(* The top of the loop: begin a wave, or end.  Only stream() counts its    *)
(* waves, compares fingerprints and looks for a deadlock.                  *)
(***************************************************************************)
Ended(r, how) ==
    LET over == [Unused EXCEPT !.kind = run[r].kind, !.pc = "ended",
                               !.outcome = how]
    IN [run EXCEPT ![r] =
           IF how # "end" THEN over
           ELSE [over EXCEPT !.completed = run[r].completed,
                             !.queued = run[r].queued, !.ran = run[r].ran]]

AtTop(r) == run[r].pc = "top" /\ run[r].runnable # <<>>

MutOverLimit(r) == run[r].waveCount > graph.recursionLimit
OverLimit(r) == run[r].waveCount >= graph.recursionLimit

Fingerprint(r) == <<run[r].state, run[r].completed>>

BeginsWave(r) ==
    [run EXCEPT ![r].pc = "wave",
                ![r].results = [i \in DOMAIN run[r].runnable |-> None]]

StreamWave(r) ==
    /\ AtTop(r) /\ run[r].kind = "stream"
    /\ ~OverLimit(r)
    /\ Fingerprint(r) \notin run[r].seen
    /\ run' = [BeginsWave(r) EXCEPT ![r].waveCount = @ + 1,
                                    ![r].seen = @ \cup {Fingerprint(r)}]
    /\ UNCHANGED <<graph, latest>>

ResumedWave(r) ==
    /\ AtTop(r) /\ run[r].kind = "resume"
    /\ run[r].waves < MaxResumed
    /\ run' = BeginsWave(r)
    /\ UNCHANGED <<graph, latest>>

\* Recursion limit, repeated fingerprint.
WaveRefused(r) ==
    /\ AtTop(r) /\ run[r].kind = "stream"
    /\ OverLimit(r) \/ Fingerprint(r) \in run[r].seen
    /\ run' = Ended(r, "failed")
    /\ UNCHANGED <<graph, latest>>

\* Aborted, or past the total timeout.
WaveAborted(r) ==
    /\ AtTop(r)
    /\ run' = Ended(r, "failed")
    /\ UNCHANGED <<graph, latest>>

MutDeadlocked(r) == FALSE
Deadlocked(r) ==
    /\ run[r].kind = "stream"
    /\ graph.finish # {} /\ graph.finish \cap run[r].completed = {}

NothingRunnable(r) ==
    /\ run[r].pc = "top" /\ run[r].runnable = <<>>
    /\ run' = Ended(r, IF Deadlocked(r) THEN "deadlock" ELSE "end")
    /\ UNCHANGED <<graph, latest>>

(***************************************************************************)
(* A wave: its nodes settle in any order.  Promise.all waits for all of    *)
(* them, but rejects with the first interrupt.                             *)
(***************************************************************************)
Wrote == [what |-> "write", sends |-> <<>>]
Nothing == [what |-> "nothing", sends |-> <<>>]
Sent(targets) == [what |-> "send", sends |-> targets]
Error == [what |-> "error", sends |-> <<>>]

Running(r, i) == run[r].pc = "wave" /\ i \in DOMAIN run[r].runnable
                 /\ run[r].results[i] = None

Settles(r, i, result) ==
    /\ Running(r, i)
    /\ run' = [run EXCEPT ![r].results[i] = result]
    /\ UNCHANGED <<graph, latest>>

NodeReturns(r, i) ==
    /\ Running(r, i)
    /\ \E result \in {IF run[r].runnable[i] \in graph.silent THEN Nothing
                      ELSE Wrote}
                     \cup {Sent(s) : s \in graph.sends[run[r].runnable[i]]} :
           Settles(r, i, result)

MutTimesOut(r, i) == FALSE
TimesOut(r, i) == Running(r, i)

\* The node throws, or its timeout fires first.
NodeFails(r, i) == TimesOut(r, i) /\ Settles(r, i, Error)

(***************************************************************************)
(* mergeOutputs, in the order the nodes are listed in the wave, as far as  *)
(* the first finish point; then the arguments of the Sends.                *)
(***************************************************************************)
Finishers(r) == {i \in DOMAIN run[r].runnable : run[r].runnable[i] \in graph.finish}

Used(r) ==
    IF Finishers(r) = {} THEN DOMAIN run[r].runnable
    ELSE 1..(CHOOSE i \in Finishers(r) : \A j \in Finishers(r) : i <= j)

Written(r, used) ==
    FlattenSeq([i \in used |-> IF run[r].results[i] = Wrote
                               THEN <<Output(run[r].runnable[i])>> ELSE <<>>])

\* extractSends is called by stream() only.
Sends(r) ==
    IF run[r].kind = "resume" THEN <<>>
    ELSE FlattenSeq([i \in Used(r) |-> run[r].results[i].sends])

Args(r) == [i \in DOMAIN Sends(r) |-> Arg(Sends(r)[i])]

\* The members of s, each once (a Set of the code keeps the first of equals).
Distinct(s) ==
    LET distinct[n \in 0..Len(s)] ==
            IF n = 0 THEN <<>>
            ELSE LET before == distinct[n - 1]
                 IN IF s[n] \in ToSet(before) THEN before
                    ELSE Append(before, s[n])
    IN distinct[Len(s)]

\* getNextRunnable
GetNextRunnable(justRan, route) ==
    Distinct(FlattenSeq([i \in DOMAIN justRan |->
                 graph.edges[justRan[i]] \o route[justRan[i]]]))

Settled(r) ==
    /\ run[r].pc = "wave"
    /\ \A i \in DOMAIN run[r].runnable : run[r].results[i] # None

NodeErrors(r) == \E i \in DOMAIN run[r].results : run[r].results[i] = Error

\* An error of any node ends the run, and nothing of the wave is saved.
WaveFails(r) ==
    /\ Settled(r) /\ NodeErrors(r)
    /\ run' = Ended(r, "failed")
    /\ UNCHANGED <<graph, latest>>

\* "merged" without the Sends' arguments: a finish point returns before them.
Merged(r, args) ==
    [run EXCEPT
        ![r].state = @ \o Written(r, Used(r)) \o args,
        ![r].completed = @ \cup {run[r].runnable[i] : i \in Used(r)},
        ![r].ran = @ \cup {run[r].runnable[i] : i \in Used(r)},
        ![r].trace = Append(@, Wave(r)),
        ![r].waves = @ + 1,
        ![r].results = <<>>]

WaveFinishes(r) ==
    /\ Settled(r) /\ ~NodeErrors(r) /\ Finishers(r) # {}
    /\ run' = [Merged(r, <<>>) EXCEPT ![r].pc = "saving", ![r].after = "end",
                                      ![r].runnable = <<>>]
    /\ UNCHANGED <<graph, latest>>

Routes == {route \in [Nodes -> UNION {graph.routes[n] : n \in Nodes}] :
               \A n \in Nodes : route[n] \in graph.routes[n]}

\* resume() saves nothing after the node it resumed.
WaveMerged(r) ==
    /\ Settled(r) /\ ~NodeErrors(r) /\ Finishers(r) = {}
    /\ \E route \in Routes :
           run' = [Merged(r, Args(r)) EXCEPT
               ![r].pc = IF run[r].kind = "resume" /\ run[r].waves = 0
                         THEN "top" ELSE "saving",
               ![r].after = "top",
               ![r].runnable = GetNextRunnable(run[r].runnable, route)
                               \o Sends(r)]
    /\ UNCHANGED <<graph, latest>>

\* An interrupt that saves what its siblings have written so far.
MutInterruptedState(r) == run[r].state \o Written(r, DOMAIN run[r].runnable)
InterruptedState(r) == run[r].state

\* The first interrupt ends the wave: stream() queues that node again, and its
\* siblings are given up; resume() throws.
NodeInterrupts(r, i) ==
    /\ Running(r, i)
    /\ run[r].runnable[i] \in graph.interrupts
    /\ run' = IF run[r].kind = "resume" THEN Ended(r, "failed")
              ELSE [run EXCEPT ![r].pc = "saving", ![r].after = "interrupt",
                               ![r].state = InterruptedState(r),
                               ![r].runnable = <<run[r].runnable[i]>>,
                               ![r].results = <<>>]
    /\ UNCHANGED <<graph, latest>>

(***************************************************************************)
(* saveCheckpoint.  The checkpoint's id is made of the wave count and the  *)
(* time: the database refuses a second one of the same millisecond.        *)
(***************************************************************************)
Checkpoint(r) ==
    [state |-> run[r].state, completed |-> run[r].completed,
     next |-> run[r].runnable, waveCount |-> run[r].waveCount,
     trace |-> run[r].trace]

Taken(r) == \E cp \in latest : cp.waveCount = run[r].waveCount

SaveCheckpoint(r, sameMillisecond) ==
    /\ run[r].pc = "saving"
    /\ ~(sameMillisecond /\ Taken(r))
    /\ latest' = IF sameMillisecond THEN latest \cup {Checkpoint(r)}
                 ELSE {Checkpoint(r)}
    /\ LET after == IF run[r].after = "top"
                    THEN [run[r] EXCEPT !.pc = "top",
                                        !.alone = latest' = {Checkpoint(r)}]
                    ELSE Ended(r, run[r].after)[r]
       IN run' = [q \in Runs |-> IF q = r THEN after
                                 ELSE [run[q] EXCEPT !.alone = FALSE]]
    /\ UNCHANGED graph

SaveRefused(r) ==
    /\ run[r].pc = "saving" /\ Taken(r)
    /\ run' = Ended(r, "failed")
    /\ UNCHANGED <<graph, latest>>

\* The consumer leaves at an event, or the process dies: a crash is this for
\* each run there is.
Stops(r) ==
    /\ run[r].pc \in {"top", "wave", "saving"}
    /\ run' = Ended(r, "stopped")
    /\ UNCHANGED <<graph, latest>>

GraphStep(r) ==
    \/ StreamWave(r) \/ ResumedWave(r) \/ WaveRefused(r) \/ NothingRunnable(r)
    \/ WaveFails(r) \/ WaveFinishes(r) \/ WaveMerged(r)
    \/ \E same \in BOOLEAN : SaveCheckpoint(r, same)

Next ==
    \/ \E r \in Runs :
           \/ Stream(r) \/ UpdateState(r)
           \/ \E overlay \in BOOLEAN, named \in ResumeNodes \cup {None} :
                  Resume(r, overlay, named)
           \/ GraphStep(r) \/ WaveAborted(r) \/ SaveRefused(r) \/ Stops(r)
    \/ \E r \in Runs : \E i \in DOMAIN run[r].runnable :
           NodeReturns(r, i) \/ NodeFails(r, i) \/ NodeInterrupts(r, i)

Spec == Init /\ [][Next]_vars

\* The consumer keeps iterating, the database answers, and a node that never
\* returns times out.
FairSpec ==
    /\ Spec
    /\ \A r \in Runs :
           WF_vars(\/ GraphStep(r)
                   \/ \E i \in DOMAIN run[r].runnable : NodeFails(r, i))

-----------------------------------------------------------------------------
(***************************************************************************)
(* Properties                                                              *)
(***************************************************************************)
Pcs == {"unused", "top", "wave", "saving", "ended"}
Kinds == {"stream", "resume", "update"}

Entries == [by : Nodes \cup {0}, kind : {"output", "arg", "update"}]
Steps ==
    {step \in [kind : Kinds \cup {"overlay"}, nodes : Seq(Nodes),
               results : Seq(Results)] :
        DOMAIN step.results = DOMAIN step.nodes}

Checkpoints == [state : Seq(Entries), completed : SUBSET Nodes,
                next : Seq(Nodes), waveCount : Nat, trace : Seq(Steps)]

RunType == [kind : Kinds \cup {None}, pc : Pcs, outcome : Outcomes \cup {None},
            state : Seq(Entries), completed : SUBSET Nodes, waveCount : Nat,
            runnable : Seq(Nodes), results : Seq(Results \cup {None}),
            seen : SUBSET (Seq(Entries) \X SUBSET Nodes),
            after : Outcomes \cup {"top", None}, waves : Nat,
            trace : Seq(Steps), alone : BOOLEAN, queued : SUBSET Nodes,
            ran : SUBSET Nodes, overlaid : BOOLEAN]

\* In particular no stream() runs more waves than the recursion limit.
TypeOK ==
    /\ graph \in Graphs
    /\ latest \subseteq Checkpoints
    /\ \A cp \in latest : cp.waveCount <= graph.recursionLimit
    /\ run \in [Runs -> RunType]
    /\ \A r \in Runs :
           /\ run[r].waveCount <= graph.recursionLimit
           /\ run[r].waves <= IF run[r].kind = "stream" THEN graph.recursionLimit
                              ELSE MaxResumed + 1
           /\ DOMAIN run[r].results =
                  IF run[r].pc = "wave" THEN DOMAIN run[r].runnable ELSE {}

\* The nodes of a wave up to its first finish point, after which the outputs
\* of the others are dropped.
Counted(finish, wave) ==
    {i \in DOMAIN wave.nodes :
        \A j \in 1..(i - 1) : wave.nodes[j] \notin finish}

OutputsOf(finish, wave) ==
    FlattenSeq([i \in DOMAIN wave.nodes |->
                   IF i \in Counted(finish, wave) /\ wave.results[i] = Wrote
                   THEN <<Output(wave.nodes[i])>> ELSE <<>>])

SendsOf(finish, wave) ==
    IF wave.kind = "resume" \/ ToSet(wave.nodes) \cap finish # {} THEN <<>>
    ELSE FlattenSeq([i \in DOMAIN wave.nodes |-> wave.results[i].sends])

Effect(finish, state, step) ==
    CASE step.kind = "update" -> Append(state, Update)
      [] step.kind = "overlay" -> <<Update>>
      [] OTHER -> LET sent == SendsOf(finish, step)
                  IN state \o OutputsOf(finish, step)
                           \o [i \in DOMAIN sent |-> Arg(sent[i])]

StateAfter(finish, trace) ==
    LET after[n \in 0..Len(trace)] ==
            IF n = 0 THEN <<>> ELSE Effect(finish, after[n - 1], trace[n])
    IN after[Len(trace)]

CompletedIn(finish, trace) ==
    UNION {{trace[i].nodes[j] : j \in Counted(finish, trace[i])}
              : i \in DOMAIN trace}

\* "Channel reducers ensure deterministic merge": whatever the order in which
\* nodes settled, and however runs overlapped, a checkpoint holds whole waves
\* and nothing of a wave that failed or was interrupted; and the nodes it
\* lists as completed are those of the waves it holds.
CheckpointsHoldWholeWaves ==
    \A cp \in latest :
        /\ cp.state = StateAfter(graph.finish, cp.trace)
        /\ cp.completed = CompletedIn(graph.finish, cp.trace)

\* A thread is not set back: a checkpoint saved by a run goes on from the one
\* the run was started from, or saved last, if nobody else saved in between;
\* only resume() with an update may replace what a channel held.
ProgressKept ==
    [][\A r \in Runs :
           /\ run[r].pc = "saving" /\ run[r].alone
           /\ run'[r].pc # "saving" /\ latest' # latest
           => \A old \in latest, new \in latest' \ latest :
                  /\ run[r].overlaid \/ IsPrefix(old.state, new.state)
                  /\ old.completed \subseteq new.completed
                  /\ IsPrefix(old.trace, new.trace)]_vars

\* Deadlock detection: where finish points exist, stream() reports the end of
\* a graph only if one of them was reached, in this run or an earlier one.
EndReachesFinish ==
    \A r \in Runs :
        run[r].kind = "stream" /\ run[r].outcome = "end" /\ graph.finish # {} =>
            graph.finish \cap run[r].completed # {}

\* Every stream() ends: nodes that hang time out, routers that loop run into
\* the recursion limit.  A call is made once and does not begin again, so that
\* to be left without a stream in progress again and again is that each ends.
StreamsEnd ==
    []<>(\A r \in Runs : run[r].kind = "stream" => run[r].pc = "ended")

\* types.ts: nextNodes are the nodes "queued for next wave"; README.md: "full
\* checkpointing".  A run that goes on from a checkpoint and comes to its end
\* has run the nodes that were queued.
QueuedNodesRun ==
    \A r \in Runs : run[r].outcome = "end" => run[r].queued \subseteq run[r].ran

=============================================================================

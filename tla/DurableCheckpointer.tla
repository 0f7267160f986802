------------------------ MODULE DurableCheckpointer ------------------------
(***************************************************************************)
(* DurableCheckpointer, src/agent/durable-checkpointer.ts, over the        *)
(* JsonFileCheckpointer it wraps: a snapshot file per thread and round,    *)
(* and an event log per thread.  A method runs up to its first await when  *)
(* it is called; the rest of it is a microtask.  Microtasks run in the     *)
(* order they were queued, and other callers may call methods between any  *)
(* two of them.  A crash loses the queue and the counters and keeps the    *)
(* files, each of which is replaced by a rename.                           *)
(*                                                                         *)
(* The messages of a checkpoint are the number of the save() call that     *)
(* wrote them.                                                             *)
(***************************************************************************)
EXTENDS Integers, Sequences, SequencesExt

CONSTANTS Threads, MaxRound, None,
          MaxCalls, MaxCrashes   \* bounds on the environment

ASSUME DurableAssumption ==
    /\ MaxRound \in Nat /\ MaxCalls \in Nat /\ MaxCrashes \in Nat
    /\ None \notin Nat /\ None \notin [target : Nat, covers : SUBSET Nat]

Rounds == 0..MaxRound
Modes == {"sync", "async", "exit"}

VARIABLES mode, pendingFlush, seqCounter,
          tasks,      \* the microtasks queued
          snapshots,  \* thread -> round -> the save() that wrote it, 0: no file
          log,        \* thread -> its events.jsonl
          calls, crashes,
          flushing,   \* the flush() in progress: the save() it awaits, and, as
                      \* history, the ones it is meant to cover
          \* History variables.
          latest,     \* thread -> round -> the last save() called, 0: deleted or
                      \* overwritten by a fork()
          acked,      \* sync-mode save() calls that have returned
          lastAck,    \* thread -> the last of them, 0: ended or deleted since
          gone        \* threads not used since a delete() that returned

diskVars == <<snapshots, log>>
historyVars == <<latest, acked, lastAck, gone>>
vars == <<mode, pendingFlush, seqCounter, tasks, diskVars, calls, crashes,
          historyVars, flushing>>

NoRounds == [r \in Rounds |-> 0]
NoSeqs == [t \in Threads |-> 0]

Init ==
    /\ mode \in Modes
    /\ pendingFlush = None /\ flushing = None
    /\ seqCounter = NoSeqs
    /\ tasks = <<>>
    /\ snapshots = [t \in Threads |-> NoRounds]
    /\ log = [t \in Threads |-> <<>>]
    /\ calls = 0 /\ crashes = 0
    /\ latest = [t \in Threads |-> NoRounds]
    /\ acked = {} /\ lastAck = [t \in Threads |-> 0] /\ gone = {}

Call == calls < MaxCalls /\ calls' = calls + 1 /\ UNCHANGED crashes

\* A counter that is read and not advanced.
MutNextSeq(t) == seqCounter[t]
NextSeq(t) == seqCounter[t] + 1

\* "save" is 0 in an event that appendEvent() made; "by" is the process that
\* numbered it, None in a copy.
Event(t, save, r, terminal) ==
    [seq |-> NextSeq(t), by |-> crashes, save |-> save, round |-> r,
     terminal |-> terminal]

(***************************************************************************)
(* save(): the snapshot is written at once, the log entry by a microtask;  *)
(* in sync mode the call returns after that.  In exit mode nothing is      *)
(* written, then or later.                                                 *)
(***************************************************************************)

\* A snapshot that is not written when its log entry is.
MutSnapshotsAfterSave(t, r) == snapshots
SnapshotsAfterSave(t, r) == [snapshots EXCEPT ![t][r] = calls']

Save(t, r) ==
    /\ Call /\ mode # "exit"
    /\ seqCounter' = [seqCounter EXCEPT ![t] = NextSeq(t)]
    /\ snapshots' = SnapshotsAfterSave(t, r)
    /\ tasks' = Append(tasks, [op |-> "log", thread |-> t, mode |-> mode,
                               event |-> Event(t, calls', r, FALSE)])
    /\ pendingFlush' = IF mode = "async" THEN calls' ELSE pendingFlush
    /\ latest' = [latest EXCEPT ![t][r] = calls']
    /\ gone' = gone \ {t}
    /\ UNCHANGED <<mode, log, acked, lastAck, flushing>>

SaveDeferred ==
    /\ Call /\ mode = "exit"
    /\ UNCHANGED <<mode, pendingFlush, seqCounter, tasks, diskVars,
                   historyVars, flushing>>

Used(t, queue) ==
    \E i \in DOMAIN queue : queue[i].op # "flushed" /\ queue[i].thread = t

Task == Head(tasks)
Runs(op) == tasks # <<>> /\ Task.op = op

\* A delete() of the thread is queued.
DeletePending(t) == \E i \in DOMAIN tasks : tasks[i].op = "unlink"
                                            /\ tasks[i].thread = t

WriteEventLog ==
    LET t == Task.thread
        save == Task.event.save
    IN
    /\ Runs("log")
    /\ log' = [log EXCEPT ![t] = Append(@, Task.event)]
    /\ tasks' = IF flushing # None /\ flushing.target = save
                THEN Append(Tail(tasks), [op |-> "flushed"]) ELSE Tail(tasks)
    /\ acked' = IF Task.mode = "sync"
                THEN acked \cup {<<t, Task.event.round, save>>} ELSE acked
    /\ lastAck' = IF Task.mode = "sync" /\ ~DeletePending(t)
                  THEN [lastAck EXCEPT ![t] = save] ELSE lastAck
    /\ UNCHANGED <<mode, pendingFlush, seqCounter, snapshots, calls, crashes,
                   latest, gone, flushing>>

\* appendEvent() writes its entry at once, ahead of a save()'s that is queued.
AppendEvent(t, terminal) ==
    /\ Call
    /\ seqCounter' = [seqCounter EXCEPT ![t] = NextSeq(t)]
    /\ log' = [log EXCEPT ![t] = Append(@, Event(t, 0, None, terminal))]
    /\ lastAck' = IF terminal THEN [lastAck EXCEPT ![t] = 0] ELSE lastAck
    /\ gone' = gone \ {t}
    /\ UNCHANGED <<mode, pendingFlush, tasks, snapshots, latest, acked,
                   flushing>>

(***************************************************************************)
(* fork(): read the snapshot, write it under the new thread, and copy the  *)
(* log up to the round; the last also if there was no snapshot.  The old   *)
(* thread is one something is stored under, the new one is not.            *)
(***************************************************************************)
Stored(t) == snapshots[t] # NoRounds \/ log[t] # <<>>

Fork(t, r, new) ==
    /\ Call
    /\ Stored(t) /\ ~Stored(new) /\ ~Used(new, tasks)
    /\ tasks' = Append(tasks, [op |-> "forkSave", from |-> t, round |-> r,
                               thread |-> new, data |-> snapshots[t][r]])
    /\ UNCHANGED <<mode, pendingFlush, seqCounter, diskVars, historyVars,
                   flushing>>

ForkSave ==
    LET new == Task.thread IN
    /\ Runs("forkSave")
    /\ IF Task.data = 0
       THEN /\ tasks' = Append(Tail(tasks), [Task EXCEPT !.op = "forkEvents"])
            /\ UNCHANGED <<snapshots, latest>>
       ELSE /\ tasks' = Append(Tail(tasks), [Task EXCEPT !.op = "forkReturn"])
            /\ snapshots' = [snapshots EXCEPT ![new][Task.round] = Task.data]
            /\ latest' = [latest EXCEPT ![new][Task.round] = 0]
    /\ gone' = gone \ {new}
    /\ UNCHANGED <<mode, pendingFlush, seqCounter, log, calls, crashes, acked,
                   lastAck, flushing>>

ForkReturn ==
    /\ Runs("forkReturn")
    /\ tasks' = Append(Tail(tasks), [Task EXCEPT !.op = "forkEvents"])
    /\ UNCHANGED <<mode, pendingFlush, seqCounter, diskVars, calls, crashes,
                   historyVars, flushing>>

UpTo(r, event) == event.round # None /\ event.round <= r

Copy(event) == [event EXCEPT !.by = None]

\* The events of a log that are copied.
Copied(events, r) ==
    LET copy[n \in 0..Len(events)] ==
            IF n = 0 THEN <<>>
            ELSE IF UpTo(r, events[n])
                 THEN Append(copy[n - 1], Copy(events[n]))
                 ELSE copy[n - 1]
    IN copy[Len(events)]

ForkEvents ==
    /\ Runs("forkEvents")
    /\ log' = [log EXCEPT ![Task.thread] =
                  @ \o Copied(log[Task.from], Task.round)]
    /\ tasks' = Tail(tasks)
    /\ gone' = gone \ {Task.thread}
    /\ UNCHANGED <<mode, pendingFlush, seqCounter, snapshots, calls, crashes,
                   latest, acked, lastAck, flushing>>

(***************************************************************************)
(* delete(): remove the thread's directory, log included, then the log     *)
(* that a save() still in progress may have written after that.            *)
(***************************************************************************)
Delete(t) ==
    /\ Call
    /\ snapshots' = [snapshots EXCEPT ![t] = NoRounds]
    /\ log' = [log EXCEPT ![t] = <<>>]
    /\ tasks' = Append(tasks, [op |-> "unlink", thread |-> t])
    /\ latest' = [latest EXCEPT ![t] = NoRounds]
    /\ lastAck' = [lastAck EXCEPT ![t] = 0]
    /\ UNCHANGED <<mode, pendingFlush, seqCounter, acked, gone, flushing>>

\* A delete() that leaves out the second step.
MutLogAfterUnlink(t) == log
LogAfterUnlink(t) == [log EXCEPT ![t] = <<>>]

Unlink ==
    LET t == Task.thread IN
    /\ Runs("unlink")
    /\ log' = LogAfterUnlink(t)
    /\ tasks' = Tail(tasks)
    /\ gone' = IF Used(t, tasks') THEN gone ELSE gone \cup {t}
    /\ UNCHANGED <<mode, pendingFlush, seqCounter, snapshots, calls, crashes,
                   latest, acked, lastAck, flushing>>

(***************************************************************************)
(* flush() awaits the last async save(), one call at a time; it has        *)
(* nothing to wait for if there was none since the last flush() ended.     *)
(***************************************************************************)
Queued(save) ==
    \E i \in DOMAIN tasks : tasks[i].op = "log" /\ tasks[i].event.save = save

\* The queue with the continuation of flush(), which WriteEventLog appends if
\* the save() awaited is still in it; and a flush() that forgets the await.
MutAwaited == <<[op |-> "flushed"]>> \o tasks
Awaited ==
    IF Queued(pendingFlush) THEN tasks ELSE Append(tasks, [op |-> "flushed"])

Flush ==
    /\ Call
    /\ flushing = None /\ pendingFlush # None
    /\ flushing' = [target |-> pendingFlush,
                    covers |-> {tasks[i].event.save : i \in
                                   {j \in DOMAIN tasks : tasks[j].op = "log"
                                        /\ tasks[j].mode = "async"}}]
    /\ tasks' = Awaited
    /\ UNCHANGED <<mode, pendingFlush, seqCounter, diskVars, historyVars>>

FlushReturns ==
    /\ Runs("flushed")
    /\ tasks' = Tail(tasks)
    /\ pendingFlush' = None /\ flushing' = None
    /\ UNCHANGED <<mode, seqCounter, diskVars, calls, crashes, historyVars>>

SetDurability(m) ==
    /\ Call /\ m # mode
    /\ mode' = m
    /\ UNCHANGED <<pendingFlush, seqCounter, tasks, diskVars, historyVars,
                   flushing>>

\* The process dies; the next one makes its own DurableCheckpointer.
Crash ==
    /\ crashes < MaxCrashes /\ crashes' = crashes + 1
    /\ mode' \in Modes
    /\ seqCounter' = NoSeqs /\ tasks' = <<>>
    /\ pendingFlush' = None /\ flushing' = None
    /\ UNCHANGED <<diskVars, calls, historyVars>>

(***************************************************************************)
(* recoverFromCrash(), as a value: nothing to recover if the log is empty  *)
(* or ends in a terminal event; else the snapshot with the highest round,  *)
(* or no messages if there is none.                                        *)
(***************************************************************************)
Crashed(t) == log[t] # <<>> /\ ~Last(log[t]).terminal

Load(t) ==
    LET present == {r \in Rounds : snapshots[t][r] # 0}
    IN IF present = {} THEN 0
       ELSE snapshots[t][CHOOSE r \in present : \A q \in present : q <= r]

RecoverFromCrash(t) ==
    IF Crashed(t) THEN [recovered |-> TRUE, messages |-> Load(t)]
    ELSE [recovered |-> FALSE, messages |-> 0]

Microtask ==
    \/ WriteEventLog \/ Unlink \/ FlushReturns
    \/ ForkSave \/ ForkReturn \/ ForkEvents

Next ==
    \/ Microtask
    \/ \E t \in Threads, r \in Rounds :
           Save(t, r) \/ \E new \in Threads \ {t} : Fork(t, r, new)
    \/ \E t \in Threads :
           Delete(t) \/ \E terminal \in BOOLEAN : AppendEvent(t, terminal)
    \/ SaveDeferred \/ Flush
    \/ \E m \in Modes : SetDurability(m)
    \/ Crash

Spec == Init /\ [][Next]_vars

-----------------------------------------------------------------------------
(***************************************************************************)
(* Properties                                                              *)
(***************************************************************************)
Seqs == Nat \ {0}
Events == [seq : Seqs, by : 0..MaxCrashes \cup {None}, save : 0..MaxCalls,
           round : Rounds \cup {None}, terminal : BOOLEAN]

LogTask == [op : {"log"}, thread : Threads, mode : Modes \ {"exit"},
            event : Events]
ForkTask == [op : {"forkSave", "forkReturn", "forkEvents"}, from : Threads,
             thread : Threads, round : Rounds, data : 0..MaxCalls]
UnlinkTask == [op : {"unlink"}, thread : Threads]
Tasks == LogTask \cup ForkTask \cup UnlinkTask \cup [op : {"flushed"}]

TypeOK ==
    /\ mode \in Modes
    /\ pendingFlush \in 1..MaxCalls \cup {None}
    /\ seqCounter \in [Threads -> Nat]
    /\ snapshots \in [Threads -> [Rounds -> 0..MaxCalls]]
    /\ log \in [Threads -> Seq(Events)]
    /\ tasks \in Seq(Tasks)
    /\ flushing \in [target : 1..MaxCalls, covers : SUBSET (0..MaxCalls)]
                    \cup {None}
    /\ calls \in 0..MaxCalls /\ crashes \in 0..MaxCrashes
    /\ latest \in [Threads -> [Rounds -> 0..MaxCalls]]
    /\ lastAck \in [Threads -> 0..MaxCalls]
    /\ gone \subseteq Threads

\* "sync: every step is flushed to disk before the next step starts": a save()
\* that returned in sync mode is on disk, snapshot and log entry, whatever
\* crashes follow, until its round is saved again or its thread deleted.
AcknowledgedSurvives ==
    \A a \in acked : latest[a[1]][a[2]] = a[3] =>
        /\ snapshots[a[1]][a[2]] = a[3]
        /\ \E i \in DOMAIN log[a[1]] : log[a[1]][i].save = a[3]

\* A thread whose last acknowledged save no terminal event followed counts as
\* crashed after a restart, and recoverFromCrash() finds messages for it.
CrashedRunRecovered ==
    \A t \in Threads : lastAck[t] # 0 =>
        /\ RecoverFromCrash(t).recovered
        /\ RecoverFromCrash(t).messages # 0

\* What delete() removed stays removed, the log of a save() that was still in
\* progress when it was called included.
DeleteIsFinal ==
    \A t \in gone : snapshots[t] = NoRounds /\ log[t] = <<>>

\* The saves of a thread are logged in the order in which they were called and
\* numbered, within a process; a fork() may bring older ones home in a copy.
SavesLoggedInOrder ==
    \A t \in Threads : \A i, j \in DOMAIN log[t] :
        LET e == log[t][i]
            f == log[t][j]
        IN i < j /\ e.save # 0 /\ f.save # 0 /\ e.by = f.by /\ e.by # None =>
               e.seq < f.seq

\* A log holds what belongs in it: the saves of its thread in their order, and
\* nothing of a thread that was deleted (durable-checkpointer.ts:146, 239).
LogSound == DeleteIsFinal /\ SavesLoggedInOrder

\* A flush() that waits returns only when every async save() called before it
\* has its log entry, although it awaits the last one alone.
FlushCovers ==
    [][flushing # None /\ flushing' = None /\ crashes' = crashes =>
           \A save \in flushing.covers : ~Queued(save)']_vars

\* durable-checkpointer.ts: "Monotonic sequence number within a thread".
NumbersMonotonic ==
    \A t \in Threads : \A i, j \in DOMAIN log[t] :
        i < j => log[t][i].seq < log[t][j].seq

=============================================================================

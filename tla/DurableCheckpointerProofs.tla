--------------------- MODULE DurableCheckpointerProofs ---------------------
(***************************************************************************)
(* The safety properties of DurableCheckpointer, proved for every number   *)
(* of threads, rounds, calls and crashes.                                  *)
(*                                                                         *)
(* The microtask queue is what the properties depend on: an action takes   *)
(* its head, adds a task at its end, or both.  Turned() says so once, and  *)
(* QueueAfter for each action; the parts of the inductive invariant IInv   *)
(* say what the queue holds, in which order, and how that relates to the   *)
(* files.  Each is shown to be kept by every step, in a lemma of its own.  *)
(***************************************************************************)
EXTENDS DurableCheckpointer, FiniteInduction, SequenceTheorems

(***************************************************************************)
(* The copy of a log                                                       *)
(***************************************************************************)
\* A copy is an event, and differs from the original in who numbered it.
LEMMA CopyOfEvent ==
    ASSUME NEW e \in Events
    PROVE  /\ Copy(e) \in Events /\ Copy(e).by = None
           /\ Copy(e).round = e.round /\ Copy(e).terminal = e.terminal
  BY DEF Copy, Events

\* What a fork() copies of a log is a sequence of copies of its events, of the
\* rounds up to the one forked at.
LEMMA CopiedEvents ==
    ASSUME NEW events \in Seq(Events), NEW r \in Rounds
    PROVE  /\ Copied(events, r) \in Seq(Events)
           /\ \A i \in DOMAIN Copied(events, r) : \E j \in DOMAIN events :
                  UpTo(r, events[j]) /\ Copied(events, r)[i] = Copy(events[j])
<1> DEFINE N == Len(events)
           Kept(e) == \E j \in DOMAIN events :
                          UpTo(r, events[j]) /\ e = Copy(events[j])
           A == {s \in Seq(Events) : \A i \in DOMAIN s : Kept(s[i])}
           Next1(n, s) == IF UpTo(r, events[n])
                          THEN Append(s, Copy(events[n])) ELSE s
           step == [p \in (1..N) \X A |-> Next1(p[1], p[2])]
           Copying(f) == f = [n \in 0..N |-> IF n = 0 THEN <<>>
                                             ELSE Next1(n, f[n - 1])]
<1>1. N \in Nat /\ DOMAIN events = 1..N
  BY LenProperties
<1>2. <<>> \in A
  BY EmptySeq
<1>3. ASSUME NEW n \in 1..N, NEW s \in A PROVE Next1(n, s) \in A
  <2>1. CASE UpTo(r, events[n])
    <3>1. events[n] \in Events /\ Copy(events[n]) \in Events
      BY <1>1, ElementOfSeq, CopyOfEvent
    <3>2. Append(s, Copy(events[n])) \in Seq(Events)
          /\ Len(Append(s, Copy(events[n]))) = Len(s) + 1
          /\ Len(s) \in Nat /\ DOMAIN s = 1..Len(s)
          /\ \A i \in 1..Len(s) : Append(s, Copy(events[n]))[i] = s[i]
          /\ Append(s, Copy(events[n]))[Len(s) + 1] = Copy(events[n])
      BY <3>1, AppendProperties, LenProperties
    <3>3. DOMAIN Append(s, Copy(events[n])) = 1..(Len(s) + 1)
      BY <3>2, LenProperties
    <3>4. Kept(Copy(events[n]))
      BY <1>1, <2>1
    <3>5. \A i \in DOMAIN s : Kept(s[i])
      OBVIOUS
    <3> HIDE DEF Kept
    <3>6. \A i \in 1..(Len(s) + 1) : Kept(Append(s, Copy(events[n]))[i])
      BY <3>2, <3>4, <3>5
    <3> QED
      BY <2>1, <3>2, <3>3, <3>6
  <2>2. CASE ~UpTo(r, events[n])
    BY <2>2
  <2> QED
    BY <2>1, <2>2
<1>4. step \in [(1..N) \X A -> A]
  <2> HIDE DEF A, Next1
  <2> QED
    BY <1>3
<1>5. PICK g : Iterates(g, N, A, <<>>, step)
  <2> HIDE DEF A, step
  <2> QED
    BY <1>1, <1>2, <1>4, IterationExists
<1>6. Copying(g)
  <2>1. \A n \in 1..N : g[n] = Next1(n, g[n - 1])
    <3>1. ASSUME NEW n \in 1..N PROVE g[n] = Next1(n, g[n - 1])
      <4>1. n - 1 \in 0..N /\ g[n - 1] \in A /\ g[n] = step[<<n, g[n - 1]>>]
        <5> HIDE DEF A, step
        <5> QED
          BY <1>1, <1>5 DEF Iterates
      <4>2. <<n, g[n - 1]>> \in (1..N) \X A
        BY <4>1
      <4> HIDE DEF A, Next1
      <4> QED
        BY <4>1, <4>2
    <3> QED
      BY <3>1
  <2>2. g \in [0..N -> A] /\ g[0] = <<>>
    BY <1>5 DEF Iterates
  <2> HIDE DEF Next1, A
  <2> QED
    BY <1>1, <2>1, <2>2
<1> DEFINE f == CHOOSE h : Copying(h)
<1>7. Copied(events, r) = f[N]
  BY DEF Copied
<1>8. Copying(f)
  <2> HIDE DEF Copying
  <2> QED
    BY <1>6
<1>9. \A n \in 0..N : f[n] \in A
  <2> DEFINE S == {n \in Nat : n <= N => f[n] \in A}
  <2> HIDE DEF A, f, Next1
  <2>1. 0 \in S
    BY <1>1, <1>2, <1>8
  <2>2. ASSUME NEW n \in S PROVE n + 1 \in S
    <3>1. SUFFICES ASSUME n + 1 <= N PROVE f[n + 1] \in A
      OBVIOUS
    <3>2. n + 1 \in 1..N /\ n + 1 # 0 /\ (n + 1) - 1 = n /\ n + 1 \in 0..N
      BY <1>1, <3>1
    <3>3. f[n + 1] = Next1(n + 1, f[n])
      BY <1>8, <3>2
    <3> QED
      BY <1>3, <3>1, <3>2, <3>3
  <2>3. S = Nat
    <3> HIDE DEF S
    <3>1. S \in SUBSET Nat
      BY DEF S
    <3> QED
      BY <2>1, <2>2, <3>1, NaturalInduction
  <2> QED
    BY <1>1, <2>3
<1>10. f[N] \in A
  <2> HIDE DEF f, A
  <2> QED
    BY <1>1, <1>9
<1> QED
  <2> HIDE DEF f
  <2> QED
    BY <1>7, <1>10

(***************************************************************************)
(* The queue                                                               *)
(***************************************************************************)
\* p is q without its first d members, and with the member of new, if it has
\* one, at its end.
Turned(q, p, d, new) ==
    /\ Len(q) \in Nat /\ DOMAIN q = 1..Len(q)
    /\ Len(p) \in Nat /\ DOMAIN p = 1..Len(p)
    /\ d \in {0, 1} /\ d <= Len(q)
    /\ \A i \in DOMAIN p :
           \/ i + d \in DOMAIN q /\ p[i] = q[i + d]
           \/ p[i] \in new /\ i = Len(p) /\ i + d = Len(q) + 1
    /\ \A i \in DOMAIN q : i > d => i - d \in DOMAIN p /\ p[i - d] = q[i]
    /\ new # {} =>
           Len(p) \in DOMAIN p /\ p[Len(p)] \in new /\ Len(p) = Len(q) + 1 - d

\* The ways in which an action changes the queue.  A task is queued.
LEMMA QueueAdds ==
    ASSUME NEW q \in Seq(Tasks), NEW x \in Tasks
    PROVE  Append(q, x) \in Seq(Tasks) /\ Turned(q, Append(q, x), 0, {x})
<1> DEFINE p == Append(q, x)
<1>1. /\ Len(q) \in Nat /\ DOMAIN q = 1..Len(q)
      /\ p \in Seq(Tasks) /\ Len(p) = Len(q) + 1 /\ DOMAIN p = 1..Len(p)
      /\ \A i \in 1..Len(q) : p[i] = q[i]
      /\ p[Len(q) + 1] = x
  BY AppendProperties, LenProperties
<1> HIDE DEF p
<1> QED
  BY <1>1 DEF Turned

\* The head of the queue is taken.
LEMMA QueueRuns ==
    ASSUME NEW q \in Seq(Tasks), q # <<>>
    PROVE  /\ Tail(q) \in Seq(Tasks) /\ Turned(q, Tail(q), 1, {})
           /\ Head(q) = q[1] /\ 1 \in DOMAIN q /\ q[1] \in Tasks
<1> DEFINE p == Tail(q)
<1>1. /\ Len(q) \in Nat /\ Len(q) > 0 /\ DOMAIN q = 1..Len(q)
      /\ p \in Seq(Tasks) /\ Len(p) = Len(q) - 1 /\ DOMAIN p = 1..Len(p)
      /\ \A i \in 1..Len(p) : p[i] = q[i + 1]
  BY HeadTailProperties, LenProperties, EmptySeq
<1>2. Head(q) = q[1] /\ q[1] \in Tasks
  BY <1>1, ElementOfSeq
<1> HIDE DEF p
<1> QED
  BY <1>1, <1>2 DEF Turned

\* The head is taken, and its continuation queued.
LEMMA QueueGoesOn ==
    ASSUME NEW q \in Seq(Tasks), q # <<>>, NEW x \in Tasks
    PROVE  /\ Append(Tail(q), x) \in Seq(Tasks)
           /\ Turned(q, Append(Tail(q), x), 1, {x})
<1> DEFINE p == Tail(q)
           s == Append(p, x)
<1>1. /\ Len(q) \in Nat /\ Len(q) > 0 /\ DOMAIN q = 1..Len(q)
      /\ p \in Seq(Tasks) /\ Len(p) = Len(q) - 1
      /\ \A i \in 1..Len(p) : p[i] = q[i + 1]
  BY HeadTailProperties, LenProperties, EmptySeq
<1> HIDE DEF p
<1>2. /\ s \in Seq(Tasks) /\ Len(s) = Len(p) + 1 /\ DOMAIN s = 1..Len(s)
      /\ \A i \in 1..Len(p) : s[i] = p[i]
      /\ s[Len(p) + 1] = x
  <2>1. p \in Seq(Tasks)
    BY <1>1
  <2> QED
    BY <2>1, AppendProperties, LenProperties
<1>3. \A i \in 1..(Len(q) - 1) : s[i] = q[i + 1]
  BY <1>1, <1>2
<1> HIDE DEF s
<1>4. Turned(q, s, 1, {x})
  BY <1>1, <1>2, <1>3 DEF Turned
<1> QED
  BY <1>2, <1>4 DEF p, s

\* The queue is left alone.
LEMMA QueueStays ==
    ASSUME NEW q \in Seq(Tasks)
    PROVE  Turned(q, q, 0, {})
  BY LenProperties DEF Turned

(***************************************************************************)
(* The inductive invariant                                                 *)
(***************************************************************************)
\* The log entry of a save(), or the second step of a delete(), is queued at i.
LogAt(q, i, t) == q[i].op = "log" /\ q[i].thread = t
UnlinkAt(q, i, t) == q[i].op = "unlink" /\ q[i].thread = t

\* Nothing queued after i removes the log of t.
Stays(q, i, t) == \A j \in DOMAIN q : j > i => ~UnlinkAt(q, j, t)

\* Calls and processes are counted; what is numbered has been called.
Counted ==
    /\ pendingFlush # None => pendingFlush <= calls
    /\ flushing # None => flushing.target <= calls
                          /\ flushing.covers \subseteq 1..calls
    /\ acked \subseteq Threads \X Rounds \X (1..calls)

\* The queue holds the log entries of saves in the order of their calls, as this
\* process numbered them.
InOrder ==
    /\ \A i \in DOMAIN tasks : tasks[i].op = "log" =>
           LET e == tasks[i].event IN
           /\ e.save \in 1..calls /\ e.by = crashes
           /\ e.round # None /\ ~e.terminal
           /\ e.seq <= seqCounter[tasks[i].thread]
    /\ \A i, j \in DOMAIN tasks :
           i < j /\ tasks[i].op = "log" /\ tasks[j].op = "log" =>
               /\ tasks[i].event.save < tasks[j].event.save
               /\ tasks[i].thread = tasks[j].thread =>
                      tasks[i].event.seq < tasks[j].event.seq

\* The snapshot of a round is the last save() of it.
Snapshots ==
    \A t \in Threads, r \in Rounds :
        latest[t][r] # 0 => snapshots[t][r] = latest[t][r]

\* A queued log entry of a save() that is still the last of its round is not
\* removed later, and once it is acknowledged it is in the log to stay.
Kept ==
    /\ \A i \in DOMAIN tasks : tasks[i].op = "log" =>
           LET t == tasks[i].thread
               e == tasks[i].event
           IN latest[t][e.round] = e.save => Stays(tasks, i, t)
    /\ \A a \in acked : latest[a[1]][a[2]] = a[3] =>
           /\ \E i \in DOMAIN log[a[1]] : log[a[1]][i].save = a[3]
           /\ Stays(tasks, 0, a[1])

HasSnapshot(t) == \E r \in Rounds : snapshots[t][r] # 0

\* A log entry that stays has a snapshot beside it; so has the last one
\* acknowledged, and no terminal event has followed it.
Recoverable ==
    /\ \A t \in Threads : \A i \in DOMAIN log[t] :
           log[t][i].round # None => ~log[t][i].terminal
    /\ \A t \in Threads : \A i \in DOMAIN tasks :
           LogAt(tasks, i, t) /\ Stays(tasks, i, t) => HasSnapshot(t)
    /\ \A t \in Threads : lastAck[t] # 0 =>
           /\ Len(log[t]) > 0 /\ ~log[t][Len(log[t])].terminal
           /\ HasSnapshot(t)
           /\ Stays(tasks, 0, t)

\* A thread with a delete() in progress has no snapshot, or is in use again.
Deleted ==
    /\ \A t \in Threads : \A i \in DOMAIN tasks : UnlinkAt(tasks, i, t) =>
           \/ snapshots[t] = NoRounds
           \/ \E j \in DOMAIN tasks : j > i /\ tasks[j].op # "flushed"
                                      /\ tasks[j].thread = t
    /\ \A t \in gone :
           /\ snapshots[t] = NoRounds /\ log[t] = <<>>
           /\ \A i \in DOMAIN tasks : ~LogAt(tasks, i, t)

\* The log of a thread, and after it the entries that are queued, are numbered
\* upwards, as far as this process wrote them.
Numbered ==
    /\ SavesLoggedInOrder
    /\ \A t \in Threads : \A i \in DOMAIN log[t] :
           LET e == log[t][i] IN
           /\ e.by # None => e.by <= crashes
           /\ e.by = crashes /\ e.save # 0 =>
                  /\ e.seq <= seqCounter[t]
                  /\ \A k \in DOMAIN tasks :
                         LogAt(tasks, k, t) => e.seq < tasks[k].event.seq

AsyncAt(q, i) == q[i].op = "log" /\ q[i].mode = "async"

\* The last async save() is the last one queued, if any is; flush() has one
\* continuation, queued once the save() it awaits is written, and after every
\* save() it covers.
Flushes ==
    /\ pendingFlush # None =>
           \A i \in DOMAIN tasks : AsyncAt(tasks, i) =>
               tasks[i].event.save <= pendingFlush /\ Queued(pendingFlush)
    /\ flushing = None => \A i \in DOMAIN tasks : tasks[i].op # "flushed"
    /\ flushing # None =>
           \E i \in DOMAIN tasks :
               /\ \A k \in DOMAIN tasks :
                      /\ tasks[k].op = "log"
                         /\ tasks[k].event.save \in flushing.covers => k <= i
                      /\ tasks[k].op = "flushed" => k = i
               /\ \/ tasks[i].op = "flushed" /\ ~Queued(flushing.target)
                  \/ tasks[i].op = "log" /\ tasks[i].event.save = flushing.target

IInv ==
    /\ TypeOK /\ Counted /\ InOrder /\ Snapshots /\ Kept
    /\ Recoverable /\ Deleted /\ Numbered /\ Flushes

(***************************************************************************)
(* Types                                                                   *)
(***************************************************************************)
\* What a call adds to a log or to the queue.
LEMMA EventTyped ==
    ASSUME TypeOK, NEW t \in Threads, NEW save \in 0..MaxCalls,
           NEW r \in Rounds \cup {None}, NEW terminal \in BOOLEAN
    PROVE  Event(t, save, r, terminal) \in Events
<1>1. seqCounter[t] \in Nat /\ crashes \in 0..MaxCrashes
  BY DEF TypeOK
<1> QED
  BY <1>1 DEF Event, Events, NextSeq, Seqs

\* The task that runs.
LEMMA HeadTyped ==
    ASSUME TypeOK, tasks # <<>>
    PROVE  /\ Task = tasks[1] /\ 1 \in DOMAIN tasks
           /\ Task.op = "log" => Task \in LogTask
           /\ Task.op \in {"forkSave", "forkReturn", "forkEvents"} =>
                  Task \in ForkTask
           /\ Task.op = "unlink" => Task \in UnlinkTask
<1>1. Task = tasks[1] /\ 1 \in DOMAIN tasks /\ Task \in Tasks
  BY QueueRuns DEF Task, TypeOK
<1> QED
  BY <1>1 DEF Tasks, LogTask, ForkTask, UnlinkTask

\* The next state of the queue, and how it came about.
LEMMA QueueAfter ==
    ASSUME TypeOK
    PROVE  /\ \A t \in Threads, r \in Rounds : Save(t, r) =>
                 LET x == [op |-> "log", thread |-> t, mode |-> mode,
                           event |-> Event(t, calls', r, FALSE)]
                 IN tasks' \in Seq(Tasks) /\ Turned(tasks, tasks', 0, {x})
           /\ \A t, new \in Threads, r \in Rounds : Fork(t, r, new) =>
                 LET x == [op |-> "forkSave", from |-> t, round |-> r,
                           thread |-> new, data |-> snapshots[t][r]]
                 IN tasks' \in Seq(Tasks) /\ Turned(tasks, tasks', 0, {x})
           /\ \A t \in Threads : Delete(t) =>
                 LET x == [op |-> "unlink", thread |-> t]
                 IN tasks' \in Seq(Tasks) /\ Turned(tasks, tasks', 0, {x})
           /\ ForkSave \/ ForkReturn =>
                 \E x \in ForkTask :
                     /\ x.thread = Task.thread
                     /\ tasks' \in Seq(Tasks)
                     /\ Turned(tasks, tasks', 1, {x})
           /\ Unlink \/ ForkEvents \/ FlushReturns =>
                 /\ tasks' \in Seq(Tasks)
                 /\ Turned(tasks, tasks', 1, {})
           /\ WriteEventLog =>
                 LET waits == flushing # None
                              /\ flushing.target = Task.event.save
                     x == [op |-> "flushed"]
                 IN /\ tasks' \in Seq(Tasks)
                    /\ Turned(tasks, tasks', 1, IF waits THEN {x} ELSE {})
           /\ Flush => LET x == [op |-> "flushed"]
                       IN tasks' \in Seq(Tasks) /\
                          Turned(tasks, tasks', 0,
                                 IF Queued(pendingFlush) THEN {} ELSE {x})
<1> USE DEF TypeOK
<1>1. ASSUME NEW t \in Threads, NEW r \in Rounds, Save(t, r)
      PROVE  LET x == [op |-> "log", thread |-> t, mode |-> mode,
                       event |-> Event(t, calls', r, FALSE)]
             IN tasks' \in Seq(Tasks) /\ Turned(tasks, tasks', 0, {x})
  <2> DEFINE x == [op |-> "log", thread |-> t, mode |-> mode,
                   event |-> Event(t, calls', r, FALSE)]
  <2>1. calls' \in 0..MaxCalls
    BY <1>1, DurableAssumption DEF Save, Call
  <2>2. Event(t, calls', r, FALSE) \in Events
    BY <2>1, EventTyped
  <2>3. x \in Tasks
    BY <1>1, <2>2 DEF Save, Tasks, LogTask
  <2>4. tasks' = Append(tasks, x)
    BY <1>1 DEF Save
  <2> HIDE DEF x
  <2>5. tasks' \in Seq(Tasks) /\ Turned(tasks, tasks', 0, {x})
    BY <2>3, <2>4, QueueAdds
  <2> QED
    BY <2>5 DEF x
<1>2. ASSUME NEW t \in Threads, NEW new \in Threads, NEW r \in Rounds,
             Fork(t, r, new)
      PROVE  LET x == [op |-> "forkSave", from |-> t, round |-> r,
                       thread |-> new, data |-> snapshots[t][r]]
             IN tasks' \in Seq(Tasks) /\ Turned(tasks, tasks', 0, {x})
  <2> DEFINE x == [op |-> "forkSave", from |-> t, round |-> r,
                   thread |-> new, data |-> snapshots[t][r]]
  <2>1. x \in Tasks
    BY DEF Tasks, ForkTask
  <2>2. tasks' = Append(tasks, x)
    BY <1>2 DEF Fork
  <2> HIDE DEF x
  <2>3. tasks' \in Seq(Tasks) /\ Turned(tasks, tasks', 0, {x})
    BY <2>1, <2>2, QueueAdds
  <2> QED
    BY <2>3 DEF x
<1>3. ASSUME NEW t \in Threads, Delete(t)
      PROVE  LET x == [op |-> "unlink", thread |-> t]
             IN tasks' \in Seq(Tasks) /\ Turned(tasks, tasks', 0, {x})
  <2>1. [op |-> "unlink", thread |-> t] \in Tasks
    BY DEF Tasks, UnlinkTask
  <2> QED
    BY <1>3, <2>1, QueueAdds DEF Delete
<1>4. ASSUME ForkSave \/ ForkReturn
      PROVE  \E x \in ForkTask :
                 /\ x.thread = Task.thread
                 /\ tasks' \in Seq(Tasks)
                 /\ Turned(tasks, tasks', 1, {x})
  <2>1. tasks # <<>> /\ Task \in ForkTask
    BY <1>4, HeadTyped DEF ForkSave, ForkReturn, Runs
  <2>2. PICK next \in {"forkEvents", "forkReturn"} :
            tasks' = Append(Tail(tasks), [Task EXCEPT !.op = next])
    BY <1>4 DEF ForkSave, ForkReturn
  <2> DEFINE x == [Task EXCEPT !.op = next]
  <2>3. x \in ForkTask /\ x.thread = Task.thread /\ x \in Tasks
    BY <2>1 DEF ForkTask, Tasks
  <2>4. tasks' = Append(Tail(tasks), x)
    BY <2>2
  <2> HIDE DEF x
  <2> QED
    BY <2>1, <2>3, <2>4, QueueGoesOn
<1>5. ASSUME Unlink \/ ForkEvents \/ FlushReturns
      PROVE  tasks' \in Seq(Tasks) /\ Turned(tasks, tasks', 1, {})
  BY <1>5, QueueRuns DEF Unlink, ForkEvents, FlushReturns, Runs
<1>6. [op |-> "flushed"] \in Tasks
  BY DEF Tasks
<1>7. ASSUME WriteEventLog
      PROVE  LET waits == flushing # None
                          /\ flushing.target = Task.event.save
                 x == [op |-> "flushed"]
             IN /\ tasks' \in Seq(Tasks)
                    /\ Turned(tasks, tasks', 1, IF waits THEN {x} ELSE {})
  <2> DEFINE waits == flushing # None /\ flushing.target = Task.event.save
             x == [op |-> "flushed"]
  <2>1. /\ tasks # <<>>
        /\ tasks' = IF waits THEN Append(Tail(tasks), x) ELSE Tail(tasks)
    BY <1>7 DEF WriteEventLog, Runs
  <2>2. CASE waits
    BY <1>6, <2>1, <2>2, QueueGoesOn DEF Turned
  <2>3. CASE ~waits
    BY <2>1, <2>3, QueueRuns DEF Turned
  <2> QED
    BY <2>2, <2>3
<1>8. ASSUME Flush
      PROVE  LET x == [op |-> "flushed"]
             IN tasks' \in Seq(Tasks) /\
                Turned(tasks, tasks', 0,
                                 IF Queued(pendingFlush) THEN {} ELSE {x})
  <2>1. CASE Queued(pendingFlush)
    BY <1>8, <2>1, QueueStays DEF Flush, Awaited, Turned
  <2>2. CASE ~Queued(pendingFlush)
    BY <1>6, <1>8, <2>2, QueueAdds DEF Flush, Awaited, Turned
  <2> QED
    BY <2>1, <2>2
<1> QED
  BY <1>1, <1>2, <1>3, <1>4, <1>5, <1>7, <1>8

\* The log of a thread after each step that changes one.
LEMMA LogAfter ==
    ASSUME TypeOK
    PROVE  /\ \A t \in Threads, terminal \in BOOLEAN : AppendEvent(t, terminal) =>
                 /\ Event(t, 0, None, terminal) \in Events
                 /\ log' = [log EXCEPT ![t] =
                               Append(log[t], Event(t, 0, None, terminal))]
           /\ WriteEventLog =>
                 /\ Task.thread \in Threads /\ Task.event \in Events
                 /\ log' = [log EXCEPT ![Task.thread] =
                               Append(log[Task.thread], Task.event)]
           /\ ForkEvents => \E copy \in Seq(Events) :
                 /\ Task.thread \in Threads /\ Task.from \in Threads
                 /\ log' = [log EXCEPT ![Task.thread] = log[Task.thread] \o copy]
                 /\ \A i \in DOMAIN copy : \E j \in DOMAIN log[Task.from] :
                        /\ copy[i].by = None /\ copy[i].round # None
                        /\ copy[i].round = log[Task.from][j].round
                        /\ copy[i].terminal = log[Task.from][j].terminal
<1>1. ASSUME NEW t \in Threads, NEW terminal \in BOOLEAN,
             AppendEvent(t, terminal)
      PROVE  /\ Event(t, 0, None, terminal) \in Events
             /\ log' = [log EXCEPT ![t] =
                           Append(log[t], Event(t, 0, None, terminal))]
  <2>1. 0 \in 0..MaxCalls
    BY DurableAssumption
  <2> QED
    BY <1>1, <2>1, EventTyped DEF AppendEvent
<1>2. ASSUME WriteEventLog
      PROVE  /\ Task.thread \in Threads /\ Task.event \in Events
             /\ log' = [log EXCEPT ![Task.thread] =
                           Append(log[Task.thread], Task.event)]
  BY <1>2, HeadTyped DEF WriteEventLog, Runs, LogTask
<1>3. ASSUME ForkEvents
      PROVE  \E copy \in Seq(Events) :
                 /\ Task.thread \in Threads /\ Task.from \in Threads
                 /\ log' = [log EXCEPT ![Task.thread] = log[Task.thread] \o copy]
                 /\ \A i \in DOMAIN copy : \E j \in DOMAIN log[Task.from] :
                        /\ copy[i].by = None /\ copy[i].round # None
                        /\ copy[i].round = log[Task.from][j].round
                        /\ copy[i].terminal = log[Task.from][j].terminal
  <2>1. Task.thread \in Threads /\ Task.from \in Threads /\ Task.round \in Rounds
    BY <1>3, HeadTyped DEF ForkEvents, Runs, ForkTask
  <2> DEFINE events == log[Task.from]
             copy == Copied(events, Task.round)
  <2>2. events \in Seq(Events)
    BY <2>1 DEF TypeOK
  <2>3. log' = [log EXCEPT ![Task.thread] = log[Task.thread] \o copy]
    BY <1>3 DEF ForkEvents
  <2>4. copy \in Seq(Events) /\ \A i \in DOMAIN copy : \E j \in DOMAIN events :
            UpTo(Task.round, events[j]) /\ copy[i] = Copy(events[j])
    <3> HIDE DEF events
    <3> QED
      BY <2>1, <2>2, CopiedEvents
  <2> HIDE DEF copy
  <2>5. ASSUME NEW i \in DOMAIN copy
        PROVE  \E j \in DOMAIN events :
                   /\ copy[i].by = None /\ copy[i].round # None
                   /\ copy[i].round = events[j].round
                   /\ copy[i].terminal = events[j].terminal
    <3>1. PICK j \in DOMAIN events :
              UpTo(Task.round, events[j]) /\ copy[i] = Copy(events[j])
      BY <2>4
    <3>2. events[j] \in Events
      BY <2>2
    <3> QED
      BY <3>1, <3>2, CopyOfEvent DEF UpTo
  <2> QED
    BY <2>1, <2>3, <2>4, <2>5
<1> QED
  BY <1>1, <1>2, <1>3

\* Every action keeps every variable in its type.
LEMMA TypeKept ==
    ASSUME TypeOK, [Next]_vars
    PROVE  TypeOK'
<1> USE DurableAssumption
<1>1. ASSUME NEW t \in Threads, NEW r \in Rounds, Save(t, r)
      PROVE  TypeOK'
  <2>1. tasks' \in Seq(Tasks)
    BY <1>1, QueueAfter
  <2>2. calls' \in 1..MaxCalls /\ crashes' = crashes
    BY <1>1 DEF TypeOK, Save, Call
  <2> QED
    BY <1>1, <2>1, <2>2 DEF TypeOK, Save, SnapshotsAfterSave, NextSeq
<1>2. ASSUME NEW t \in Threads, NEW new \in Threads, NEW r \in Rounds,
             Fork(t, r, new)
      PROVE  TypeOK'
  <2>1. tasks' \in Seq(Tasks)
    BY <1>2, QueueAfter
  <2>2. /\ UNCHANGED <<mode, pendingFlush, seqCounter, snapshots, log, crashes,
                       latest, acked, lastAck, gone, flushing>>
        /\ calls < MaxCalls /\ calls' = calls + 1
    BY <1>2 DEF Fork, Call, diskVars, historyVars
  <2> QED
    BY <2>1, <2>2 DEF TypeOK
<1>3. ASSUME NEW t \in Threads, Delete(t)
      PROVE  TypeOK'
  <2>1. tasks' \in Seq(Tasks) /\ <<>> \in Seq(Events)
    BY <1>3, QueueAfter, EmptySeq
  <2> QED
    BY <1>3, <2>1 DEF TypeOK, Delete, Call, NoRounds
<1>4. ASSUME NEW t \in Threads, NEW terminal \in BOOLEAN,
             AppendEvent(t, terminal)
      PROVE  TypeOK'
  <2>1. Append(log[t], Event(t, 0, None, terminal)) \in Seq(Events)
    BY <1>4, LogAfter, AppendProperties DEF TypeOK
  <2> QED
    BY <1>4, <2>1 DEF TypeOK, AppendEvent, Call, NextSeq
<1>5. CASE SaveDeferred
  BY <1>5 DEF TypeOK, SaveDeferred, Call, diskVars, historyVars
<1>6. CASE Flush
  <2>1. tasks' \in Seq(Tasks)
    BY <1>6, QueueAfter
  <2>2. pendingFlush \in 1..MaxCalls
    BY <1>6 DEF Flush, TypeOK
  <2> DEFINE covers == {tasks[i].event.save : i \in
                           {j \in DOMAIN tasks : tasks[j].op = "log"
                                /\ tasks[j].mode = "async"}}
  <2>3. covers \subseteq 0..MaxCalls
    <3>1. ASSUME NEW i \in DOMAIN tasks, tasks[i].op = "log"
          PROVE  tasks[i].event.save \in 0..MaxCalls
      <4>1. tasks[i] \in Tasks
        BY DEF TypeOK
      <4>2. tasks[i] \in LogTask
        BY <3>1, <4>1 DEF Tasks, LogTask, ForkTask, UnlinkTask
      <4> QED
        BY <4>2 DEF LogTask, Events
    <3> QED
      BY <3>1
  <2>4. flushing' = [target |-> pendingFlush, covers |-> covers]
    BY <1>6 DEF Flush
  <2> HIDE DEF covers
  <2>5. flushing' \in [target : 1..MaxCalls, covers : SUBSET (0..MaxCalls)]
    BY <2>2, <2>3, <2>4
  <2> QED
    BY <1>6, <2>1, <2>5 DEF TypeOK, Flush, Call, diskVars, historyVars
<1>7. ASSUME NEW m \in Modes, SetDurability(m)
      PROVE  TypeOK'
  BY <1>7 DEF TypeOK, SetDurability, Call, diskVars, historyVars
<1>8. CASE Crash
  <2>1. <<>> \in Seq(Tasks)
    BY EmptySeq
  <2> QED
    BY <1>8, <2>1 DEF TypeOK, Crash, diskVars, historyVars, NoSeqs
<1>9. CASE WriteEventLog
  <2>1. tasks' \in Seq(Tasks)
    BY <1>9, QueueAfter
  <2>2. Task.thread \in Threads /\ Task.event.save \in 0..MaxCalls
    BY <1>9, LogAfter DEF Events
  <2>3. log' \in [Threads -> Seq(Events)]
    <3>1. Append(log[Task.thread], Task.event) \in Seq(Events)
      BY <1>9, LogAfter, AppendProperties DEF TypeOK
    <3> QED
      BY <1>9, <3>1, LogAfter DEF TypeOK
  <2> QED
    BY <1>9, <2>1, <2>2, <2>3 DEF TypeOK, WriteEventLog
<1>10. CASE Unlink
  <2>1. tasks' \in Seq(Tasks) /\ <<>> \in Seq(Events)
    BY <1>10, QueueAfter, EmptySeq
  <2>2. Task.thread \in Threads
    BY <1>10, HeadTyped DEF Unlink, Runs, UnlinkTask
  <2> QED
    BY <1>10, <2>1, <2>2 DEF TypeOK, Unlink, LogAfterUnlink
<1>11. CASE FlushReturns
  <2>1. tasks' \in Seq(Tasks)
    BY <1>11, QueueAfter
  <2> QED
    BY <1>11, <2>1 DEF TypeOK, FlushReturns, diskVars, historyVars
<1>12. CASE ForkSave
  <2>1. tasks' \in Seq(Tasks)
    BY <1>12, QueueAfter
  <2>2. Task \in ForkTask
    BY <1>12, HeadTyped DEF ForkSave, Runs
  <2>3. Task.thread \in Threads /\ Task.round \in Rounds
        /\ Task.data \in 0..MaxCalls
    BY <2>2 DEF ForkTask
  <2>4. snapshots' \in [Threads -> [Rounds -> 0..MaxCalls]]
        /\ latest' \in [Threads -> [Rounds -> 0..MaxCalls]]
    <3>1. CASE Task.data = 0
      BY <1>12, <3>1 DEF TypeOK, ForkSave
    <3>2. CASE Task.data # 0
      <4>1. /\ snapshots' = [snapshots EXCEPT
                                ![Task.thread][Task.round] = Task.data]
            /\ latest' = [latest EXCEPT ![Task.thread][Task.round] = 0]
        BY <1>12, <3>2 DEF ForkSave
      <4> QED
        BY <2>3, <4>1 DEF TypeOK
    <3> QED
      BY <3>1, <3>2
  <2> QED
    BY <1>12, <2>1, <2>4 DEF TypeOK, ForkSave
<1>13. CASE ForkReturn
  <2>1. tasks' \in Seq(Tasks)
    BY <1>13, QueueAfter
  <2> QED
    BY <1>13, <2>1 DEF TypeOK, ForkReturn, diskVars, historyVars
<1>14. CASE ForkEvents
  <2>1. tasks' \in Seq(Tasks)
    BY <1>14, QueueAfter
  <2>2. log' \in [Threads -> Seq(Events)]
    <3>1. PICK copy \in Seq(Events) :
              /\ Task.thread \in Threads
              /\ log' = [log EXCEPT ![Task.thread] = log[Task.thread] \o copy]
      BY <1>14, LogAfter
    <3>2. log[Task.thread] \o copy \in Seq(Events)
      BY <3>1, ConcatProperties DEF TypeOK
    <3> QED
      BY <3>1, <3>2 DEF TypeOK
  <2> QED
    BY <1>14, <2>1, <2>2 DEF TypeOK, ForkEvents
<1>15. CASE UNCHANGED vars
  BY <1>15 DEF TypeOK, vars, diskVars, historyVars
<1> QED
  BY <1>1, <1>2, <1>3, <1>4, <1>5, <1>6, <1>7, <1>8, <1>9, <1>10, <1>11, <1>12,
     <1>13, <1>14, <1>15 DEF Next, Microtask

(***************************************************************************)
(* What a step does to the queue and to the logs, as far as the other      *)
(* invariants need it                                                      *)
(***************************************************************************)
\* Every step but a save() and a crash leaves the log entries queued as they
\* are, numbers included.
Requeues ==
    /\ \E d \in {0, 1}, new \in SUBSET Tasks :
           /\ Turned(tasks, tasks', d, new)
           /\ \A x \in new : x.op # "log"
    /\ calls <= calls' /\ crashes' = crashes
    /\ \A t \in Threads : seqCounter[t] <= seqCounter'[t]

\* So does every other step; a save() and a crash are looked at by themselves.
LEMMA Requeued ==
    ASSUME TypeOK, [Next]_vars
    PROVE  \/ Requeues
           \/ \E t \in Threads, r \in Rounds : Save(t, r)
           \/ Crash
<1> USE DurableAssumption
<1>0. calls \in Nat /\ seqCounter \in [Threads -> Nat] /\ tasks \in Seq(Tasks)
  BY DEF TypeOK
<1>1. ASSUME UNCHANGED tasks PROVE Turned(tasks, tasks', 0, {})
  BY <1>0, <1>1, QueueStays
<1>2. ASSUME NEW t \in Threads, NEW new \in Threads, NEW r \in Rounds,
             Fork(t, r, new)
      PROVE  Requeues
  <2> DEFINE x == [op |-> "forkSave", from |-> t, round |-> r,
                   thread |-> new, data |-> snapshots[t][r]]
  <2>1. Turned(tasks, tasks', 0, {x})
    BY <1>2, QueueAfter
  <2>2. x \in Tasks /\ x.op # "log"
    BY DEF TypeOK, Tasks, ForkTask
  <2>3. calls' = calls + 1 /\ crashes' = crashes /\ seqCounter' = seqCounter
    BY <1>2 DEF Fork, Call
  <2> HIDE DEF x
  <2> QED
    BY <1>0, <2>1, <2>2, <2>3 DEF Requeues
<1>3. ASSUME NEW t \in Threads, Delete(t)
      PROVE  Requeues
  <2> DEFINE x == [op |-> "unlink", thread |-> t]
  <2>1. Turned(tasks, tasks', 0, {x})
    BY <1>3, QueueAfter
  <2>2. x \in Tasks /\ x.op # "log"
    BY DEF Tasks, UnlinkTask
  <2>3. calls' = calls + 1 /\ crashes' = crashes /\ seqCounter' = seqCounter
    BY <1>3 DEF Delete, Call
  <2> HIDE DEF x
  <2> QED
    BY <1>0, <2>1, <2>2, <2>3 DEF Requeues
<1>4. ASSUME NEW t \in Threads, NEW terminal \in BOOLEAN,
             AppendEvent(t, terminal)
      PROVE  Requeues
  <2>1. Turned(tasks, tasks', 0, {})
    BY <1>1, <1>4 DEF AppendEvent
  <2>2. /\ calls' = calls + 1 /\ crashes' = crashes
        /\ seqCounter' = [seqCounter EXCEPT ![t] = seqCounter[t] + 1]
    BY <1>4 DEF AppendEvent, Call, NextSeq
  <2> QED
    BY <1>0, <2>1, <2>2 DEF Requeues
<1>5. ASSUME SaveDeferred \/ \E m \in Modes : SetDurability(m)
      PROVE  Requeues
  <2>1. /\ calls' = calls + 1 /\ crashes' = crashes
        /\ seqCounter' = seqCounter /\ tasks' = tasks
    BY <1>5 DEF SaveDeferred, SetDurability, Call
  <2>2. Turned(tasks, tasks', 0, {})
    BY <1>1, <2>1
  <2> QED
    BY <1>0, <2>1, <2>2 DEF Requeues
<1>6. [op |-> "flushed"] \in Tasks /\ [op |-> "flushed"].op # "log"
  BY DEF Tasks
<1>7. CASE Flush
  <2> DEFINE new == IF Queued(pendingFlush) THEN {} ELSE {[op |-> "flushed"]}
  <2>1. Turned(tasks, tasks', 0, new)
    BY <1>7, QueueAfter
  <2>2. calls' = calls + 1 /\ crashes' = crashes /\ seqCounter' = seqCounter
    BY <1>7 DEF Flush, Call
  <2>3. new \in SUBSET Tasks /\ \A x \in new : x.op # "log"
    BY <1>6
  <2> HIDE DEF new
  <2> QED
    BY <1>0, <1>6, <2>1, <2>2, <2>3 DEF Requeues
<1>8. CASE WriteEventLog
  <2> DEFINE new == IF flushing # None /\ flushing.target = Task.event.save
                    THEN {[op |-> "flushed"]} ELSE {}
  <2>1. Turned(tasks, tasks', 1, new)
    BY <1>8, QueueAfter
  <2>2. calls' = calls /\ crashes' = crashes /\ seqCounter' = seqCounter
    BY <1>8 DEF WriteEventLog
  <2>3. new \in SUBSET Tasks /\ \A x \in new : x.op # "log"
    BY <1>6
  <2> HIDE DEF new
  <2> QED
    BY <1>0, <1>6, <2>1, <2>2, <2>3 DEF Requeues
<1>9. CASE ForkSave \/ ForkReturn
  <2>1. PICK x \in ForkTask : Turned(tasks, tasks', 1, {x})
    BY <1>9, QueueAfter
  <2>2. x \in Tasks /\ x.op # "log"
    BY DEF Tasks, ForkTask
  <2>3. calls' = calls /\ crashes' = crashes /\ seqCounter' = seqCounter
    BY <1>9 DEF ForkSave, ForkReturn
  <2> QED
    BY <1>0, <2>1, <2>2, <2>3 DEF Requeues
<1>10. CASE Unlink \/ ForkEvents \/ FlushReturns
  <2>1. Turned(tasks, tasks', 1, {})
    BY <1>10, QueueAfter
  <2>2. calls' = calls /\ crashes' = crashes /\ seqCounter' = seqCounter
    BY <1>10 DEF Unlink, ForkEvents, FlushReturns
  <2> QED
    BY <1>0, <2>1, <2>2 DEF Requeues
<1>11. CASE UNCHANGED vars
  <2>1. UNCHANGED <<tasks, calls, crashes, seqCounter>>
    BY <1>11 DEF vars
  <2>2. Turned(tasks, tasks', 0, {})
    BY <1>1, <2>1
  <2> QED
    BY <1>0, <2>1, <2>2 DEF Requeues
<1> QED
  BY <1>2, <1>3, <1>4, <1>5, <1>7, <1>8, <1>9, <1>10, <1>11 DEF Next, Microtask

\* A log and the same log with events of E added.
Grown(old, new, E) ==
    /\ Len(old) \in Nat /\ DOMAIN old = 1..Len(old)
    /\ Len(new) \in Nat /\ DOMAIN new = 1..Len(new)
    /\ Len(old) <= Len(new)
    /\ \A i \in DOMAIN old : new[i] = old[i]
    /\ \A i \in DOMAIN new : i > Len(old) => new[i] \in E

Copies == {e \in Events : e.by = None /\ e.round # None /\ ~e.terminal}

\* Of which thread the log grows in a step, and by what.
LEMMA LogsGrow ==
    ASSUME TypeOK, Recoverable
    PROVE  /\ \A t \in Threads, terminal \in BOOLEAN : AppendEvent(t, terminal) =>
                 /\ Grown(log[t], log'[t], {Event(t, 0, None, terminal)})
                 /\ Len(log'[t]) = Len(log[t]) + 1
                 /\ \A u \in Threads \ {t} : log'[u] = log[u]
           /\ WriteEventLog =>
                 /\ Task.thread \in Threads
                 /\ Grown(log[Task.thread], log'[Task.thread], {Task.event})
                 /\ Len(log'[Task.thread]) = Len(log[Task.thread]) + 1
                 /\ \A u \in Threads \ {Task.thread} : log'[u] = log[u]
           /\ ForkEvents =>
                 /\ Task.thread \in Threads
                 /\ Grown(log[Task.thread], log'[Task.thread], Copies)
                 /\ \A u \in Threads \ {Task.thread} : log'[u] = log[u]
<1>1. ASSUME NEW t \in Threads, NEW e \in Events,
             log' = [log EXCEPT ![t] = Append(log[t], e)]
      PROVE  /\ Grown(log[t], log'[t], {e})
             /\ Len(log'[t]) = Len(log[t]) + 1
             /\ \A u \in Threads \ {t} : log'[u] = log[u]
  <2> DEFINE old == log[t]
             new == Append(old, e)
  <2>1. old \in Seq(Events) /\ log'[t] = new
        /\ \A u \in Threads \ {t} : log'[u] = log[u]
    BY <1>1 DEF TypeOK
  <2> HIDE DEF old
  <2>2. /\ Len(old) \in Nat /\ DOMAIN old = 1..Len(old)
        /\ new \in Seq(Events) /\ Len(new) = Len(old) + 1
        /\ DOMAIN new = 1..Len(new)
        /\ \A i \in 1..Len(old) : new[i] = old[i]
        /\ new[Len(old) + 1] = e
    BY <2>1, AppendProperties, LenProperties
  <2> HIDE DEF new
  <2>3. Grown(old, new, {e})
    BY <2>2 DEF Grown
  <2> QED
    BY <2>1, <2>2, <2>3 DEF old
<1>2. ASSUME ForkEvents
      PROVE  /\ Task.thread \in Threads
             /\ Grown(log[Task.thread], log'[Task.thread], Copies)
             /\ \A u \in Threads \ {Task.thread} : log'[u] = log[u]
  <2> DEFINE t == Task.thread
             old == log[t]
  <2>1. PICK copy \in Seq(Events) :
            /\ t \in Threads /\ Task.from \in Threads
            /\ log' = [log EXCEPT ![t] = old \o copy]
            /\ \A i \in DOMAIN copy : \E j \in DOMAIN log[Task.from] :
                   /\ copy[i].by = None /\ copy[i].round # None
                   /\ copy[i].round = log[Task.from][j].round
                   /\ copy[i].terminal = log[Task.from][j].terminal
    BY <1>2, LogAfter
  <2>2. \A i \in DOMAIN copy : copy[i] \in Copies
    BY <2>1, LenProperties, ElementOfSeq DEF Recoverable, Copies
  <2>3. old \in Seq(Events) /\ log'[t] = old \o copy
        /\ \A u \in Threads \ {t} : log'[u] = log[u]
    BY <2>1 DEF TypeOK
  <2> DEFINE new == old \o copy
  <2> HIDE DEF old, t
  <2>4. /\ Len(old) \in Nat /\ DOMAIN old = 1..Len(old)
        /\ Len(copy) \in Nat /\ DOMAIN copy = 1..Len(copy)
        /\ new \in Seq(Events) /\ Len(new) = Len(old) + Len(copy)
        /\ DOMAIN new = 1..Len(new)
        /\ \A i \in 1..(Len(old) + Len(copy)) :
               new[i] = IF i <= Len(old) THEN old[i] ELSE copy[i - Len(old)]
    BY <2>3, ConcatProperties, LenProperties
  <2> HIDE DEF new
  <2>5. ASSUME NEW i \in DOMAIN new, i > Len(old)
        PROVE  new[i] \in Copies
    <3>1. i - Len(old) \in DOMAIN copy /\ new[i] = copy[i - Len(old)]
      BY <2>4, <2>5
    <3> QED
      BY <2>2, <3>1
  <2>6. Grown(old, new, Copies)
    BY <2>4, <2>5 DEF Grown
  <2> QED
    BY <2>1, <2>3, <2>6 DEF t, old, new
<1>3. ASSUME NEW t \in Threads, NEW terminal \in BOOLEAN,
             AppendEvent(t, terminal)
      PROVE  /\ Grown(log[t], log'[t], {Event(t, 0, None, terminal)})
             /\ Len(log'[t]) = Len(log[t]) + 1
             /\ \A u \in Threads \ {t} : log'[u] = log[u]
  BY <1>1, <1>3, LogAfter
<1>4. ASSUME WriteEventLog
      PROVE  /\ Task.thread \in Threads
             /\ Grown(log[Task.thread], log'[Task.thread], {Task.event})
             /\ Len(log'[Task.thread]) = Len(log[Task.thread]) + 1
             /\ \A u \in Threads \ {Task.thread} : log'[u] = log[u]
  BY <1>1, <1>4, LogAfter
<1> QED
  BY <1>2, <1>3, <1>4

\* A log that does not grow.
LEMMA SameLog ==
    ASSUME TypeOK, NEW t \in Threads
    PROVE  Grown(log[t], log[t], {})
<1>1. log[t] \in Seq(Events)
  BY DEF TypeOK
<1> QED
  BY <1>1, LenProperties DEF Grown

\* What stays does so as the queue advances, if it is not deleted again.
LEMMA StaysOn ==
    ASSUME NEW q, NEW p, NEW d, NEW new, Turned(q, p, d, new),
           NEW t, \A x \in new : x.op # "unlink" \/ x.thread # t,
           NEW i \in Nat, Stays(q, i + d, t) \/ Stays(q, i, t)
    PROVE  Stays(p, i, t)
<1>1. ASSUME NEW j \in DOMAIN p, j > i, UnlinkAt(p, j, t) PROVE FALSE
  <2>1. j + d \in DOMAIN q /\ p[j] = q[j + d]
    BY <1>1 DEF Turned, UnlinkAt
  <2>2. j + d > i + d /\ j + d > i
    BY <1>1, <2>1 DEF Turned
  <2> QED
    BY <1>1, <2>1, <2>2 DEF Stays, UnlinkAt
<1> QED
  BY <1>1 DEF Stays

(***************************************************************************)
(* The steps of the induction                                              *)
(***************************************************************************)
\* A queued log entry is typed.
LEMMA LogTaskTyped ==
    ASSUME TypeOK, NEW i \in DOMAIN tasks, tasks[i].op = "log"
    PROVE  /\ tasks[i] \in LogTask /\ tasks[i].thread \in Threads
           /\ tasks[i].event \in Events /\ tasks[i].event.seq \in Nat
           /\ tasks[i].event.save \in Nat
<1>1. tasks[i] \in Tasks
  BY DEF TypeOK
<1>2. tasks[i] \in LogTask
  BY <1>1 DEF Tasks, LogTask, ForkTask, UnlinkTask
<1> QED
  BY <1>2 DEF LogTask, Events, Seqs

\* A log entry that waits in the queue after a step waited there before it.
LEMMA WaitedBefore ==
    ASSUME NEW d, NEW new \in SUBSET Tasks, Turned(tasks, tasks', d, new),
           \A x \in new : x.op # "log",
           NEW i \in DOMAIN tasks', tasks'[i].op = "log"
    PROVE  i + d \in DOMAIN tasks /\ tasks'[i] = tasks[i + d] /\ i \in Nat
  BY DEF Turned

\* The saves queued are in the order of their calls and of their numbers.
LEMMA InOrderKept ==
    ASSUME TypeOK, InOrder, [Next]_vars
    PROVE  InOrder'
<1>1. CASE Requeues
  <2>1. PICK d \in {0, 1}, new \in SUBSET Tasks :
            Turned(tasks, tasks', d, new) /\ \A x \in new : x.op # "log"
    BY <1>1 DEF Requeues
  <2>2. calls \in Nat /\ calls' \in Nat /\ calls <= calls' /\ crashes' = crashes
        /\ \A t \in Threads : /\ seqCounter[t] \in Nat /\ seqCounter'[t] \in Nat
                              /\ seqCounter[t] <= seqCounter'[t]
    BY <1>1, TypeKept, DurableAssumption DEF Requeues, TypeOK
  <2>3. ASSUME NEW i \in DOMAIN tasks', tasks'[i].op = "log"
        PROVE  LET e == tasks'[i].event IN
               /\ e.save \in 1..calls' /\ e.by = crashes'
               /\ e.round # None /\ ~e.terminal
               /\ e.seq <= seqCounter'[tasks'[i].thread]
    <3>1. i + d \in DOMAIN tasks /\ tasks'[i] = tasks[i + d]
      BY <2>1, <2>3, WaitedBefore
    <3> DEFINE k == i + d
    <3> HIDE DEF k
    <3>2. /\ tasks[k].event.save \in 1..calls /\ tasks[k].event.by = crashes
          /\ tasks[k].event.round # None /\ ~tasks[k].event.terminal
          /\ tasks[k].event.seq <= seqCounter[tasks[k].thread]
      BY <2>3, <3>1 DEF InOrder, k
    <3>3. tasks[k].thread \in Threads /\ tasks[k].event.seq \in Nat
      BY <2>3, <3>1, LogTaskTyped DEF k
    <3> QED
      BY <2>2, <3>1, <3>2, <3>3 DEF k
  <2>4. ASSUME NEW i \in DOMAIN tasks', NEW j \in DOMAIN tasks', i < j,
               tasks'[i].op = "log", tasks'[j].op = "log"
        PROVE  /\ tasks'[i].event.save < tasks'[j].event.save
               /\ tasks'[i].thread = tasks'[j].thread =>
                      tasks'[i].event.seq < tasks'[j].event.seq
    <3>1. /\ i + d \in DOMAIN tasks /\ tasks'[i] = tasks[i + d]
          /\ j + d \in DOMAIN tasks /\ tasks'[j] = tasks[j + d]
          /\ i \in Nat /\ j \in Nat
      BY <2>1, <2>4, WaitedBefore
    <3>2. i + d < j + d
      BY <2>4, <3>1
    <3> QED
      BY <2>4, <3>1, <3>2 DEF InOrder
  <2> QED
    BY <2>3, <2>4 DEF InOrder
<1>2. ASSUME NEW t \in Threads, NEW r \in Rounds, Save(t, r)
      PROVE  InOrder'
  <2> DEFINE e == Event(t, calls', r, FALSE)
             x == [op |-> "log", thread |-> t, mode |-> mode, event |-> e]
  <2>1. Turned(tasks, tasks', 0, {x})
    BY <1>2, QueueAfter
  <2>2. /\ calls \in Nat /\ calls' = calls + 1 /\ crashes' = crashes
        /\ seqCounter \in [Threads -> Nat]
        /\ seqCounter' = [seqCounter EXCEPT ![t] = seqCounter[t] + 1]
        /\ None \notin Rounds
    BY <1>2, DurableAssumption DEF Save, Call, NextSeq, TypeOK, Rounds
  <2>3. /\ e.save = calls + 1 /\ e.by = crashes /\ e.round = r
        /\ e.terminal = FALSE /\ e.seq = seqCounter[t] + 1
    BY <2>2 DEF Event, NextSeq
  <2>4. /\ x.op = "log" /\ x.thread = t /\ x.event = e
    OBVIOUS
  <2> HIDE DEF e, x
  <2>5. ASSUME NEW i \in DOMAIN tasks'
        PROVE  (i \in DOMAIN tasks /\ tasks'[i] = tasks[i] /\ i \in Nat)
               \/ (i = Len(tasks') /\ i = Len(tasks) + 1 /\ tasks'[i] = x
                   /\ i \in Nat)
    BY <2>1 DEF Turned
  <2>6. ASSUME NEW i \in DOMAIN tasks, tasks[i].op = "log"
        PROVE  /\ tasks[i].thread \in Threads
               /\ tasks[i].event.save \in 1..calls /\ tasks[i].event.by = crashes
               /\ tasks[i].event.round # None /\ ~tasks[i].event.terminal
               /\ tasks[i].event.seq <= seqCounter[tasks[i].thread]
               /\ tasks[i].event.seq \in Nat
    BY <2>6, LogTaskTyped DEF InOrder
  <2>7. \A i \in DOMAIN tasks : i \in Nat /\ i <= Len(tasks)
    BY <2>1 DEF Turned
  <2>8. ASSUME NEW i \in DOMAIN tasks', tasks'[i].op = "log"
        PROVE  /\ tasks'[i].event.save \in 1..calls'
               /\ tasks'[i].event.by = crashes'
               /\ tasks'[i].event.round # None /\ ~tasks'[i].event.terminal
               /\ tasks'[i].event.seq <= seqCounter'[tasks'[i].thread]
    <3>1. CASE i \in DOMAIN tasks /\ tasks'[i] = tasks[i]
      BY <2>2, <2>6, <2>8, <3>1
    <3>2. CASE tasks'[i] = x
      BY <2>2, <2>3, <2>4, <3>2
    <3> QED
      BY <2>5, <3>1, <3>2
  <2>9. ASSUME NEW i \in DOMAIN tasks', NEW j \in DOMAIN tasks', i < j,
               tasks'[i].op = "log", tasks'[j].op = "log"
        PROVE  /\ tasks'[i].event.save < tasks'[j].event.save
               /\ tasks'[i].thread = tasks'[j].thread =>
                      tasks'[i].event.seq < tasks'[j].event.seq
    <3>1. i \in DOMAIN tasks /\ tasks'[i] = tasks[i]
      BY <2>1, <2>5, <2>9 DEF Turned
    <3>2. CASE j \in DOMAIN tasks /\ tasks'[j] = tasks[j]
      BY <2>9, <3>1, <3>2 DEF InOrder
    <3>3. CASE tasks'[j] = x
      BY <2>2, <2>3, <2>4, <2>6, <2>9, <3>1, <3>3
    <3> QED
      BY <2>5, <3>2, <3>3
  <2> QED
    BY <2>8, <2>9 DEF InOrder
<1>3. CASE Crash
  <2>1. tasks' = <<>>
    BY <1>3 DEF Crash
  <2> QED
    BY <2>1 DEF InOrder
<1> QED
  BY <1>1, <1>2, <1>3, Requeued

\* What the task that runs says, if it logs a save().
LEMMA Logging ==
    ASSUME TypeOK, InOrder, WriteEventLog
    PROVE  /\ Task = tasks[1] /\ 1 \in DOMAIN tasks /\ tasks[1].op = "log"
           /\ Task.thread \in Threads /\ Task.event \in Events
           /\ Task.event.save \in 1..calls /\ Task.event.round \in Rounds
           /\ Task.event.by = crashes /\ ~Task.event.terminal
<1>1. Task = tasks[1] /\ 1 \in DOMAIN tasks /\ tasks[1].op = "log"
  BY HeadTyped DEF WriteEventLog, Runs
<1> QED
  BY <1>1, LogTaskTyped DEF InOrder, Events

\* No number is used before its call.
LEMMA CountedKept ==
    ASSUME TypeOK, InOrder, Counted, [Next]_vars
    PROVE  Counted'
<1> USE DurableAssumption
<1>0. calls \in Nat /\ calls' \in Nat /\ calls <= calls'
  <2>1. calls \in Nat /\ calls' \in Nat
    BY TypeKept DEF TypeOK
  <2>2. CASE \E t \in Threads, r \in Rounds : Save(t, r)
    <3>1. calls' = calls + 1
      BY <2>2 DEF Save, Call
    <3> QED
      BY <2>1, <3>1
  <2>3. CASE Crash
    <3>1. calls' = calls
      BY <2>3 DEF Crash
    <3> QED
      BY <2>1, <3>1
  <2>4. CASE Requeues
    <3>1. calls <= calls'
      BY <2>4 DEF Requeues
    <3> QED
      BY <2>1, <3>1
  <2>5. \/ Requeues
        \/ \E t \in Threads, r \in Rounds : Save(t, r)
        \/ Crash
    BY Requeued
  <2> QED
    BY <2>2, <2>3, <2>4, <2>5
<1>1. 1..calls \subseteq 1..calls'
  BY <1>0
<1>2. /\ pendingFlush \in Nat \cup {None}
      /\ flushing \in [target : 1..MaxCalls, covers : SUBSET (0..MaxCalls)]
                      \cup {None}
  BY DEF TypeOK
<1>3. ASSUME UNCHANGED acked
      PROVE  acked' \subseteq Threads \X Rounds \X (1..calls')
  BY <1>1, <1>3 DEF Counted
<1>4. ASSUME UNCHANGED pendingFlush \/ pendingFlush' = None
      PROVE  pendingFlush' # None => pendingFlush' <= calls'
  BY <1>0, <1>2, <1>4 DEF Counted
<1>5. ASSUME UNCHANGED flushing \/ flushing' = None
      PROVE  flushing' # None => flushing'.target <= calls'
                                 /\ flushing'.covers \subseteq 1..calls'
  <2>1. CASE UNCHANGED flushing
    BY <1>0, <1>1, <1>2, <2>1 DEF Counted
  <2> QED
    BY <1>5, <2>1
<1>6. CASE WriteEventLog
  <2>1. acked' \subseteq acked
             \cup {<<Task.thread, Task.event.round, Task.event.save>>}
        /\ UNCHANGED <<pendingFlush, flushing>>
    BY <1>6 DEF WriteEventLog
  <2>2. <<Task.thread, Task.event.round, Task.event.save>>
            \in Threads \X Rounds \X (1..calls')
    BY <1>1, <1>6, Logging
  <2>3. acked \subseteq Threads \X Rounds \X (1..calls')
    BY <1>1 DEF Counted
  <2>4. acked' \subseteq Threads \X Rounds \X (1..calls')
    BY <2>1, <2>2, <2>3
  <2> QED
    BY <1>4, <1>5, <2>1, <2>4 DEF Counted
<1>7. ASSUME NEW t \in Threads, NEW r \in Rounds, Save(t, r)
      PROVE  Counted'
  <2>1. (pendingFlush' = calls' \/ UNCHANGED pendingFlush)
        /\ UNCHANGED <<acked, flushing>>
    BY <1>7 DEF Save
  <2> QED
    BY <1>0, <1>3, <1>4, <1>5, <2>1 DEF Counted
<1>8. CASE Flush
  <2> DEFINE covers == {tasks[i].event.save : i \in
                           {j \in DOMAIN tasks : tasks[j].op = "log"
                                /\ tasks[j].mode = "async"}}
  <2>1. flushing' = [target |-> pendingFlush, covers |-> covers]
        /\ UNCHANGED <<acked, pendingFlush>> /\ pendingFlush # None
    BY <1>8 DEF Flush, historyVars
  <2>2. covers \subseteq 1..calls
    BY DEF InOrder
  <2>3. flushing'.target = pendingFlush /\ flushing'.covers = covers
    BY <2>1
  <2> HIDE DEF covers
  <2>4. flushing'.target <= calls' /\ flushing'.covers \subseteq 1..calls'
    BY <1>0, <1>1, <1>2, <2>1, <2>2, <2>3 DEF Counted
  <2> QED
    BY <1>3, <1>4, <2>1, <2>4 DEF Counted
<1>9. CASE /\ UNCHANGED acked
           /\ UNCHANGED pendingFlush \/ pendingFlush' = None
           /\ UNCHANGED flushing \/ flushing' = None
  BY <1>3, <1>4, <1>5, <1>9 DEF Counted
<1> QED
  BY <1>6, <1>7, <1>8, <1>9
     DEF Next, Microtask, vars, historyVars, SaveDeferred, AppendEvent, Fork,
         ForkSave, ForkReturn, ForkEvents, Delete, Unlink, FlushReturns,
         SetDurability, Crash

\* The snapshot is written with the call, a fork()'s in place of it.
LEMMA SnapshotsKept ==
    ASSUME TypeOK, Snapshots, [Next]_vars
    PROVE  Snapshots'
<1>0. /\ latest \in [Threads -> [Rounds -> 0..MaxCalls]]
      /\ snapshots \in [Threads -> [Rounds -> 0..MaxCalls]]
  BY DEF TypeOK
<1>1. ASSUME NEW t \in Threads, NEW r \in Rounds, Save(t, r)
      PROVE  Snapshots'
  <2>1. /\ snapshots' = [snapshots EXCEPT ![t][r] = calls']
        /\ latest' = [latest EXCEPT ![t][r] = calls']
    BY <1>1 DEF Save, SnapshotsAfterSave
  <2> QED
    BY <1>0, <2>1 DEF Snapshots
<1>2. CASE ForkSave
  <2>1. Task.thread \in Threads /\ Task.round \in Rounds
    BY <1>2, HeadTyped DEF ForkSave, Runs, ForkTask
  <2>2. CASE Task.data = 0
    BY <1>2, <2>2 DEF ForkSave, Snapshots
  <2>3. CASE Task.data # 0
    <3>1. /\ snapshots' = [snapshots EXCEPT
                              ![Task.thread][Task.round] = Task.data]
          /\ latest' = [latest EXCEPT ![Task.thread][Task.round] = 0]
      BY <1>2, <2>3 DEF ForkSave
    <3> QED
      BY <1>0, <2>1, <3>1 DEF Snapshots
  <2> QED
    BY <2>2, <2>3
<1>3. ASSUME NEW t \in Threads, Delete(t)
      PROVE  Snapshots'
  <2>1. /\ snapshots' = [snapshots EXCEPT ![t] = NoRounds]
        /\ latest' = [latest EXCEPT ![t] = NoRounds]
    BY <1>3 DEF Delete
  <2> QED
    BY <1>0, <2>1 DEF Snapshots
<1>4. CASE UNCHANGED <<snapshots, latest>>
  BY <1>4 DEF Snapshots
<1> QED
  BY <1>1, <1>2, <1>3, <1>4
     DEF Next, Microtask, vars, diskVars, historyVars, SaveDeferred, AppendEvent,
         Fork, ForkReturn, ForkEvents, WriteEventLog, Unlink, Flush,
         FlushReturns, SetDurability, Crash

\* The last save of a round is not removed by the steps of the queue.
LEMMA KeptKept ==
    ASSUME TypeOK, Counted, InOrder, Recoverable, Kept, [Next]_vars
    PROVE  Kept'
<1> DEFINE Safe(i) == LET t == tasks[i].thread
                          e == tasks[i].event
                      IN latest[t][e.round] = e.save => Stays(tasks, i, t)
           Found(a) == \E i \in DOMAIN log[a[1]] : log[a[1]][i].save = a[3]
<1>0. /\ calls \in Nat /\ acked \subseteq Threads \X Rounds \X (1..calls)
      /\ latest \in [Threads -> [Rounds -> 0..MaxCalls]]
      /\ tasks \in Seq(Tasks)
      /\ \A i \in DOMAIN tasks : i \in Nat /\ i >= 1
  BY LenProperties, DurableAssumption DEF TypeOK, Counted
<1>1. ASSUME NEW i \in DOMAIN tasks, tasks[i].op = "log"
      PROVE  /\ Safe(i) /\ tasks[i].thread \in Threads
             /\ tasks[i].event.round \in Rounds
             /\ tasks[i].event.save \in 1..calls
  BY <1>1, LogTaskTyped DEF Kept, InOrder, Events
<1>2. \A a \in acked : latest[a[1]][a[2]] = a[3] =>
          Found(a) /\ Stays(tasks, 0, a[1])
  BY DEF Kept
\* The log entries stay in the queue, and nothing is removed that was acknowledged.
<1>3. ASSUME NEW d \in {0, 1}, NEW new \in SUBSET Tasks,
             Turned(tasks, tasks', d, new), \A x \in new : x.op # "log",
             UNCHANGED acked,
             \A t \in Threads, r \in Rounds, c \in 1..calls :
                 latest'[t][r] = c =>
                     /\ latest[t][r] = c
                     /\ \A x \in new : x.op # "unlink" \/ x.thread # t
                     /\ (/\ Stays(tasks, 0, t)
                         /\ \E i \in DOMAIN log[t] : log[t][i].save = c)
                           => \E i \in DOMAIN log'[t] : log'[t][i].save = c
      PROVE  Kept'
  <2>1. ASSUME NEW i \in DOMAIN tasks', tasks'[i].op = "log",
               latest'[tasks'[i].thread][tasks'[i].event.round]
                   = tasks'[i].event.save
        PROVE  Stays(tasks', i, tasks'[i].thread)
    <3>1. i + d \in DOMAIN tasks /\ tasks'[i] = tasks[i + d] /\ i \in Nat
      BY <1>3, <2>1, WaitedBefore
    <3> DEFINE k == i + d
    <3> HIDE DEF k
    <3>2. /\ Safe(k) /\ tasks[k].thread \in Threads
          /\ tasks[k].event.round \in Rounds /\ tasks[k].event.save \in 1..calls
      BY <1>1, <2>1, <3>1 DEF k
    <3>3. /\ Stays(tasks, k, tasks[k].thread)
          /\ \A x \in new : x.op # "unlink" \/ x.thread # tasks[k].thread
      BY <1>3, <2>1, <3>1, <3>2 DEF k
    <3> QED
      BY <1>3, <3>1, <3>3, StaysOn DEF k
  <2>2. ASSUME NEW a \in acked', latest'[a[1]][a[2]] = a[3]
        PROVE  /\ \E i \in DOMAIN log'[a[1]] : log'[a[1]][i].save = a[3]
               /\ Stays(tasks', 0, a[1])
    <3>1. a \in acked /\ a[1] \in Threads /\ a[2] \in Rounds /\ a[3] \in 1..calls
      BY <1>0, <1>3, <2>2
    <3>2. /\ latest[a[1]][a[2]] = a[3]
          /\ \A x \in new : x.op # "unlink" \/ x.thread # a[1]
      BY <1>3, <2>2, <3>1
    <3>3. Found(a) /\ Stays(tasks, 0, a[1])
      BY <1>2, <3>1, <3>2
    <3>4. \E i \in DOMAIN log'[a[1]] : log'[a[1]][i].save = a[3]
      BY <1>3, <2>2, <3>1, <3>3
    <3>5. Stays(tasks', 0, a[1])
      BY <1>3, <3>2, <3>3, StaysOn
    <3> QED
      BY <3>4, <3>5
  <2> QED
    BY <2>1, <2>2 DEF Kept
\* So it is if the logs only grow and no delete() is called.
<1>4. ASSUME NEW d \in {0, 1}, NEW new \in SUBSET Tasks,
             Turned(tasks, tasks', d, new),
             \A x \in new : x.op # "log" /\ x.op # "unlink",
             UNCHANGED acked,
             \A t \in Threads, r \in Rounds :
                 latest'[t][r] = latest[t][r] \/ latest'[t][r] = 0,
             \A t \in Threads : \A i \in DOMAIN log[t] :
                 i \in DOMAIN log'[t] /\ log'[t][i] = log[t][i]
      PROVE  Kept'
  <2>1. ASSUME NEW t \in Threads, NEW r \in Rounds, NEW c \in 1..calls,
               latest'[t][r] = c
        PROVE  /\ latest[t][r] = c
               /\ \A x \in new : x.op # "unlink" \/ x.thread # t
               /\ (/\ Stays(tasks, 0, t)
                   /\ \E i \in DOMAIN log[t] : log[t][i].save = c)
                     => \E i \in DOMAIN log'[t] : log'[t][i].save = c
    <3>1. latest[t][r] = c
      BY <1>0, <1>4, <2>1
    <3> QED
      BY <1>4, <3>1
  <2>2. \A x \in new : x.op # "log"
    BY <1>4
  <2> QED
    BY <1>3, <1>4, <2>1, <2>2
<1>5. Turned(tasks, tasks, 0, {})
  BY <1>0, QueueStays
<1>6. ASSUME NEW t \in Threads, NEW r \in Rounds, Save(t, r)
      PROVE  Kept'
  <2> DEFINE x == [op |-> "log", thread |-> t, mode |-> mode,
                   event |-> Event(t, calls', r, FALSE)]
  <2>1. Turned(tasks, tasks', 0, {x})
    BY <1>6, QueueAfter
  <2>2. calls' = calls + 1 /\ UNCHANGED <<acked, log>>
        /\ latest' = [latest EXCEPT ![t][r] = calls']
    BY <1>6 DEF Save, Call
  <2>3. \A u \in Threads, q \in Rounds : latest'[u][q] = latest[u][q]
            \/ latest'[u][q] = calls + 1
    BY <1>0, <2>2
  <2>4. x.op = "log"
    OBVIOUS
  <2> HIDE DEF x
  <2>5. ASSUME NEW i \in DOMAIN tasks', tasks'[i].op = "log",
               latest'[tasks'[i].thread][tasks'[i].event.round]
                   = tasks'[i].event.save
        PROVE  Stays(tasks', i, tasks'[i].thread)
    <3>1. CASE i \in DOMAIN tasks /\ tasks'[i] = tasks[i]
      <4>1. /\ Safe(i) /\ tasks[i].thread \in Threads
            /\ tasks[i].event.round \in Rounds /\ tasks[i].event.save \in 1..calls
        BY <1>1, <2>5, <3>1
      <4>2. latest[tasks[i].thread][tasks[i].event.round] = tasks[i].event.save
        <5> DEFINE u == tasks[i].thread
                   q == tasks[i].event.round
                   c == tasks[i].event.save
        <5>1. u \in Threads /\ q \in Rounds /\ c \in 1..calls
              /\ latest'[u][q] = c
          BY <2>5, <3>1, <4>1
        <5> HIDE DEF u, q, c
        <5>2. latest'[u][q] = latest[u][q] \/ latest'[u][q] = calls + 1
          BY <2>3, <5>1
        <5>3. c # calls + 1
          BY <1>0, <5>1
        <5>4. latest[u][q] = c
          BY <5>1, <5>2, <5>3
        <5> QED
          BY <5>4 DEF u, q, c
      <4>3. Stays(tasks, i, tasks[i].thread) /\ i \in Nat
        BY <1>0, <3>1, <4>1, <4>2
      <4> QED
        BY <2>1, <2>4, <3>1, <4>3, StaysOn
    <3>2. CASE i = Len(tasks')
      BY <2>1, <3>2 DEF Stays, Turned
    <3> QED
      BY <2>1, <3>1, <3>2 DEF Turned
  <2>6. ASSUME NEW a \in acked', latest'[a[1]][a[2]] = a[3]
        PROVE  /\ \E i \in DOMAIN log'[a[1]] : log'[a[1]][i].save = a[3]
               /\ Stays(tasks', 0, a[1])
    <3>1. a \in acked /\ a[1] \in Threads /\ a[2] \in Rounds /\ a[3] \in 1..calls
      BY <1>0, <2>2, <2>6
    <3>2. latest[a[1]][a[2]] = a[3]
      BY <1>0, <2>3, <2>6, <3>1
    <3>3. Found(a) /\ Stays(tasks, 0, a[1])
      BY <1>2, <3>1, <3>2
    <3>4. Stays(tasks', 0, a[1])
      BY <2>1, <2>4, <3>3, StaysOn
    <3> QED
      BY <2>2, <3>3, <3>4
  <2> QED
    BY <2>5, <2>6 DEF Kept
<1>7. ASSUME NEW t \in Threads, NEW terminal \in BOOLEAN,
             AppendEvent(t, terminal)
      PROVE  Kept'
  <2>1. UNCHANGED <<tasks, acked, latest>>
    BY <1>7 DEF AppendEvent
  <2>2. \A u \in Threads : \A i \in DOMAIN log[u] :
            i \in DOMAIN log'[u] /\ log'[u][i] = log[u][i]
    BY <1>7, LogsGrow DEF Grown
  <2> QED
    BY <1>4, <1>5, <2>1, <2>2
<1>8. ASSUME NEW t \in Threads, NEW to \in Threads, NEW r \in Rounds,
             Fork(t, r, to)
      PROVE  Kept'
  <2> DEFINE x == [op |-> "forkSave", from |-> t, round |-> r,
                   thread |-> to, data |-> snapshots[t][r]]
  <2>1. Turned(tasks, tasks', 0, {x})
    BY <1>8, QueueAfter
  <2>2. x \in Tasks /\ x.op # "log" /\ x.op # "unlink"
    BY DEF Tasks, ForkTask, TypeOK
  <2>3. UNCHANGED <<acked, latest, log>>
    BY <1>8 DEF Fork, diskVars, historyVars
  <2> HIDE DEF x
  <2> QED
    BY <1>4, <2>1, <2>2, <2>3
<1>9. CASE WriteEventLog
  <2> DEFINE new == IF flushing # None /\ flushing.target = Task.event.save
                    THEN {[op |-> "flushed"]} ELSE {}
             b == <<Task.thread, Task.event.round, Task.event.save>>
  <2>1. Turned(tasks, tasks', 1, new)
    BY <1>9, QueueAfter
  <2>2. new \in SUBSET Tasks /\ \A x \in new : x.op # "log" /\ x.op # "unlink"
    BY DEF Tasks
  <2>3. UNCHANGED latest /\ acked' \subseteq acked \cup {b}
    BY <1>9 DEF WriteEventLog
  <2>4. \A u \in Threads : \A i \in DOMAIN log[u] :
            i \in DOMAIN log'[u] /\ log'[u][i] = log[u][i]
    BY <1>9, LogsGrow DEF Grown
  <2> HIDE DEF new, b
  <2>5. ASSUME NEW i \in DOMAIN tasks', tasks'[i].op = "log",
               latest'[tasks'[i].thread][tasks'[i].event.round]
                   = tasks'[i].event.save
        PROVE  Stays(tasks', i, tasks'[i].thread)
    <3>1. i + 1 \in DOMAIN tasks /\ tasks'[i] = tasks[i + 1] /\ i \in Nat
      BY <2>1, <2>2, <2>5, WaitedBefore
    <3> DEFINE k == i + 1
    <3> HIDE DEF k
    <3>2. Stays(tasks, k, tasks[k].thread)
      BY <1>1, <2>3, <2>5, <3>1 DEF k
    <3> QED
      BY <2>1, <2>2, <3>1, <3>2, StaysOn DEF k
  <2>6. ASSUME NEW a \in acked', latest'[a[1]][a[2]] = a[3]
        PROVE  /\ \E i \in DOMAIN log'[a[1]] : log'[a[1]][i].save = a[3]
               /\ Stays(tasks', 0, a[1])
    <3>1. CASE a \in acked
      <4>1. Found(a) /\ Stays(tasks, 0, a[1]) /\ a[1] \in Threads
        BY <1>0, <1>2, <2>3, <2>6, <3>1
      <4>2. \E i \in DOMAIN log'[a[1]] : log'[a[1]][i].save = a[3]
        BY <2>4, <4>1
      <4>3. Stays(tasks', 0, a[1])
        BY <2>1, <2>2, <4>1, StaysOn
      <4> QED
        BY <4>2, <4>3
    <3>2. CASE a = b
      <4>1. /\ Task = tasks[1] /\ 1 \in DOMAIN tasks /\ tasks[1].op = "log"
            /\ a[1] = Task.thread /\ a[2] = Task.event.round
            /\ a[3] = Task.event.save /\ Task.thread \in Threads
        BY <1>9, <3>2, Logging DEF b
      <4>2. Stays(tasks, 0 + 1, a[1])
        BY <1>1, <2>3, <2>6, <4>1
      <4>3. Stays(tasks', 0, a[1])
        BY <2>1, <2>2, <4>2, StaysOn
      <4>4. Grown(log[a[1]], log'[a[1]], {Task.event})
            /\ Len(log'[a[1]]) = Len(log[a[1]]) + 1
        BY <1>9, <4>1, LogsGrow
      <4>5. Len(log'[a[1]]) \in DOMAIN log'[a[1]]
            /\ log'[a[1]][Len(log'[a[1]])] = Task.event
        BY <4>4 DEF Grown
      <4> QED
        BY <4>1, <4>3, <4>5
    <3> QED
      BY <2>3, <3>1, <3>2
  <2> QED
    BY <2>5, <2>6 DEF Kept
<1>10. CASE ForkEvents
  <2>1. Turned(tasks, tasks', 1, {}) /\ UNCHANGED <<acked, latest>>
    BY <1>10, QueueAfter DEF ForkEvents
  <2>2. \A u \in Threads : \A i \in DOMAIN log[u] :
            i \in DOMAIN log'[u] /\ log'[u][i] = log[u][i]
    BY <1>10, LogsGrow DEF Grown
  <2> QED
    BY <1>4, <2>1, <2>2
<1>11. CASE ForkSave
  <2>1. PICK x \in ForkTask : Turned(tasks, tasks', 1, {x})
    BY <1>11, QueueAfter
  <2>2. x \in Tasks /\ x.op # "log" /\ x.op # "unlink"
    BY DEF Tasks, ForkTask
  <2>3. UNCHANGED <<acked, log>>
    BY <1>11 DEF ForkSave
  <2>4. \A t \in Threads, r \in Rounds :
            latest'[t][r] = latest[t][r] \/ latest'[t][r] = 0
    <3>1. Task.thread \in Threads /\ Task.round \in Rounds
      BY <1>11, HeadTyped DEF ForkSave, Runs, ForkTask
    <3>2. \/ latest' = latest
          \/ latest' = [latest EXCEPT ![Task.thread][Task.round] = 0]
      BY <1>11 DEF ForkSave
    <3> QED
      BY <1>0, <3>1, <3>2
  <2> QED
    BY <1>4, <2>1, <2>2, <2>3, <2>4
<1>12. CASE ForkReturn
  <2>1. PICK x \in ForkTask : Turned(tasks, tasks', 1, {x})
    BY <1>12, QueueAfter
  <2>2. x \in Tasks /\ x.op # "log" /\ x.op # "unlink"
    BY DEF Tasks, ForkTask
  <2>3. UNCHANGED <<acked, log, latest>>
    BY <1>12 DEF ForkReturn, diskVars, historyVars
  <2> QED
    BY <1>4, <2>1, <2>2, <2>3
<1>13. ASSUME NEW t \in Threads, Delete(t)
      PROVE  Kept'
  <2> DEFINE x == [op |-> "unlink", thread |-> t]
  <2>1. Turned(tasks, tasks', 0, {x}) /\ x \in Tasks /\ x.op # "log"
    BY <1>13, QueueAfter DEF Tasks, UnlinkTask
  <2>2. /\ UNCHANGED acked
        /\ latest' = [latest EXCEPT ![t] = NoRounds]
        /\ log' = [log EXCEPT ![t] = <<>>]
    BY <1>13 DEF Delete
  <2>3. \A u \in Threads, r \in Rounds, c \in 1..calls : latest'[u][r] = c =>
            /\ latest[u][r] = c /\ u # t /\ log'[u] = log[u]
    BY <1>0, <2>2 DEF NoRounds, TypeOK
  <2>4. x.thread = t
    OBVIOUS
  <2> HIDE DEF x
  <2> QED
    BY <1>3, <2>1, <2>2, <2>3, <2>4
<1>14. CASE Unlink
  <2> DEFINE t == Task.thread
  <2>1. Turned(tasks, tasks', 1, {}) /\ UNCHANGED <<acked, latest>>
    BY <1>14, QueueAfter DEF Unlink
  <2>2. log' = [log EXCEPT ![t] = <<>>]
    BY <1>14 DEF Unlink, LogAfterUnlink
  <2>3. ~Stays(tasks, 0, t)
    BY <1>14, HeadTyped DEF Unlink, Runs, Stays, UnlinkAt
  <2>4. \A u \in Threads : Stays(tasks, 0, u) => log'[u] = log[u]
    BY <2>2, <2>3 DEF TypeOK
  <2> QED
    BY <1>3, <2>1, <2>4
<1>15. CASE Flush
  <2> DEFINE new == IF Queued(pendingFlush) THEN {} ELSE {[op |-> "flushed"]}
  <2>1. Turned(tasks, tasks', 0, new)
    BY <1>15, QueueAfter
  <2>2. new \in SUBSET Tasks /\ \A x \in new : x.op # "log" /\ x.op # "unlink"
    BY DEF Tasks
  <2>3. UNCHANGED <<acked, latest, log>>
    BY <1>15 DEF Flush, diskVars, historyVars
  <2> HIDE DEF new
  <2> QED
    BY <1>4, <2>1, <2>2, <2>3
<1>16. CASE FlushReturns
  <2>1. Turned(tasks, tasks', 1, {}) /\ UNCHANGED <<acked, latest, log>>
    BY <1>16, QueueAfter DEF FlushReturns, diskVars, historyVars
  <2> QED
    BY <1>4, <2>1
<1>17. CASE Crash
  <2>1. tasks' = <<>> /\ UNCHANGED <<acked, latest, log>>
    BY <1>17 DEF Crash, diskVars, historyVars
  <2> QED
    BY <1>2, <2>1 DEF Kept, Stays
<1>18. CASE UNCHANGED <<tasks, acked, latest, log>>
  BY <1>4, <1>5, <1>18
<1> QED
  BY <1>6, <1>7, <1>8, <1>9, <1>10, <1>11, <1>12, <1>13, <1>14, <1>15, <1>16,
     <1>17, <1>18
     DEF Next, Microtask, vars, diskVars, historyVars, SaveDeferred, SetDurability

\* A log entry that stays keeps its snapshot; one acknowledged is not followed
\* by a terminal event.
LEMMA RecoverableKept ==
    ASSUME TypeOK, Counted, InOrder, Recoverable, [Next]_vars
    PROVE  Recoverable'
<1> DEFINE Written(l) == \A i \in DOMAIN l : l[i].round # None => ~l[i].terminal
           Open(l) == Len(l) > 0 /\ ~l[Len(l)].terminal
<1>0. /\ tasks \in Seq(Tasks)
      /\ \A i \in DOMAIN tasks : i \in Nat /\ i >= 1
      /\ snapshots \in [Threads -> [Rounds -> 0..MaxCalls]]
      /\ lastAck \in [Threads -> 0..MaxCalls]
      /\ log \in [Threads -> Seq(Events)]
      /\ 0 \in Rounds
  BY LenProperties, DurableAssumption DEF TypeOK, Rounds
<1>1. \A t \in Threads : Written(log[t])
  BY DEF Recoverable
<1>2. \A t \in Threads : \A i \in DOMAIN tasks :
          LogAt(tasks, i, t) /\ Stays(tasks, i, t) => HasSnapshot(t)
  BY DEF Recoverable
<1>3. \A t \in Threads : lastAck[t] # 0 =>
          Open(log[t]) /\ HasSnapshot(t) /\ Stays(tasks, 0, t)
  BY DEF Recoverable
\* Whatever happens to the queue, what has a snapshot keeps it.
<1>4. ASSUME NEW d \in {0, 1}, NEW new \in SUBSET Tasks,
             Turned(tasks, tasks', d, new), \A x \in new : x.op # "log",
             \A t \in Threads : \/ HasSnapshot(t) => HasSnapshot(t)'
                                \/ /\ new # {}
                                   /\ \A x \in new :
                                          x.op = "unlink" /\ x.thread = t
      PROVE  \A t \in Threads : \A i \in DOMAIN tasks' :
                 LogAt(tasks', i, t) /\ Stays(tasks', i, t) => HasSnapshot(t)'
  <2>1. SUFFICES ASSUME NEW t \in Threads, NEW i \in DOMAIN tasks',
                        LogAt(tasks', i, t), Stays(tasks', i, t)
                 PROVE  HasSnapshot(t)'
    OBVIOUS
  <2>2. i + d \in DOMAIN tasks /\ tasks'[i] = tasks[i + d] /\ i \in Nat
    BY <1>4, <2>1, WaitedBefore DEF LogAt
  <2>3. LogAt(tasks, i + d, t)
    BY <2>1, <2>2 DEF LogAt
  <2>4. ASSUME NEW j \in DOMAIN tasks, j > i + d
        PROVE  ~UnlinkAt(tasks, j, t)
    <3>1. j - d \in DOMAIN tasks' /\ tasks'[j - d] = tasks[j] /\ j - d > i
      BY <1>4, <2>2, <2>4 DEF Turned
    <3> QED
      BY <2>1, <3>1 DEF Stays, UnlinkAt
  <2>5. HasSnapshot(t)
    <3>1. Stays(tasks, i + d, t)
      BY <2>4 DEF Stays
    <3> QED
      BY <1>2, <2>2, <2>3, <3>1
  <2>6. ASSUME new # {}, \A x \in new : x.op = "unlink" /\ x.thread = t
        PROVE  FALSE
    <3> DEFINE n == Len(tasks')
    <3>1. n \in DOMAIN tasks' /\ tasks'[n] \in new
      BY <1>4, <2>6 DEF Turned
    <3>2. n \in Nat /\ DOMAIN tasks' = 1..n
      BY <1>4 DEF Turned
    <3> HIDE DEF n
    <3>3. n >= i
      BY <2>1, <2>2, <3>2
    <3>4. UnlinkAt(tasks', n, t) /\ tasks'[n].op = "unlink"
      BY <2>6, <3>1 DEF UnlinkAt
    <3>5. n # i
      BY <2>1, <3>4 DEF LogAt
    <3> QED
      BY <2>1, <2>2, <3>1, <3>2, <3>3, <3>4, <3>5 DEF Stays
  <2> QED
    BY <1>4, <2>5, <2>6
\* A step that deletes nothing, and leaves the logs that count open.
<1>5. ASSUME NEW d \in {0, 1}, NEW new \in SUBSET Tasks,
             Turned(tasks, tasks', d, new),
             \A x \in new : x.op # "log" /\ x.op # "unlink",
             \A t \in Threads : HasSnapshot(t) => HasSnapshot(t)',
             \A t \in Threads : Written(log'[t]),
             \A t \in Threads : lastAck'[t] # 0 =>
                 /\ Open(log'[t])
                 /\ lastAck[t] # 0 \/ (HasSnapshot(t) /\ Stays(tasks, d, t))
      PROVE  Recoverable'
  <2>1. ASSUME NEW t \in Threads, lastAck'[t] # 0
        PROVE  Open(log'[t]) /\ HasSnapshot(t)' /\ Stays(tasks', 0, t)
    <3>1. HasSnapshot(t) /\ (Stays(tasks, 0, t) \/ Stays(tasks, 0 + d, t))
      BY <1>3, <1>5, <2>1
    <3>2. Stays(tasks', 0, t)
      BY <1>5, <3>1, StaysOn
    <3> QED
      BY <1>5, <2>1, <3>1, <3>2
  <2>2. \A t \in Threads : \A i \in DOMAIN tasks' :
            LogAt(tasks', i, t) /\ Stays(tasks', i, t) => HasSnapshot(t)'
    BY <1>4, <1>5
  <2> QED
    BY <1>5, <2>1, <2>2 DEF Recoverable
\* In particular one that leaves the logs and what was acknowledged alone.
<1>6. ASSUME NEW d \in {0, 1}, NEW new \in SUBSET Tasks,
             Turned(tasks, tasks', d, new),
             \A x \in new : x.op # "log" /\ x.op # "unlink",
             \A t \in Threads : HasSnapshot(t) => HasSnapshot(t)',
             UNCHANGED <<log, lastAck>>
      PROVE  Recoverable'
  <2>1. \A t \in Threads : Written(log'[t]) /\ (lastAck'[t] # 0 =>
            Open(log'[t]) /\ lastAck[t] # 0)
    BY <1>1, <1>3, <1>6
  <2> HIDE DEF Written, Open
  <2> QED
    BY <1>5, <1>6, <2>1
<1>7. Turned(tasks, tasks, 0, {})
  BY <1>0, QueueStays
<1>8. ASSUME UNCHANGED snapshots, NEW t \in Threads, HasSnapshot(t)
      PROVE  HasSnapshot(t)'
  BY <1>8 DEF HasSnapshot
\* A log that grows by events that belong in one.
<1>9. ASSUME NEW old, NEW new, NEW E, Grown(old, new, E), Written(old),
             \A e \in E : e.round # None => ~e.terminal
      PROVE  Written(new)
  BY <1>9 DEF Grown
<1>10. ASSUME NEW t \in Threads, NEW r \in Rounds, Save(t, r)
       PROVE  Recoverable'
  <2> DEFINE x == [op |-> "log", thread |-> t, mode |-> mode,
                   event |-> Event(t, calls', r, FALSE)]
  <2>1. Turned(tasks, tasks', 0, {x})
    BY <1>10, QueueAfter
  <2>2. /\ calls' = calls + 1 /\ calls \in Nat /\ UNCHANGED <<lastAck, log>>
        /\ snapshots' = [snapshots EXCEPT ![t][r] = calls']
    BY <1>10, DurableAssumption DEF Save, Call, SnapshotsAfterSave, TypeOK
  <2>3. \A u \in Threads : HasSnapshot(u) => HasSnapshot(u)'
    BY <1>0, <2>2 DEF HasSnapshot
  <2>4. HasSnapshot(t)'
    BY <1>0, <2>2 DEF HasSnapshot
  <2>5. x.op = "log" /\ x.thread = t
    OBVIOUS
  <2> HIDE DEF x
  <2>6. ASSUME NEW u \in Threads, NEW i \in DOMAIN tasks',
               LogAt(tasks', i, u), Stays(tasks', i, u)
        PROVE  HasSnapshot(u)'
    <3>1. CASE i \in DOMAIN tasks /\ tasks'[i] = tasks[i]
      <4>1. LogAt(tasks, i, u) /\ Stays(tasks, i, u)
        <5>1. \A j \in DOMAIN tasks : j \in DOMAIN tasks' /\ tasks'[j] = tasks[j]
          BY <1>0, <2>1 DEF Turned
        <5> QED
          BY <2>6, <3>1, <5>1 DEF Stays, LogAt, UnlinkAt
      <4> QED
        BY <1>2, <2>3, <3>1, <4>1
    <3>2. CASE tasks'[i] = x
      BY <2>4, <2>5, <2>6, <3>2 DEF LogAt
    <3> QED
      BY <2>1, <3>1, <3>2 DEF Turned
  <2>7. ASSUME NEW u \in Threads, lastAck'[u] # 0
        PROVE  Open(log'[u]) /\ HasSnapshot(u)' /\ Stays(tasks', 0, u)
    <3>1. Open(log[u]) /\ HasSnapshot(u) /\ Stays(tasks, 0, u)
      BY <1>3, <2>2, <2>7
    <3>2. Stays(tasks', 0, u)
      BY <2>1, <2>5, <3>1, StaysOn
    <3> QED
      BY <2>2, <2>3, <3>1, <3>2
  <2>8. \A u \in Threads : Written(log'[u])
    BY <1>1, <2>2
  <2> QED
    BY <2>6, <2>7, <2>8 DEF Recoverable
<1>11. ASSUME NEW t \in Threads, NEW terminal \in BOOLEAN,
              AppendEvent(t, terminal)
       PROVE  Recoverable'
  <2> DEFINE e == Event(t, 0, None, terminal)
  <2>1. /\ UNCHANGED <<tasks, snapshots>>
        /\ lastAck' = IF terminal THEN [lastAck EXCEPT ![t] = 0] ELSE lastAck
    BY <1>11 DEF AppendEvent
  <2>2. /\ Grown(log[t], log'[t], {e}) /\ Len(log'[t]) = Len(log[t]) + 1
        /\ \A u \in Threads \ {t} : log'[u] = log[u]
    BY <1>11, LogsGrow
  <2>3. e.round = None /\ e.terminal = terminal
    BY DEF Event
  <2> HIDE DEF e
  <2>4. Written(log'[t])
    BY <1>1, <1>9, <2>2, <2>3
  <2>5. log'[t][Len(log'[t])] = e /\ Len(log'[t]) > 0
    BY <2>2 DEF Grown
  <2>6. \A u \in Threads : Written(log'[u])
    BY <1>1, <2>2, <2>4
  <2>7. ASSUME NEW u \in Threads, lastAck'[u] # 0
        PROVE  Open(log'[u]) /\ lastAck[u] # 0
    <3>1. lastAck[u] # 0 /\ (u = t => ~terminal)
      BY <1>0, <2>1, <2>7
    <3> QED
      BY <1>3, <2>2, <2>3, <2>5, <3>1
  <2>8. \A u \in Threads : HasSnapshot(u) => HasSnapshot(u)'
    BY <1>8, <2>1
  <2> HIDE DEF Written, Open
  <2> QED
    BY <1>5, <1>7, <2>1, <2>6, <2>7, <2>8
<1>12. ASSUME NEW t \in Threads, NEW to \in Threads, NEW r \in Rounds,
              Fork(t, r, to)
       PROVE  Recoverable'
  <2> DEFINE x == [op |-> "forkSave", from |-> t, round |-> r,
                   thread |-> to, data |-> snapshots[t][r]]
  <2>1. Turned(tasks, tasks', 0, {x})
    BY <1>12, QueueAfter
  <2>2. x \in Tasks /\ x.op # "log" /\ x.op # "unlink"
    BY <1>0 DEF Tasks, ForkTask
  <2>3. UNCHANGED <<log, lastAck, snapshots>>
    BY <1>12 DEF Fork, diskVars, historyVars
  <2> HIDE DEF x
  <2> QED
    BY <1>6, <1>8, <2>1, <2>2, <2>3
<1>13. CASE WriteEventLog
  <2> DEFINE new == IF flushing # None /\ flushing.target = Task.event.save
                    THEN {[op |-> "flushed"]} ELSE {}
             t == Task.thread
  <2>1. Turned(tasks, tasks', 1, new)
    BY <1>13, QueueAfter
  <2>2. new \in SUBSET Tasks /\ \A x \in new : x.op # "log" /\ x.op # "unlink"
    BY DEF Tasks
  <2>3. /\ UNCHANGED snapshots
        /\ lastAck' = IF Task.mode = "sync" /\ ~DeletePending(t)
                      THEN [lastAck EXCEPT ![t] = Task.event.save] ELSE lastAck
    BY <1>13 DEF WriteEventLog
  <2>4. /\ t \in Threads
        /\ Grown(log[t], log'[t], {Task.event}) /\ Len(log'[t]) = Len(log[t]) + 1
        /\ \A u \in Threads \ {t} : log'[u] = log[u]
    BY <1>13, LogsGrow
  <2>5. ~Task.event.terminal /\ LogAt(tasks, 1, t) /\ 1 \in DOMAIN tasks
    BY <1>13, Logging DEF LogAt
  <2> HIDE DEF new, t
  <2>6. Written(log'[t])
    BY <1>1, <1>9, <2>4, <2>5
  <2>7. log'[t][Len(log'[t])] = Task.event /\ Len(log'[t]) > 0
    BY <2>4 DEF Grown
  <2>8. \A u \in Threads : Written(log'[u])
    BY <1>1, <2>4, <2>6
  <2>9. ASSUME NEW u \in Threads, lastAck'[u] # 0
        PROVE  /\ Open(log'[u])
               /\ lastAck[u] # 0 \/ (HasSnapshot(u) /\ Stays(tasks, 1, u))
    <3>1. CASE u = t
      <4>1. lastAck[t] # 0 \/ ~DeletePending(t)
        BY <1>0, <2>3, <2>9, <3>1
      <4>2. ~DeletePending(t) => Stays(tasks, 1, t)
        BY DEF DeletePending, Stays, UnlinkAt
      <4>3. lastAck[t] # 0 \/ (HasSnapshot(t) /\ Stays(tasks, 1, t))
        BY <1>2, <2>4, <2>5, <4>1, <4>2
      <4> QED
        BY <2>5, <2>7, <3>1, <4>3
    <3>2. CASE u # t
      BY <1>0, <1>3, <2>3, <2>4, <2>9, <3>2
    <3> QED
      BY <3>1, <3>2
  <2>10. \A u \in Threads : HasSnapshot(u) => HasSnapshot(u)'
    BY <1>8, <2>3
  <2> HIDE DEF Written, Open
  <2> QED
    BY <1>5, <2>1, <2>2, <2>8, <2>9, <2>10
<1>14. CASE ForkEvents
  <2> DEFINE t == Task.thread
  <2>1. Turned(tasks, tasks', 1, {}) /\ UNCHANGED <<snapshots, lastAck>>
    BY <1>14, QueueAfter DEF ForkEvents
  <2>2. /\ t \in Threads /\ Grown(log[t], log'[t], Copies)
        /\ \A u \in Threads \ {t} : log'[u] = log[u]
    BY <1>14, LogsGrow
  <2> HIDE DEF t
  <2>3. \A e \in Copies : ~e.terminal
    BY DEF Copies
  <2>4. \A u \in Threads : Written(log'[u])
    BY <1>1, <1>9, <2>2, <2>3
  <2>5. Open(log[t]) => Open(log'[t])
    BY <2>2, <2>3 DEF Grown
  <2>6. \A u \in Threads : lastAck'[u] # 0 => Open(log'[u]) /\ lastAck[u] # 0
    BY <1>3, <2>1, <2>2, <2>5
  <2>7. \A u \in Threads : HasSnapshot(u) => HasSnapshot(u)'
    BY <1>8, <2>1
  <2> HIDE DEF Written, Open
  <2> QED
    BY <1>5, <2>1, <2>4, <2>6, <2>7
<1>15. CASE ForkSave
  <2>1. PICK x \in ForkTask : Turned(tasks, tasks', 1, {x})
    BY <1>15, QueueAfter
  <2>2. x \in Tasks /\ x.op # "log" /\ x.op # "unlink"
    BY DEF Tasks, ForkTask
  <2>3. UNCHANGED <<log, lastAck>>
    BY <1>15 DEF ForkSave
  <2>4. \A t \in Threads : HasSnapshot(t) => HasSnapshot(t)'
    <3>1. Task.thread \in Threads /\ Task.round \in Rounds
      BY <1>15, HeadTyped DEF ForkSave, Runs, ForkTask
    <3>2. \/ snapshots' = snapshots
          \/ /\ Task.data # 0
             /\ snapshots' = [snapshots EXCEPT
                                 ![Task.thread][Task.round] = Task.data]
      BY <1>15 DEF ForkSave
    <3>3. ASSUME NEW t \in Threads, NEW r \in Rounds, snapshots[t][r] # 0
          PROVE  snapshots'[t][r] # 0
      BY <1>0, <3>1, <3>2, <3>3
    <3> QED
      BY <3>3 DEF HasSnapshot
  <2> QED
    BY <1>6, <2>1, <2>2, <2>3, <2>4
<1>16. CASE ForkReturn
  <2>1. PICK x \in ForkTask : Turned(tasks, tasks', 1, {x})
    BY <1>16, QueueAfter
  <2>2. x \in Tasks /\ x.op # "log" /\ x.op # "unlink"
    BY DEF Tasks, ForkTask
  <2>3. UNCHANGED <<log, lastAck, snapshots>>
    BY <1>16 DEF ForkReturn, diskVars, historyVars
  <2> QED
    BY <1>6, <1>8, <2>1, <2>2, <2>3
<1>17. ASSUME NEW t \in Threads, Delete(t)
       PROVE  Recoverable'
  <2> DEFINE x == [op |-> "unlink", thread |-> t]
  <2>1. Turned(tasks, tasks', 0, {x}) /\ x \in Tasks /\ x.op = "unlink"
        /\ x.thread = t
    BY <1>17, QueueAfter DEF Tasks, UnlinkTask
  <2>2. /\ snapshots' = [snapshots EXCEPT ![t] = NoRounds]
        /\ log' = [log EXCEPT ![t] = <<>>]
        /\ lastAck' = [lastAck EXCEPT ![t] = 0]
    BY <1>17 DEF Delete
  <2> HIDE DEF x
  <2>3. \A u \in Threads : (HasSnapshot(u) => HasSnapshot(u)') \/ u = t
    BY <1>0, <2>2 DEF HasSnapshot
  <2>4. \A u \in Threads : \A i \in DOMAIN tasks' :
            LogAt(tasks', i, u) /\ Stays(tasks', i, u) => HasSnapshot(u)'
    <3>1. \A y \in {x} : y.op # "log"
      BY <2>1
    <3>2. \A u \in Threads : \/ HasSnapshot(u) => HasSnapshot(u)'
                             \/ /\ {x} # {}
                                /\ \A y \in {x} :
                                       y.op = "unlink" /\ y.thread = u
      BY <2>1, <2>3
    <3> QED
      BY <1>4, <2>1, <3>1, <3>2
  <2>5. \A u \in Threads : Written(log'[u])
    BY <1>0, <1>1, <2>2
  <2>6. ASSUME NEW u \in Threads, lastAck'[u] # 0
        PROVE  Open(log'[u]) /\ HasSnapshot(u)' /\ Stays(tasks', 0, u)
    <3>1. u # t /\ lastAck[u] # 0 /\ log'[u] = log[u]
      BY <1>0, <2>2, <2>6
    <3>2. Stays(tasks', 0, u)
      BY <1>3, <2>1, <3>1, StaysOn
    <3> QED
      BY <1>3, <2>3, <3>1, <3>2
  <2> QED
    BY <2>4, <2>5, <2>6 DEF Recoverable
<1>18. CASE Unlink
  <2> DEFINE t == Task.thread
  <2>1. Turned(tasks, tasks', 1, {}) /\ UNCHANGED <<snapshots, lastAck>>
    BY <1>18, QueueAfter DEF Unlink
  <2>2. log' = [log EXCEPT ![t] = <<>>]
    BY <1>18 DEF Unlink, LogAfterUnlink
  <2>3. ~Stays(tasks, 0, t)
    BY <1>18, HeadTyped DEF Unlink, Runs, Stays, UnlinkAt
  <2>4. \A u \in Threads : Written(log'[u])
    BY <1>0, <1>1, <2>2
  <2>5. \A u \in Threads : lastAck'[u] # 0 => Open(log'[u]) /\ lastAck[u] # 0
    BY <1>0, <1>3, <2>1, <2>2, <2>3
  <2>6. \A u \in Threads : HasSnapshot(u) => HasSnapshot(u)'
    BY <1>8, <2>1
  <2> HIDE DEF Written, Open
  <2> QED
    BY <1>5, <2>1, <2>4, <2>5, <2>6
<1>19. CASE Flush
  <2> DEFINE new == IF Queued(pendingFlush) THEN {} ELSE {[op |-> "flushed"]}
  <2>1. Turned(tasks, tasks', 0, new)
    BY <1>19, QueueAfter
  <2>2. new \in SUBSET Tasks /\ \A x \in new : x.op # "log" /\ x.op # "unlink"
    BY DEF Tasks
  <2>3. UNCHANGED <<lastAck, snapshots, log>>
    BY <1>19 DEF Flush, diskVars, historyVars
  <2> HIDE DEF new
  <2> QED
    BY <1>6, <1>8, <2>1, <2>2, <2>3
<1>20. CASE FlushReturns
  <2>1. Turned(tasks, tasks', 1, {}) /\ UNCHANGED <<lastAck, snapshots, log>>
    BY <1>20, QueueAfter DEF FlushReturns, diskVars, historyVars
  <2> QED
    BY <1>6, <1>8, <2>1
<1>21. CASE Crash
  <2>1. tasks' = <<>> /\ UNCHANGED <<lastAck, snapshots, log>>
    BY <1>21 DEF Crash, diskVars, historyVars
  <2>2. DOMAIN tasks' = {}
    BY <2>1
  <2> QED
    BY <1>1, <1>3, <1>8, <2>1, <2>2 DEF Recoverable, Stays
<1>22. CASE UNCHANGED <<tasks, lastAck, snapshots, log>>
  BY <1>6, <1>7, <1>8, <1>22
<1> QED
  BY <1>10, <1>11, <1>12, <1>13, <1>14, <1>15, <1>16, <1>17, <1>18, <1>19,
     <1>20, <1>21, <1>22
     DEF Next, Microtask, vars, diskVars, historyVars, SaveDeferred, SetDurability

\* What delete() removed stays removed: a thread in use again while a delete()
\* of it is queued is not one whose delete() is over.
LEMMA DeletedKept ==
    ASSUME TypeOK, InOrder, Deleted, [Next]_vars
    PROVE  Deleted'
<1> DEFINE Removing == \A t \in Threads : \A i \in DOMAIN tasks :
               UnlinkAt(tasks, i, t) =>
                   \/ snapshots[t] = NoRounds
                   \/ \E j \in DOMAIN tasks :
                          j > i /\ tasks[j].op # "flushed" /\ tasks[j].thread = t
           Removed(t) == /\ snapshots[t] = NoRounds /\ log[t] = <<>>
                         /\ \A i \in DOMAIN tasks : ~LogAt(tasks, i, t)
<1>0. /\ tasks \in Seq(Tasks) /\ gone \subseteq Threads
      /\ \A i \in DOMAIN tasks : i \in Nat /\ i >= 1
      /\ snapshots \in [Threads -> [Rounds -> 0..MaxCalls]]
      /\ log \in [Threads -> Seq(Events)]
  BY LenProperties DEF TypeOK
<1>a. \A u \in gone : u \in Threads
  BY <1>0
<1>1. Removing /\ \A t \in gone : Removed(t)
  BY DEF Deleted
<1>2. (Removing' /\ \A t \in gone' : Removed(t)') => Deleted'
  BY DEF Deleted
<1>3. Turned(tasks, tasks, 0, {})
  BY <1>0, QueueStays
\* A thread that gets a snapshot again has a task queued.
<1>4. ASSUME NEW d \in {0, 1}, NEW new, Turned(tasks, tasks', d, new),
             \A x \in new : x.op = "unlink" => snapshots'[x.thread] = NoRounds,
             \A u \in Threads : \/ snapshots'[u] = snapshots[u]
                                \/ snapshots'[u] = NoRounds
                                \/ /\ new # {}
                                   /\ \A x \in new : /\ x.op # "flushed"
                                                     /\ x.op # "unlink"
                                                     /\ x.thread = u
      PROVE  Removing'
  <2>1. SUFFICES ASSUME NEW t \in Threads, NEW i \in DOMAIN tasks',
                        UnlinkAt(tasks', i, t), snapshots'[t] # NoRounds
                 PROVE  \E j \in DOMAIN tasks' : /\ j > i
                                                 /\ tasks'[j].op # "flushed"
                                                 /\ tasks'[j].thread = t
    OBVIOUS
  <2>2. i + d \in DOMAIN tasks /\ tasks'[i] = tasks[i + d] /\ i \in Nat
    BY <1>4, <2>1 DEF Turned, UnlinkAt
  <2>3. UnlinkAt(tasks, i + d, t)
    BY <2>1, <2>2 DEF UnlinkAt
  <2>4. CASE snapshots'[t] = snapshots[t]
    <3>1. PICK j \in DOMAIN tasks : /\ j > i + d /\ tasks[j].op # "flushed"
                                    /\ tasks[j].thread = t
      BY <1>1, <2>1, <2>2, <2>3, <2>4
    <3>2. j - d \in DOMAIN tasks' /\ tasks'[j - d] = tasks[j] /\ j - d > i
      BY <1>4, <2>2, <3>1 DEF Turned
    <3> QED
      BY <3>1, <3>2
  <2>5. CASE /\ new # {}
             /\ \A x \in new : /\ x.op # "flushed" /\ x.op # "unlink"
                               /\ x.thread = t
    <3> DEFINE n == Len(tasks')
    <3>1. n \in DOMAIN tasks' /\ tasks'[n] \in new
          /\ n \in Nat /\ DOMAIN tasks' = 1..n
      BY <1>4, <2>5 DEF Turned
    <3> HIDE DEF n
    <3>2. n # i
      BY <2>1, <2>5, <3>1 DEF UnlinkAt
    <3>3. n > i
      BY <2>1, <2>2, <3>1, <3>2
    <3> QED
      BY <2>5, <3>1, <3>3
  <2> QED
    BY <1>4, <2>1, <2>4, <2>5
\* A thread that is gone gets nothing back.
<1>5. ASSUME NEW d \in {0, 1}, NEW new, Turned(tasks, tasks', d, new),
             \A x \in new : x.op = "log" => x.thread \notin gone',
             \A u \in gone' : /\ u \in gone
                              /\ snapshots'[u] \in {snapshots[u], NoRounds}
                              /\ log'[u] \in {log[u], <<>>}
      PROVE  \A u \in gone' : Removed(u)'
  <2>1. SUFFICES ASSUME NEW u \in gone', NEW i \in DOMAIN tasks',
                        LogAt(tasks', i, u)
                 PROVE  FALSE
    BY <1>1, <1>5
  <2>2. CASE i + d \in DOMAIN tasks /\ tasks'[i] = tasks[i + d]
    <3>1. LogAt(tasks, i + d, u)
      BY <2>1, <2>2 DEF LogAt
    <3> QED
      BY <1>1, <1>5, <2>2, <3>1
  <2>3. CASE tasks'[i] \in new
    BY <1>5, <2>1, <2>3 DEF LogAt
  <2> QED
    BY <1>5, <2>2, <2>3 DEF Turned
<1> HIDE DEF Removing, Removed
<1>6. ASSUME NEW t \in Threads, NEW r \in Rounds, Save(t, r)
      PROVE  Deleted'
  <2> DEFINE x == [op |-> "log", thread |-> t, mode |-> mode,
                   event |-> Event(t, calls', r, FALSE)]
  <2>1. Turned(tasks, tasks', 0, {x})
    BY <1>6, QueueAfter
  <2>2. x.op = "log" /\ x.thread = t
    OBVIOUS
  <2>3. /\ snapshots' = [snapshots EXCEPT ![t][r] = calls']
        /\ gone' = gone \ {t} /\ log' = log
    BY <1>6 DEF Save, SnapshotsAfterSave
  <2>4. \A u \in Threads : snapshots'[u] = snapshots[u] \/ u = t
    BY <1>0, <2>3
  <2> HIDE DEF x
  <2>5. Removing'
    BY <1>4, <2>1, <2>2, <2>4
  <2>6. \A u \in gone' : Removed(u)'
    BY <1>a, <1>5, <2>1, <2>2, <2>3, <2>4
  <2> QED
    BY <1>2, <2>5, <2>6
<1>7. ASSUME NEW t \in Threads, NEW terminal \in BOOLEAN,
             AppendEvent(t, terminal)
      PROVE  Deleted'
  <2>1. UNCHANGED <<tasks, snapshots>> /\ gone' = gone \ {t}
    BY <1>7 DEF AppendEvent
  <2>2. \A u \in Threads \ {t} : log'[u] = log[u]
    BY <1>7, LogAfter, <1>0
  <2>3. Removing'
    BY <1>3, <1>4, <2>1
  <2>4. \A u \in gone' : Removed(u)'
    BY <1>a, <1>3, <1>5, <2>1, <2>2
  <2> QED
    BY <1>2, <2>3, <2>4
<1>8. ASSUME NEW t \in Threads, NEW to \in Threads, NEW r \in Rounds,
             Fork(t, r, to)
      PROVE  Deleted'
  <2> DEFINE x == [op |-> "forkSave", from |-> t, round |-> r,
                   thread |-> to, data |-> snapshots[t][r]]
  <2>1. Turned(tasks, tasks', 0, {x})
    BY <1>8, QueueAfter
  <2>2. UNCHANGED <<snapshots, log, gone>>
    BY <1>8 DEF Fork, diskVars, historyVars
  <2>3. x.op = "forkSave"
    OBVIOUS
  <2> HIDE DEF x
  <2>4. Removing'
    BY <1>4, <2>1, <2>2, <2>3
  <2>5. \A u \in gone' : Removed(u)'
    BY <1>5, <2>1, <2>2, <2>3
  <2> QED
    BY <1>2, <2>4, <2>5
<1>9. CASE WriteEventLog
  <2> DEFINE new == IF flushing # None /\ flushing.target = Task.event.save
                    THEN {[op |-> "flushed"]} ELSE {}
             t == Task.thread
  <2>1. Turned(tasks, tasks', 1, new) /\ UNCHANGED <<snapshots, gone>>
    BY <1>9, QueueAfter DEF WriteEventLog
  <2>2. \A x \in new : x.op = "flushed"
    OBVIOUS
  <2>3. /\ t \in Threads /\ LogAt(tasks, 1, t) /\ 1 \in DOMAIN tasks
        /\ \A u \in Threads \ {t} : log'[u] = log[u]
    BY <1>0, <1>9, Logging, LogAfter DEF LogAt
  <2> HIDE DEF new, t
  <2>4. t \notin gone
    BY <1>1, <2>3 DEF Removed
  <2>5. Removing'
    BY <1>4, <2>1, <2>2
  <2>6. \A u \in gone' : Removed(u)'
    BY <1>a, <1>5, <2>1, <2>2, <2>3, <2>4
  <2> QED
    BY <1>2, <2>5, <2>6
<1>10. CASE ForkEvents
  <2> DEFINE t == Task.thread
  <2>1. Turned(tasks, tasks', 1, {}) /\ UNCHANGED snapshots
        /\ gone' = gone \ {t}
    BY <1>10, QueueAfter DEF ForkEvents
  <2>2. \A u \in Threads \ {t} : log'[u] = log[u]
    BY <1>0, <1>10 DEF ForkEvents
  <2> HIDE DEF t
  <2>3. Removing'
    BY <1>4, <2>1
  <2>4. \A u \in gone' : Removed(u)'
    BY <1>a, <1>5, <2>1, <2>2
  <2> QED
    BY <1>2, <2>3, <2>4
<1>11. CASE ForkSave
  <2> DEFINE t == Task.thread
  <2>1. PICK x \in ForkTask : x.thread = t /\ Turned(tasks, tasks', 1, {x})
    BY <1>11, QueueAfter
  <2>2. x.op # "log" /\ x.op # "unlink" /\ x.op # "flushed"
    BY DEF ForkTask
  <2>3. gone' = gone \ {t} /\ log' = log
    BY <1>11 DEF ForkSave
  <2>4. \A u \in Threads : snapshots'[u] = snapshots[u] \/ u = t
    BY <1>0, <1>11 DEF ForkSave
  <2> HIDE DEF t
  <2>5. Removing'
    BY <1>4, <2>1, <2>2, <2>4
  <2>6. \A u \in gone' : Removed(u)'
    BY <1>a, <1>5, <2>1, <2>2, <2>3, <2>4
  <2> QED
    BY <1>2, <2>5, <2>6
<1>12. CASE ForkReturn
  <2>1. PICK x \in ForkTask : Turned(tasks, tasks', 1, {x})
    BY <1>12, QueueAfter
  <2>2. x.op # "log" /\ x.op # "unlink"
    BY DEF ForkTask
  <2>3. UNCHANGED <<snapshots, log, gone>>
    BY <1>12 DEF ForkReturn, diskVars, historyVars
  <2>4. Removing'
    BY <1>4, <2>1, <2>2, <2>3
  <2>5. \A u \in gone' : Removed(u)'
    BY <1>5, <2>1, <2>2, <2>3
  <2> QED
    BY <1>2, <2>4, <2>5
<1>13. ASSUME NEW t \in Threads, Delete(t)
       PROVE  Deleted'
  <2> DEFINE x == [op |-> "unlink", thread |-> t]
  <2>1. Turned(tasks, tasks', 0, {x}) /\ x.op = "unlink" /\ x.thread = t
    BY <1>13, QueueAfter
  <2>2. /\ snapshots' = [snapshots EXCEPT ![t] = NoRounds]
        /\ log' = [log EXCEPT ![t] = <<>>] /\ gone' = gone
    BY <1>13 DEF Delete
  <2> HIDE DEF x
  <2>3. \A u \in Threads : /\ snapshots'[u] \in {snapshots[u], NoRounds}
                           /\ log'[u] \in {log[u], <<>>}
    BY <1>0, <2>2
  <2>4. snapshots'[t] = NoRounds
    BY <1>0, <2>2
  <2>5. Removing'
    BY <1>4, <2>1, <2>3, <2>4
  <2>6. \A u \in gone' : Removed(u)'
    BY <1>a, <1>5, <2>1, <2>2, <2>3
  <2> QED
    BY <1>2, <2>5, <2>6
<1>14. CASE Unlink
  <2> DEFINE t == Task.thread
  <2>1. Turned(tasks, tasks', 1, {}) /\ UNCHANGED snapshots
        /\ gone' = IF Used(t, tasks') THEN gone ELSE gone \cup {t}
    BY <1>14, QueueAfter DEF Unlink
  <2>2. log' = [log EXCEPT ![t] = <<>>]
    BY <1>14 DEF Unlink, LogAfterUnlink
  <2>3. UnlinkAt(tasks, 1, t) /\ 1 \in DOMAIN tasks /\ t \in Threads
    BY <1>14, HeadTyped DEF Unlink, Runs, UnlinkAt, UnlinkTask
  <2> HIDE DEF t
  <2>4. \A u \in Threads : log'[u] \in {log[u], <<>>}
    BY <1>0, <2>2
  <2>5. Removing'
    BY <1>4, <2>1
  <2>6. ASSUME NEW u \in gone PROVE Removed(u)'
    <3>1. \A i \in DOMAIN tasks' : ~LogAt(tasks', i, u)
      <4>1. ASSUME NEW i \in DOMAIN tasks', LogAt(tasks', i, u) PROVE FALSE
        <5>1. i + 1 \in DOMAIN tasks /\ LogAt(tasks, i + 1, u)
          BY <2>1, <4>1 DEF Turned, LogAt
        <5> QED
          BY <1>1, <5>1 DEF Removed
      <4> QED
        BY <4>1
    <3> QED
      BY <1>0, <1>1, <2>1, <2>4, <3>1 DEF Removed
  <2>7. ASSUME NEW u \in Threads, u = t, ~Used(u, tasks')
        PROVE  Removed(u)'
    <3>1. \A j \in DOMAIN tasks :
              j > 1 => tasks[j].op = "flushed" \/ tasks[j].thread # u
      <4>1. ASSUME NEW j \in DOMAIN tasks, j > 1, tasks[j].op # "flushed",
                   tasks[j].thread = u
            PROVE  FALSE
        <5>1. j - 1 \in DOMAIN tasks' /\ tasks'[j - 1] = tasks[j]
          BY <2>1, <4>1 DEF Turned
        <5> QED
          BY <2>7, <4>1, <5>1 DEF Used
      <4> QED
        BY <4>1
    <3>2. snapshots[u] = NoRounds
      BY <1>1, <2>3, <2>7, <3>1 DEF Removing
    <3>3. \A i \in DOMAIN tasks' : ~LogAt(tasks', i, u)
      BY <2>7 DEF Used, LogAt
    <3>4. log'[u] = <<>>
      BY <1>0, <2>2, <2>3, <2>7
    <3> QED
      BY <2>1, <3>2, <3>3, <3>4 DEF Removed
  <2>8. \A u \in gone' : Removed(u)'
    BY <2>1, <2>3, <2>6, <2>7
  <2> QED
    BY <1>2, <2>5, <2>8
<1>15. CASE Flush
  <2> DEFINE new == IF Queued(pendingFlush) THEN {} ELSE {[op |-> "flushed"]}
  <2>1. Turned(tasks, tasks', 0, new)
    BY <1>15, QueueAfter
  <2>2. \A x \in new : x.op = "flushed"
    OBVIOUS
  <2>3. UNCHANGED <<snapshots, log, gone>>
    BY <1>15 DEF Flush, diskVars, historyVars
  <2> HIDE DEF new
  <2>4. Removing'
    BY <1>4, <2>1, <2>2, <2>3
  <2>5. \A u \in gone' : Removed(u)'
    BY <1>5, <2>1, <2>2, <2>3
  <2> QED
    BY <1>2, <2>4, <2>5
<1>16. CASE FlushReturns
  <2>1. Turned(tasks, tasks', 1, {}) /\ UNCHANGED <<snapshots, log, gone>>
    BY <1>16, QueueAfter DEF FlushReturns, diskVars, historyVars
  <2>2. Removing' /\ \A u \in gone' : Removed(u)'
    BY <1>4, <1>5, <2>1
  <2> QED
    BY <1>2, <2>2
<1>17. CASE Crash
  <2>1. tasks' = <<>> /\ UNCHANGED <<snapshots, log, gone>>
    BY <1>17 DEF Crash, diskVars, historyVars
  <2>2. DOMAIN tasks' = {}
    BY <2>1
  <2>3. Removing' /\ \A u \in gone' : Removed(u)'
    BY <1>1, <2>1, <2>2 DEF Removing, Removed
  <2> QED
    BY <1>2, <2>3
<1>18. CASE UNCHANGED <<tasks, snapshots, log, gone>>
  BY <1>1, <1>2, <1>18 DEF Removing, Removed
<1> QED
  BY <1>6, <1>7, <1>8, <1>9, <1>10, <1>11, <1>12, <1>13, <1>14, <1>15, <1>16,
     <1>17, <1>18
     DEF Next, Microtask, vars, diskVars, historyVars, SaveDeferred, SetDurability

\* The logs and what is queued for them stay numbered upwards.
LEMMA NumberedKept ==
    ASSUME TypeOK, InOrder, Recoverable, Numbered, [Next]_vars
    PROVE  Numbered'
<1> DEFINE Sorted(l) == \A i, j \in DOMAIN l :
               (/\ i < j /\ l[i].save # 0 /\ l[j].save # 0
                /\ l[i].by = l[j].by /\ l[i].by # None) => l[i].seq < l[j].seq
           Past(e, n) == e.by # None => e.by <= n
           Before(e, t, n, top, q) == e.by = n /\ e.save # 0 =>
               /\ e.seq <= top
               /\ \A k \in DOMAIN q : LogAt(q, k, t) => e.seq < q[k].event.seq
           Fits(e, t) == /\ Past(e, crashes)
                         /\ Before(e, t, crashes, seqCounter[t], tasks)
           FitsNow(e, t) == /\ Past(e, crashes')
                            /\ Before(e, t, crashes', seqCounter'[t], tasks')
           Aside(e) == /\ e \in Events /\ Past(e, crashes)
                       /\ e.by = None \/ e.save = 0
<1>0. /\ tasks \in Seq(Tasks) /\ crashes \in Nat
      /\ \A i \in DOMAIN tasks : i \in Nat /\ i >= 1
      /\ log \in [Threads -> Seq(Events)] /\ None \notin Nat
      /\ seqCounter \in [Threads -> Nat]
  BY LenProperties, DurableAssumption DEF TypeOK
<1>1. \A t \in Threads : Sorted(log[t])
  BY DEF Numbered, SavesLoggedInOrder
<1>2. \A t \in Threads : \A i \in DOMAIN log[t] :
          Fits(log[t][i], t)
  BY DEF Numbered
<1>3. ASSUME \A t \in Threads : Sorted(log'[t]),
             \A t \in Threads : \A i \in DOMAIN log'[t] :
                 FitsNow(log'[t][i], t)
      PROVE  Numbered'
  BY <1>3 DEF Numbered, SavesLoggedInOrder
<1>4. \A t \in Threads : \A i \in DOMAIN log[t] :
          log[t][i] \in Events /\ log[t][i].seq \in Nat
  <2>1. ASSUME NEW t \in Threads, NEW i \in DOMAIN log[t]
        PROVE  log[t][i] \in Events
    <3>1. log[t] \in Seq(Events)
      BY <1>0
    <3> QED
      BY <3>1, ElementOfSeq, LenProperties
  <2> QED
    BY <2>1 DEF Events, Seqs
\* Every step but a save() and a crash keeps what is numbered before the queue.
<1>5. ASSUME Requeues, NEW t \in Threads, NEW e \in Events, Fits(e, t)
      PROVE  FitsNow(e, t)
  <2>1. PICK d \in {0, 1}, new \in SUBSET Tasks :
            Turned(tasks, tasks', d, new) /\ \A x \in new : x.op # "log"
    BY <1>5 DEF Requeues
  <2>2. crashes' = crashes /\ seqCounter[t] <= seqCounter'[t]
    BY <1>5 DEF Requeues
  <2>3. seqCounter[t] \in Nat /\ seqCounter'[t] \in Nat /\ e.seq \in Nat
    BY TypeKept DEF TypeOK, Events, Seqs
  <2>4. ASSUME e.by = crashes, e.save # 0
        PROVE  /\ e.seq <= seqCounter'[t]
               /\ \A k \in DOMAIN tasks' :
                      LogAt(tasks', k, t) => e.seq < tasks'[k].event.seq
    <3>1. e.seq <= seqCounter[t]
      BY <1>5, <2>4
    <3>2. ASSUME NEW k \in DOMAIN tasks', LogAt(tasks', k, t)
          PROVE  e.seq < tasks'[k].event.seq
      <4>1. k + d \in DOMAIN tasks /\ tasks'[k] = tasks[k + d]
        BY <2>1, <3>2, WaitedBefore DEF LogAt
      <4>2. LogAt(tasks, k + d, t)
        BY <3>2, <4>1 DEF LogAt
      <4> QED
        BY <1>5, <2>4, <4>1, <4>2
    <3> QED
      BY <2>2, <2>3, <3>1, <3>2
  <2> QED
    BY <1>5, <2>2, <2>4
\* An event that is a copy, or not of a save(), is in no order.
<1>6. ASSUME NEW t \in Threads, NEW e, Aside(e), crashes' = crashes
      PROVE  FitsNow(e, t)
  BY <1>0, <1>6
<1>7. ASSUME NEW old, NEW new, NEW E, Grown(old, new, E), Sorted(old),
             \A e \in E : Aside(e)
      PROVE  Sorted(new)
  <2>1. SUFFICES ASSUME NEW i \in DOMAIN new, NEW j \in DOMAIN new, i < j,
                        new[i].save # 0, new[j].save # 0,
                        new[i].by = new[j].by, new[i].by # None
                 PROVE  new[i].seq < new[j].seq
    OBVIOUS
  <2>2. i \in DOMAIN old /\ new[i] = old[i] /\ j \in DOMAIN old /\ new[j] = old[j]
    BY <1>7, <2>1 DEF Grown
  <2> QED
    BY <1>7, <2>1, <2>2
<1> HIDE DEF Sorted, Fits, FitsNow, Aside
\* A step that logs nothing but such events.
<1>8. ASSUME Requeues,
             \A t \in Threads : \/ log'[t] = <<>> \/ log'[t] = log[t]
                                \/ \E E \in SUBSET Events :
                                       /\ Grown(log[t], log'[t], E)
                                       /\ \A e \in E : Aside(e)
      PROVE  Numbered'
  <2>1. crashes' = crashes
    BY <1>8 DEF Requeues
  <2>2. ASSUME NEW t \in Threads
        PROVE  /\ Sorted(log'[t])
               /\ \A i \in DOMAIN log'[t] :
                      FitsNow(log'[t][i], t)
    <3>1. CASE log'[t] = <<>>
      <4>1. DOMAIN log'[t] = {}
        BY <3>1
      <4> QED
        BY <4>1 DEF Sorted
    <3>2. CASE log'[t] = log[t]
      BY <1>1, <1>2, <1>4, <1>5, <1>8, <3>2
    <3>3. ASSUME NEW E \in SUBSET Events, Grown(log[t], log'[t], E),
                 \A e \in E : Aside(e)
          PROVE  /\ Sorted(log'[t])
                 /\ \A i \in DOMAIN log'[t] :
                        FitsNow(log'[t][i], t)
      <4>1. Sorted(log'[t])
        BY <1>1, <1>7, <3>3
      <4>2. ASSUME NEW i \in DOMAIN log'[t]
            PROVE  FitsNow(log'[t][i], t)
        <5>1. CASE i \in DOMAIN log[t] /\ log'[t][i] = log[t][i]
          BY <1>2, <1>4, <1>5, <1>8, <5>1
        <5>2. CASE log'[t][i] \in E
          BY <1>6, <2>1, <3>3, <5>2
        <5> QED
          BY <3>3, <5>1, <5>2 DEF Grown
      <4> QED
        BY <4>1, <4>2
    <3> QED
      BY <1>8, <3>1, <3>2, <3>3
  <2> QED
    BY <1>3, <2>2
<1>9. ASSUME NEW t \in Threads, NEW r \in Rounds, Save(t, r)
      PROVE  Numbered'
  <2> DEFINE e == Event(t, calls', r, FALSE)
             x == [op |-> "log", thread |-> t, mode |-> mode, event |-> e]
  <2>1. Turned(tasks, tasks', 0, {x})
    BY <1>9, QueueAfter
  <2>2. /\ crashes' = crashes /\ log' = log
        /\ seqCounter' = [seqCounter EXCEPT ![t] = seqCounter[t] + 1]
    BY <1>9 DEF Save, Call, NextSeq
  <2>3. x.thread = t /\ x.event.seq = seqCounter[t] + 1
    BY DEF Event, NextSeq
  <2> HIDE DEF e, x
  <2>4. ASSUME NEW u \in Threads, NEW i \in DOMAIN log[u]
        PROVE  FitsNow(log[u][i], u)
    <3> DEFINE f == log[u][i]
    <3>1. Fits(f, u) /\ f.seq \in Nat
      BY <1>2, <1>4
    <3> HIDE DEF f
    <3>2. ASSUME f.by = crashes, f.save # 0
          PROVE  /\ f.seq <= seqCounter'[u]
                 /\ \A k \in DOMAIN tasks' :
                        LogAt(tasks', k, u) => f.seq < tasks'[k].event.seq
      <4>1. f.seq <= seqCounter[u] /\ seqCounter[u] \in Nat
        BY <1>0, <3>1, <3>2 DEF Fits
      <4>2. seqCounter[u] <= seqCounter'[u] /\ seqCounter'[u] \in Nat
        BY <1>0, <2>2
      <4>3. ASSUME NEW k \in DOMAIN tasks', LogAt(tasks', k, u)
            PROVE  f.seq < tasks'[k].event.seq
        <5>1. CASE k \in DOMAIN tasks /\ tasks'[k] = tasks[k]
          <6>1. LogAt(tasks, k, u)
            BY <4>3, <5>1 DEF LogAt
          <6> QED
            BY <3>1, <3>2, <5>1, <6>1 DEF Fits
        <5>2. CASE tasks'[k] = x
          <6>1. u = t
            BY <2>3, <4>3, <5>2 DEF LogAt
          <6> QED
            BY <2>3, <3>1, <4>1, <5>2, <6>1
        <5> QED
          BY <2>1, <5>1, <5>2 DEF Turned
      <4> QED
        BY <3>1, <4>1, <4>2, <4>3
    <3>3. FitsNow(f, u)
      BY <2>2, <3>1, <3>2 DEF Fits, FitsNow
    <3> QED
      BY <3>3 DEF f
  <2> QED
    BY <1>1, <1>3, <2>2, <2>4
<1>10. CASE WriteEventLog
  <2> DEFINE e == Task.event
             t == Task.thread
  <2>1. /\ Task = tasks[1] /\ 1 \in DOMAIN tasks /\ LogAt(tasks, 1, t)
        /\ tasks[1].op = "log" /\ t \in Threads /\ e \in Events
        /\ e.save \in 1..calls /\ e.by = crashes
    BY <1>10, Logging DEF LogAt
  <2>2. /\ Grown(log[t], log'[t], {e}) /\ Len(log'[t]) = Len(log[t]) + 1
        /\ \A u \in Threads \ {t} : log'[u] = log[u]
    BY <1>10, LogsGrow
  <2>3. Requeues
    <3>1. ~Crash /\ ~\E u \in Threads, r \in Rounds : Save(u, r)
      <4>1. calls' = calls /\ crashes' = crashes /\ calls \in Nat
        BY <1>10, DurableAssumption DEF WriteEventLog, TypeOK
      <4>2. Crash => crashes' = crashes + 1
        BY DEF Crash
      <4>3. \A u \in Threads, r \in Rounds : Save(u, r) => calls' = calls + 1
        BY DEF Save, Call
      <4> QED
        BY <1>0, <4>1, <4>2, <4>3
    <3> QED
      BY <3>1, Requeued
  <2>4. Turned(tasks, tasks', 1, IF flushing # None
                                    /\ flushing.target = Task.event.save
                                 THEN {[op |-> "flushed"]} ELSE {})
    BY <1>10, QueueAfter
  <2>5. /\ e = tasks[1].event /\ e.save # 0 /\ e.seq \in Nat
        /\ e.seq <= seqCounter[t]
    BY <2>1 DEF InOrder, Events, Seqs
  <2> DEFINE new == IF flushing # None /\ flushing.target = Task.event.save
                    THEN {[op |-> "flushed"]} ELSE {}
  <2>6. \A x \in new : x.op # "log"
    OBVIOUS
  <2> HIDE DEF new, e, t
  <2>7. Turned(tasks, tasks', 1, new)
    BY <2>4 DEF new
  <2>8. ASSUME NEW k \in DOMAIN tasks, k > 1, LogAt(tasks, k, t)
        PROVE  e.seq < tasks[k].event.seq
    BY <1>0, <2>1, <2>5, <2>8 DEF InOrder, LogAt
  <2>9. FitsNow(e, t)
    <3>1. ASSUME NEW k \in DOMAIN tasks', LogAt(tasks', k, t)
          PROVE  e.seq < tasks'[k].event.seq
      <4>1. k + 1 \in DOMAIN tasks /\ tasks'[k] = tasks[k + 1] /\ k \in Nat
            /\ k >= 1
        <5>1. k \in Nat /\ k >= 1
          <6>1. DOMAIN tasks' = 1..Len(tasks') /\ Len(tasks') \in Nat
            BY <2>7 DEF Turned
          <6> QED
            BY <3>1, <6>1
        <5>2. tasks'[k] \notin new
          BY <2>6, <3>1 DEF LogAt
        <5> QED
          BY <2>7, <5>1, <5>2 DEF Turned
      <4>2. LogAt(tasks, k + 1, t) /\ k + 1 > 1
        BY <3>1, <4>1 DEF LogAt
      <4> QED
        BY <2>8, <4>1, <4>2
    <3>2. crashes' = crashes /\ seqCounter' = seqCounter
      BY <1>10 DEF WriteEventLog
    <3> QED
      BY <1>0, <2>1, <2>5, <3>1, <3>2 DEF FitsNow
  <2>10. \A i \in DOMAIN log'[t] :
             \/ i \in DOMAIN log[t] /\ log'[t][i] = log[t][i]
             \/ i = Len(log'[t]) /\ log'[t][i] = e
    BY <2>2 DEF Grown
  <2>11. \A i \in DOMAIN log'[t] : FitsNow(log'[t][i], t)
    <3>1. ASSUME NEW i \in DOMAIN log'[t] PROVE FitsNow(log'[t][i], t)
      <4>1. CASE i \in DOMAIN log[t] /\ log'[t][i] = log[t][i]
        BY <1>2, <1>4, <1>5, <2>1, <2>3, <4>1
      <4>2. CASE log'[t][i] = e
        BY <2>9, <4>2
      <4> QED
        BY <2>10, <4>1, <4>2
    <3> QED
      BY <3>1
  <2>12. Sorted(log'[t])
    <3>1. SUFFICES ASSUME NEW i \in DOMAIN log'[t], NEW j \in DOMAIN log'[t],
                          i < j, log'[t][i].save # 0, log'[t][j].save # 0,
                          log'[t][i].by = log'[t][j].by, log'[t][i].by # None
                   PROVE  log'[t][i].seq < log'[t][j].seq
      BY DEF Sorted
    <3>2. i \in DOMAIN log[t] /\ log'[t][i] = log[t][i]
      BY <2>2, <2>10, <3>1 DEF Grown
    <3>3. CASE j \in DOMAIN log[t] /\ log'[t][j] = log[t][j]
      BY <1>1, <2>1, <3>1, <3>2, <3>3 DEF Sorted
    <3>4. CASE log'[t][j] = e
      <4>1. log[t][i].by = crashes /\ log[t][i].save # 0
        BY <2>1, <3>1, <3>2, <3>4
      <4>2. Fits(log[t][i], t)
        BY <1>2, <2>1, <3>2
      <4>3. log[t][i].seq < tasks[1].event.seq
        BY <2>1, <4>1, <4>2 DEF Fits
      <4> QED
        BY <2>5, <3>2, <3>4, <4>3
    <3> QED
      BY <2>10, <3>3, <3>4
  <2>13. ASSUME NEW u \in Threads \ {t}
         PROVE  /\ Sorted(log'[u])
                /\ \A i \in DOMAIN log'[u] : FitsNow(log'[u][i], u)
    BY <1>1, <1>2, <1>4, <1>5, <2>2, <2>3, <2>13
  <2> QED
    BY <1>3, <2>1, <2>11, <2>12, <2>13
<1>11. CASE Crash
  <2>1. log' = log /\ crashes' = crashes + 1
    BY <1>11 DEF Crash, diskVars
  <2>2. ASSUME NEW t \in Threads, NEW i \in DOMAIN log[t]
        PROVE  FitsNow(log[t][i], t)
    <3>1. log[t][i] \in Events /\ Fits(log[t][i], t)
      BY <1>2, <1>4
    <3> DEFINE e == log[t][i]
    <3> HIDE DEF e
    <3>2. e.by # None => e.by \in Nat /\ e.by <= crashes
      BY <3>1, DurableAssumption DEF Fits, Events, e
    <3>3. e.by # crashes + 1 /\ (e.by # None => e.by <= crashes + 1)
      BY <1>0, <3>2
    <3>4. FitsNow(e, t)
      BY <2>1, <3>3 DEF FitsNow
    <3> QED
      BY <3>4 DEF e
  <2> QED
    BY <1>1, <1>3, <2>1, <2>2
<1>12. CASE Requeues
  <2>1. ASSUME NEW t \in Threads, NEW terminal \in BOOLEAN,
               AppendEvent(t, terminal)
        PROVE  Numbered'
    <3> DEFINE e == Event(t, 0, None, terminal)
    <3>1. /\ Grown(log[t], log'[t], {e}) /\ e \in Events
          /\ \A u \in Threads \ {t} : log'[u] = log[u]
      BY <2>1, LogsGrow, LogAfter
    <3>2. e.save = 0 /\ e.by = crashes
      BY DEF Event
    <3> HIDE DEF e
    <3>3. Aside(e)
      BY <1>0, <3>1, <3>2 DEF Aside
    <3> QED
      BY <1>8, <1>12, <3>1, <3>3
  <2>2. CASE ForkEvents
    <3> DEFINE t == Task.thread
    <3>1. /\ t \in Threads /\ Grown(log[t], log'[t], Copies)
          /\ \A u \in Threads \ {t} : log'[u] = log[u]
      BY <2>2, LogsGrow
    <3> HIDE DEF t
    <3>2. \A e \in Copies : Aside(e)
      BY DEF Copies, Aside
    <3>3. Copies \in SUBSET Events
      BY DEF Copies
    <3> QED
      BY <1>8, <1>12, <3>1, <3>2, <3>3
  <2>3. CASE \A t \in Threads : log'[t] = <<>> \/ log'[t] = log[t]
    BY <1>8, <1>12, <2>3
  <2>4. ASSUME NEW t \in Threads, Delete(t)
        PROVE  Numbered'
    BY <1>0, <2>3, <2>4 DEF Delete
  <2>5. CASE Unlink
    BY <1>0, <2>3, <2>5 DEF Unlink, LogAfterUnlink
  <2>6. CASE UNCHANGED log
    BY <2>3, <2>6
  <2> QED
    BY <1>9, <1>10, <1>11, <2>1, <2>2, <2>4, <2>5, <2>6
       DEF Next, Microtask, vars, diskVars, historyVars, SaveDeferred, Fork,
           ForkSave, ForkReturn, Flush, FlushReturns, SetDurability
<1> QED
  BY <1>9, <1>11, <1>12, Requeued

\* flush() is continued once, behind every save() it covers.
LEMMA FlushesKept ==
    ASSUME TypeOK, Counted, InOrder, Flushes, [Next]_vars
    PROVE  Flushes'
<1> DEFINE \* The continuation of flush(), or the save() it awaits, is at i.
           Awaiting(q, f, i) ==
               /\ \A k \in DOMAIN q :
                      /\ q[k].op = "log" /\ q[k].event.save \in f.covers => k <= i
                      /\ q[k].op = "flushed" => k = i
               /\ \/ /\ q[i].op = "flushed"
                     /\ ~\E k \in DOMAIN q : q[k].op = "log"
                                             /\ q[k].event.save = f.target
                  \/ q[i].op = "log" /\ q[i].event.save = f.target
           Logged(q, n) == \E k \in DOMAIN q : q[k].op = "log"
                                               /\ q[k].event.save = n
           Newest(q, n) == \A i \in DOMAIN q : AsyncAt(q, i) =>
                               q[i].event.save <= n /\ Logged(q, n)
<1>0. /\ tasks \in Seq(Tasks) /\ calls \in Nat /\ None \notin Nat
      /\ pendingFlush \in 1..MaxCalls \cup {None}
      /\ \A i \in DOMAIN tasks : i \in Nat /\ i >= 1
  BY LenProperties, DurableAssumption DEF TypeOK
<1>1. /\ pendingFlush # None => Newest(tasks, pendingFlush)
      /\ flushing = None => \A i \in DOMAIN tasks : tasks[i].op # "flushed"
      /\ flushing # None => \E i \in DOMAIN tasks : Awaiting(tasks, flushing, i)
  BY DEF Flushes, Queued
<1>2. (/\ pendingFlush' # None => Newest(tasks', pendingFlush')
       /\ flushing' = None => \A i \in DOMAIN tasks' : tasks'[i].op # "flushed"
       /\ flushing' # None =>
              \E i \in DOMAIN tasks' : Awaiting(tasks', flushing', i)) => Flushes'
  BY DEF Flushes, Queued
<1>3. \A i, j \in DOMAIN tasks : tasks[i].op = "log" /\ tasks[j].op = "log" =>
          /\ i < j => tasks[i].event.save < tasks[j].event.save
          /\ i > j => tasks[i].event.save > tasks[j].event.save
          /\ tasks[i].event.save \in 1..calls
  BY <1>0 DEF InOrder
\* What was queued is queued still, at its new place.
<1>4. ASSUME NEW d \in {0, 1}, NEW new, Turned(tasks, tasks', d, new),
             NEW i \in DOMAIN tasks, i > d
      PROVE  i - d \in DOMAIN tasks' /\ tasks'[i - d] = tasks[i]
  BY <1>4 DEF Turned
<1>5. ASSUME NEW d \in {0, 1}, NEW new, Turned(tasks, tasks', d, new),
             NEW i \in DOMAIN tasks', tasks'[i] \notin new
      PROVE  i + d \in DOMAIN tasks /\ tasks'[i] = tasks[i + d]
  BY <1>5 DEF Turned
<1>6. ASSUME NEW d, NEW new, Turned(tasks, tasks', d, new), NEW i \in DOMAIN tasks'
      PROVE  i \in Nat /\ i >= 1 /\ i <= Len(tasks') /\ Len(tasks') \in Nat
  BY <1>6 DEF Turned
<1> HIDE DEF Awaiting, Newest
\* A step that logs nothing and does not touch flush().
<1>7. ASSUME NEW d \in {0, 1}, NEW new, Turned(tasks, tasks', d, new),
             \A x \in new : x.op # "log" /\ x.op # "flushed",
             d = 1 => tasks[1].op # "log" /\ tasks[1].op # "flushed",
             UNCHANGED <<pendingFlush, flushing>>
      PROVE  Flushes'
  <2>1. ASSUME NEW i \in DOMAIN tasks',
               tasks'[i].op = "log" \/ tasks'[i].op = "flushed"
        PROVE  i + d \in DOMAIN tasks /\ tasks'[i] = tasks[i + d]
    BY <1>5, <1>7, <2>1
  <2>2. ASSUME NEW i \in DOMAIN tasks,
               tasks[i].op = "log" \/ tasks[i].op = "flushed"
        PROVE  i - d \in DOMAIN tasks' /\ tasks'[i - d] = tasks[i]
    <3>1. i > d
      BY <1>0, <1>7, <2>2
    <3> QED
      BY <1>4, <1>7, <3>1
  <2>3. \A n : Logged(tasks, n) <=> Logged(tasks', n)
    BY <2>1, <2>2
  <2> HIDE DEF Logged
  <2>4. \A n : Newest(tasks, n) => Newest(tasks', n)
    BY <2>1, <2>3 DEF Newest, AsyncAt
  <2>5. ASSUME NEW i \in DOMAIN tasks, Awaiting(tasks, flushing, i)
        PROVE  \E j \in DOMAIN tasks' : Awaiting(tasks', flushing, j)
    <3>1. i - d \in DOMAIN tasks' /\ tasks'[i - d] = tasks[i]
      BY <2>2, <2>5 DEF Awaiting
    <3>2. ASSUME NEW k \in DOMAIN tasks',
                 tasks'[k].op = "log" \/ tasks'[k].op = "flushed"
          PROVE  /\ tasks'[k].op = "log"
                    /\ tasks'[k].event.save \in flushing.covers => k <= i - d
                 /\ tasks'[k].op = "flushed" => k = i - d
      <4>1. k + d \in DOMAIN tasks /\ tasks'[k] = tasks[k + d]
        BY <2>1, <3>2
      <4>2. k \in Nat /\ i \in Nat /\ d \in Nat
        BY <1>0, <1>6, <1>7, <2>5, <3>2
      <4>3. /\ tasks[k + d].op = "log"
               /\ tasks[k + d].event.save \in flushing.covers => k + d <= i
            /\ tasks[k + d].op = "flushed" => k + d = i
        BY <2>5, <4>1 DEF Awaiting
      <4> QED
        BY <4>1, <4>2, <4>3
    <3>3. Logged(tasks', flushing.target) <=> Logged(tasks, flushing.target)
      BY <2>3
    <3>4. Awaiting(tasks', flushing, i - d)
      BY <2>5, <3>1, <3>2, <3>3 DEF Awaiting, Logged
    <3> QED
      BY <3>1, <3>4
  <2>6. flushing = None => \A i \in DOMAIN tasks' : tasks'[i].op # "flushed"
    BY <1>1, <2>1
  <2> QED
    BY <1>1, <1>2, <1>7, <2>4, <2>5, <2>6
<1>8. ASSUME NEW t \in Threads, NEW r \in Rounds, Save(t, r)
      PROVE  Flushes'
  <2> DEFINE x == [op |-> "log", thread |-> t, mode |-> mode,
                   event |-> Event(t, calls', r, FALSE)]
             n == Len(tasks')
  <2>1. Turned(tasks, tasks', 0, {x})
    BY <1>8, QueueAfter
  <2>2. /\ x.op = "log" /\ x.event.save = calls' /\ x.mode = mode
        /\ calls' = calls + 1 /\ flushing' = flushing
        /\ pendingFlush' = IF mode = "async" THEN calls' ELSE pendingFlush
    BY <1>8 DEF Save, Call, Event
  <2> HIDE DEF x
  <2>3. \A i \in DOMAIN tasks : i \in DOMAIN tasks' /\ tasks'[i] = tasks[i]
    BY <1>0, <2>1 DEF Turned
  <2>4. n \in DOMAIN tasks' /\ tasks'[n] = x /\ n \notin DOMAIN tasks
    BY <2>1 DEF Turned
  <2>5. \A i \in DOMAIN tasks' :
            (i \in DOMAIN tasks /\ tasks'[i] = tasks[i]) \/ tasks'[i] = x
    BY <2>1 DEF Turned
  <2> HIDE DEF n
  <2>6. ASSUME pendingFlush' # None PROVE Newest(tasks', pendingFlush')
    <3>1. CASE mode = "async"
      <4>1. Logged(tasks', calls')
        BY <2>2, <2>4
      <4>2. ASSUME NEW i \in DOMAIN tasks', tasks'[i].op = "log"
            PROVE  tasks'[i].event.save <= calls'
        BY <1>0, <1>3, <2>2, <2>5, <4>2
      <4> QED
        BY <2>2, <3>1, <4>1, <4>2 DEF Newest, AsyncAt
    <3>2. CASE mode # "async"
      <4>1. Newest(tasks, pendingFlush) /\ pendingFlush' = pendingFlush
        BY <1>1, <2>2, <2>6, <3>2
      <4>2. Logged(tasks, pendingFlush) => Logged(tasks', pendingFlush)
        BY <2>3
      <4>3. ASSUME NEW i \in DOMAIN tasks', AsyncAt(tasks', i)
            PROVE  i \in DOMAIN tasks /\ tasks'[i] = tasks[i]
                   /\ AsyncAt(tasks, i)
        BY <2>2, <2>5, <3>2, <4>3 DEF AsyncAt
      <4> HIDE DEF Logged
      <4> QED
        BY <4>1, <4>2, <4>3 DEF Newest
    <3> QED
      BY <3>1, <3>2
  <2>7. flushing' = None => \A i \in DOMAIN tasks' : tasks'[i].op # "flushed"
    BY <1>1, <2>2, <2>5
  <2>8. ASSUME flushing' # None
        PROVE  \E i \in DOMAIN tasks' : Awaiting(tasks', flushing', i)
    <3>1. PICK i \in DOMAIN tasks : Awaiting(tasks, flushing, i)
      BY <1>1, <2>2, <2>8
    <3>2. /\ calls' \notin flushing.covers /\ calls' # flushing.target
      <4>1. flushing.covers \subseteq 1..calls /\ flushing.target <= calls
            /\ flushing.target \in Nat
        BY <2>2, <2>8 DEF Counted, TypeOK
      <4> QED
        BY <1>0, <2>2, <4>1
    <3>3. Awaiting(tasks', flushing, i)
      <4>1. ASSUME NEW k \in DOMAIN tasks'
            PROVE  /\ tasks'[k].op = "log"
                      /\ tasks'[k].event.save \in flushing.covers => k <= i
                   /\ tasks'[k].op = "flushed" => k = i
        BY <2>2, <2>5, <3>1, <3>2 DEF Awaiting
      <4>2. Logged(tasks', flushing.target) => Logged(tasks, flushing.target)
        BY <2>2, <2>5, <3>2
      <4>3. tasks'[i] = tasks[i]
        BY <2>3
      <4> QED
        BY <3>1, <4>1, <4>2, <4>3 DEF Awaiting
    <3> QED
      BY <2>2, <2>3, <3>3
  <2> QED
    BY <1>2, <2>6, <2>7, <2>8
<1>9. CASE WriteEventLog
  <2> DEFINE save == Task.event.save
             waits == flushing # None /\ flushing.target = save
             new == IF waits THEN {[op |-> "flushed"]} ELSE {}
             n == Len(tasks')
  <2>1. Turned(tasks, tasks', 1, new)
    BY <1>9, QueueAfter
  <2>2. /\ save = tasks[1].event.save /\ 1 \in DOMAIN tasks
        /\ tasks[1].op = "log" /\ UNCHANGED <<pendingFlush, flushing>>
    BY <1>9, Logging DEF WriteEventLog
  <2>3. \A x \in new : x.op = "flushed"
    OBVIOUS
  <2>4. new # {} <=> waits
    OBVIOUS
  <2> HIDE DEF save, waits, new, n
  <2>5. \A k \in DOMAIN tasks : k > 1 =>
            k - 1 \in DOMAIN tasks' /\ tasks'[k - 1] = tasks[k]
    BY <1>4, <2>1
  <2>6. ASSUME NEW k \in DOMAIN tasks'
        PROVE  /\ k \in Nat /\ k >= 1
               /\ \/ k + 1 \in DOMAIN tasks /\ tasks'[k] = tasks[k + 1]
                  \/ k = n /\ waits /\ tasks'[k].op = "flushed"
    BY <1>6, <2>1, <2>3, <2>4, <2>6 DEF Turned, n
  <2>7. ASSUME NEW k \in DOMAIN tasks', tasks'[k].op = "log"
        PROVE  /\ k + 1 \in DOMAIN tasks /\ tasks'[k] = tasks[k + 1]
               /\ save < tasks'[k].event.save
               /\ save \in Nat /\ tasks'[k].event.save \in Nat
    <3>1. k + 1 \in DOMAIN tasks /\ tasks'[k] = tasks[k + 1] /\ k + 1 > 1
      BY <2>6, <2>7
    <3> QED
      BY <1>0, <1>3, <2>2, <2>7, <3>1
  <2>8. \A m : m # save /\ Logged(tasks, m) => Logged(tasks', m)
    <3>1. SUFFICES ASSUME NEW m, m # save, NEW k \in DOMAIN tasks,
                          tasks[k].op = "log", tasks[k].event.save = m
                   PROVE  Logged(tasks', m)
      OBVIOUS
    <3>2. k > 1
      BY <1>0, <2>2, <3>1
    <3> QED
      BY <2>5, <3>1, <3>2
  <2>9. ASSUME pendingFlush # None PROVE Newest(tasks', pendingFlush)
    <3>1. SUFFICES ASSUME NEW k \in DOMAIN tasks', AsyncAt(tasks', k)
                   PROVE  /\ tasks'[k].event.save <= pendingFlush
                          /\ Logged(tasks', pendingFlush)
      BY DEF Newest
    <3>2. AsyncAt(tasks, k + 1) /\ k + 1 \in DOMAIN tasks
          /\ tasks'[k] = tasks[k + 1] /\ save < tasks'[k].event.save
          /\ save \in Nat /\ tasks'[k].event.save \in Nat
      BY <2>7, <3>1 DEF AsyncAt
    <3>3. /\ tasks'[k].event.save <= pendingFlush
          /\ Logged(tasks, pendingFlush)
      BY <1>1, <2>9, <3>2 DEF Newest
    <3>4. pendingFlush # save /\ pendingFlush \in Nat
      BY <1>0, <2>9, <3>2, <3>3
    <3> HIDE DEF Logged
    <3> QED
      BY <2>8, <3>3, <3>4
  <2>10. flushing = None => \A k \in DOMAIN tasks' : tasks'[k].op # "flushed"
    BY <1>1, <2>6 DEF waits
  <2>11. ASSUME flushing # None
         PROVE  \E k \in DOMAIN tasks' : Awaiting(tasks', flushing, k)
    <3>1. PICK i \in DOMAIN tasks : Awaiting(tasks, flushing, i)
      BY <1>1, <2>11
    <3>2. CASE waits
      <4>1. i = 1
        <5>1. tasks[i].op = "log" /\ tasks[i].event.save = save
          BY <2>2, <3>1, <3>2 DEF Awaiting, waits
        <5> QED
          BY <1>0, <1>3, <2>2, <5>1
      <4>2. n \in DOMAIN tasks' /\ tasks'[n].op = "flushed"
        BY <2>1, <2>3, <2>4, <3>2 DEF Turned, n
      <4>3. ASSUME NEW k \in DOMAIN tasks'
            PROVE  /\ tasks'[k].op = "log"
                      /\ tasks'[k].event.save \in flushing.covers => k <= n
                   /\ tasks'[k].op = "flushed" => k = n
        <5>1. k <= n /\ k \in Nat
          BY <1>6, <2>1, <4>3 DEF n
        <5>2. tasks'[k].op = "flushed" => k = n
          BY <2>6, <3>1, <4>1, <4>3 DEF Awaiting
        <5> QED
          BY <5>1, <5>2
      <4>4. ~Logged(tasks', flushing.target)
        BY <2>7, <3>2 DEF waits
      <4>5. Awaiting(tasks', flushing, n)
        BY <4>2, <4>3, <4>4 DEF Awaiting
      <4> QED
        BY <4>2, <4>5
    <3>3. CASE ~waits
      <4>1. i > 1 /\ i \in Nat
        <5>1. i # 1
          BY <2>2, <2>11, <3>1, <3>3 DEF Awaiting, waits
        <5> QED
          BY <1>0, <5>1
      <4>2. i - 1 \in DOMAIN tasks' /\ tasks'[i - 1] = tasks[i]
        BY <2>5, <4>1
      <4>3. ASSUME NEW k \in DOMAIN tasks'
            PROVE  /\ tasks'[k].op = "log"
                      /\ tasks'[k].event.save \in flushing.covers => k <= i - 1
                   /\ tasks'[k].op = "flushed" => k = i - 1
        <5>1. k + 1 \in DOMAIN tasks /\ tasks'[k] = tasks[k + 1] /\ k \in Nat
          BY <2>6, <3>3, <4>3
        <5>2. /\ tasks[k + 1].op = "log"
                 /\ tasks[k + 1].event.save \in flushing.covers => k + 1 <= i
              /\ tasks[k + 1].op = "flushed" => k + 1 = i
          BY <3>1, <5>1 DEF Awaiting
        <5> QED
          BY <4>1, <5>1, <5>2
      <4>4. Logged(tasks', flushing.target) => Logged(tasks, flushing.target)
        BY <2>7
      <4>5. Awaiting(tasks', flushing, i - 1)
        BY <3>1, <4>2, <4>3, <4>4 DEF Awaiting
      <4> QED
        BY <4>2, <4>5
    <3> QED
      BY <3>2, <3>3
  <2> QED
    BY <1>2, <2>2, <2>9, <2>10, <2>11
<1>10. CASE Flush
  <2> DEFINE x == [op |-> "flushed"]
             new == IF Queued(pendingFlush) THEN {} ELSE {x}
             covers == {tasks[i].event.save : i \in
                           {j \in DOMAIN tasks : tasks[j].op = "log"
                                /\ tasks[j].mode = "async"}}
             n == Len(tasks')
  <2>1. Turned(tasks, tasks', 0, new)
    BY <1>10, QueueAfter
  <2>2. /\ flushing = None /\ pendingFlush # None
        /\ pendingFlush' = pendingFlush
        /\ flushing' = [target |-> pendingFlush, covers |-> covers]
    BY <1>10 DEF Flush
  <2>3. flushing'.target = pendingFlush /\ flushing'.covers = covers
        /\ flushing' # None
    <3>1. flushing' \in [target : Nat, covers : SUBSET Nat]
      <4>1. pendingFlush \in Nat
        BY <1>0, <2>2
      <4>2. covers \in SUBSET Nat
        BY <1>3
      <4> HIDE DEF covers
      <4> QED
        BY <2>2, <4>1, <4>2
    <3>2. flushing' # None
      BY <3>1, DurableAssumption
    <3> QED
      BY <2>2, <3>2
  <2>4. x.op = "flushed"
    OBVIOUS
  <2>5. \A c \in covers : \E j \in DOMAIN tasks :
            AsyncAt(tasks, j) /\ tasks[j].event.save = c
    BY DEF AsyncAt
  <2>a. \A y \in new : y = x
    OBVIOUS
  <2>b. ~Queued(pendingFlush) => new # {}
    OBVIOUS
  <2> HIDE DEF covers, x, new
  <2>6. ASSUME NEW k \in DOMAIN tasks
        PROVE  k \in DOMAIN tasks' /\ tasks'[k] = tasks[k]
    <3>1. k > 0 /\ k - 0 = k
      BY <1>0, <2>6
    <3>2. k - 0 \in DOMAIN tasks' /\ tasks'[k - 0] = tasks[k]
      BY <1>4, <2>1, <2>6, <3>1
    <3> QED
      BY <3>1, <3>2
  <2>7. ASSUME NEW k \in DOMAIN tasks'
        PROVE  \/ k \in DOMAIN tasks /\ tasks'[k] = tasks[k]
               \/ k = n /\ tasks'[k] = x
    <3>1. k \in Nat /\ k + 0 = k
      BY <1>6, <2>1, <2>7
    <3>2. \/ k + 0 \in DOMAIN tasks /\ tasks'[k] = tasks[k + 0]
          \/ tasks'[k] \in new /\ k = Len(tasks')
      BY <2>1, <2>7 DEF Turned
    <3> QED
      BY <2>a, <3>1, <3>2
  <2>8. \A m : Logged(tasks, m) <=> Logged(tasks', m)
    BY <2>4, <2>6, <2>7
  <2>9. Newest(tasks', pendingFlush)
    <3>1. \A k \in DOMAIN tasks' : AsyncAt(tasks', k) =>
              k \in DOMAIN tasks /\ tasks'[k] = tasks[k] /\ AsyncAt(tasks, k)
      BY <2>4, <2>7 DEF AsyncAt
    <3> HIDE DEF Logged
    <3> QED
      BY <1>1, <2>2, <2>8, <3>1 DEF Newest
  <2>10. CASE Queued(pendingFlush)
    <3>1. tasks' = tasks
      BY <1>10, <2>10 DEF Flush, Awaited
    <3>2. PICK i \in DOMAIN tasks : tasks[i].op = "log"
                                    /\ tasks[i].event.save = pendingFlush
      BY <2>10 DEF Queued
    <3>3. ASSUME NEW k \in DOMAIN tasks, tasks[k].op = "log",
                 tasks[k].event.save \in covers
          PROVE  k <= i
      <4>1. tasks[k].event.save <= pendingFlush
        BY <1>1, <2>2, <2>5, <3>3 DEF Newest
      <4>2. k > i => tasks[k].event.save > pendingFlush
        BY <1>0, <1>3, <3>2, <3>3
      <4>3. k \in Nat /\ i \in Nat /\ tasks[k].event.save \in Nat
            /\ pendingFlush \in Nat
        BY <1>0, <1>3, <2>2, <3>3
      <4> QED
        BY <4>1, <4>2, <4>3
    <3>4. \A k \in DOMAIN tasks : tasks[k].op # "flushed"
      BY <1>1, <2>2
    <3>5. Awaiting(tasks', flushing', i)
      BY <2>3, <3>1, <3>2, <3>3, <3>4 DEF Awaiting
    <3> QED
      BY <1>2, <2>2, <2>3, <2>9, <3>1, <3>5
  <2>11. CASE ~Queued(pendingFlush)
    <3>1. covers = {}
      <4>1. ASSUME NEW c \in covers PROVE FALSE
        BY <1>1, <2>2, <2>5, <2>11, <4>1 DEF Newest, Queued
      <4> QED
        BY <4>1
    <3>2. n \in DOMAIN tasks' /\ tasks'[n].op = "flushed"
      BY <2>1, <2>4, <2>11, <2>a, <2>b DEF Turned
    <3>3. \A k \in DOMAIN tasks' : tasks'[k].op = "flushed" => k = n
      BY <1>1, <2>2, <2>7
    <3>4. ~Logged(tasks', pendingFlush)
      BY <2>8, <2>11 DEF Queued
    <3> HIDE DEF n
    <3>5. Awaiting(tasks', flushing', n)
      BY <2>3, <3>1, <3>2, <3>3, <3>4 DEF Awaiting
    <3> QED
      BY <1>2, <2>2, <2>3, <2>9, <3>2, <3>5
  <2> QED
    BY <2>10, <2>11
<1>11. CASE FlushReturns
  <2>1. /\ Turned(tasks, tasks', 1, {}) /\ pendingFlush' = None
        /\ flushing' = None /\ tasks[1].op = "flushed" /\ 1 \in DOMAIN tasks
    BY <1>11, QueueAfter, HeadTyped DEF FlushReturns, Runs
  <2>2. flushing # None
    BY <1>1, <2>1
  <2>3. PICK i \in DOMAIN tasks : Awaiting(tasks, flushing, i)
    BY <1>1, <2>2
  <2>4. ASSUME NEW k \in DOMAIN tasks', tasks'[k].op = "flushed" PROVE FALSE
    <3>1. k + 1 \in DOMAIN tasks /\ tasks'[k] = tasks[k + 1]
      BY <1>5, <2>1, <2>4
    <3>2. k \in Nat /\ k >= 1
      BY <1>6, <2>1, <2>4
    <3>3. k + 1 = i /\ 1 = i
      BY <2>1, <2>3, <2>4, <3>1 DEF Awaiting
    <3> QED
      BY <3>2, <3>3
  <2> QED
    BY <1>2, <2>1, <2>4
<1>12. CASE Crash
  <2>1. tasks' = <<>> /\ pendingFlush' = None /\ flushing' = None
    BY <1>12 DEF Crash
  <2>2. DOMAIN tasks' = {}
    BY <2>1
  <2> QED
    BY <1>2, <2>1, <2>2
<1>13. ASSUME UNCHANGED <<tasks, pendingFlush, flushing>>
       PROVE  Flushes'
  BY <1>1, <1>2, <1>13
<1>14. ASSUME NEW t \in Threads, NEW new \in Threads, NEW r \in Rounds,
              Fork(t, r, new)
       PROVE  Flushes'
  <2> DEFINE x == [op |-> "forkSave", from |-> t, round |-> r,
                   thread |-> new, data |-> snapshots[t][r]]
  <2>1. Turned(tasks, tasks', 0, {x}) /\ UNCHANGED <<pendingFlush, flushing>>
    BY <1>14, QueueAfter DEF Fork
  <2>2. x.op = "forkSave"
    OBVIOUS
  <2> HIDE DEF x
  <2> QED
    BY <1>7, <2>1, <2>2
<1>15. ASSUME NEW t \in Threads, Delete(t)
       PROVE  Flushes'
  <2>1. Turned(tasks, tasks', 0, {[op |-> "unlink", thread |-> t]})
        /\ UNCHANGED <<pendingFlush, flushing>>
    BY <1>15, QueueAfter DEF Delete
  <2> QED
    BY <1>7, <2>1
<1>16. CASE ForkSave \/ ForkReturn
  <2>1. PICK x \in ForkTask : Turned(tasks, tasks', 1, {x})
    BY <1>16, QueueAfter
  <2>2. /\ tasks[1].op \in {"forkSave", "forkReturn"}
        /\ UNCHANGED <<pendingFlush, flushing>>
    BY <1>16, HeadTyped DEF ForkSave, ForkReturn, Runs
  <2>3. x.op # "log" /\ x.op # "flushed"
    BY DEF ForkTask
  <2> QED
    BY <1>7, <2>1, <2>2, <2>3
<1>17. CASE Unlink \/ ForkEvents
  <2>1. /\ Turned(tasks, tasks', 1, {}) /\ UNCHANGED <<pendingFlush, flushing>>
        /\ tasks[1].op \in {"unlink", "forkEvents"}
    BY <1>17, QueueAfter, HeadTyped DEF Unlink, ForkEvents, Runs
  <2> QED
    BY <1>7, <2>1
<1> QED
  BY <1>8, <1>9, <1>10, <1>11, <1>12, <1>13, <1>14, <1>15, <1>16, <1>17
     DEF Next, Microtask, vars, SaveDeferred, AppendEvent, SetDurability

(***************************************************************************)
(* The theorems                                                            *)
(***************************************************************************)
\* A DurableCheckpointer starts with nothing queued, over empty files.
LEMMA InitIInv ==
    ASSUME Init
    PROVE  IInv
<1>1. /\ tasks = <<>> /\ DOMAIN tasks = {} /\ <<>> \in Seq(Tasks)
      /\ pendingFlush = None /\ flushing = None /\ acked = {} /\ gone = {}
  BY EmptySeq DEF Init
<1>2. \A t \in Threads : log[t] = <<>> /\ DOMAIN log[t] = {} /\ lastAck[t] = 0
  BY DEF Init
<1>3. TypeOK
  <2>1. <<>> \in Seq(Events)
    BY EmptySeq
  <2> QED
    BY <1>1, <2>1, DurableAssumption DEF Init, TypeOK, NoRounds, NoSeqs, Rounds
<1>4. Counted /\ InOrder /\ Kept /\ Flushes
  BY <1>1 DEF Counted, InOrder, Kept, Flushes
<1>5. Snapshots
  BY DEF Init, Snapshots, NoRounds
<1>6. Recoverable /\ Deleted
  BY <1>1, <1>2 DEF Recoverable, Deleted
<1>7. Numbered
  BY <1>1, <1>2 DEF Numbered, SavesLoggedInOrder
<1> QED
  BY <1>3, <1>4, <1>5, <1>6, <1>7 DEF IInv

\* The inductive invariant holds in every reachable state.
THEOREM Invariance == Spec => []IInv
<1>1. Init => IInv
  BY InitIInv
<1>2. IInv /\ [Next]_vars => IInv'
  <2>1. SUFFICES ASSUME IInv, [Next]_vars PROVE IInv'
    OBVIOUS
  <2>2. /\ TypeOK /\ Counted /\ InOrder /\ Snapshots /\ Kept
        /\ Recoverable /\ Deleted /\ Numbered /\ Flushes
    BY <2>1 DEF IInv
  <2>3. TypeOK' /\ InOrder' /\ Counted' /\ Snapshots'
    BY <2>1, <2>2, TypeKept, InOrderKept, CountedKept, SnapshotsKept
  <2>4. Kept' /\ Recoverable'
    BY <2>1, <2>2, KeptKept, RecoverableKept
  <2>5. Deleted' /\ Numbered' /\ Flushes'
    BY <2>1, <2>2, DeletedKept, NumberedKept, FlushesKept
  <2> QED
    BY <2>3, <2>4, <2>5 DEF IInv
<1> QED
  BY <1>1, <1>2, PTL DEF Spec

\* Every variable keeps its type.
THEOREM TypeCorrect == Spec => []TypeOK
<1>1. IInv => TypeOK
  BY DEF IInv
<1> QED
  BY Invariance, <1>1, PTL

\* A save() that returned in sync mode is on disk, snapshot and log entry,
\* until its round is saved again or its thread deleted.
THEOREM AcknowledgedKept == Spec => []AcknowledgedSurvives
<1>1. IInv => AcknowledgedSurvives
  <2>1. SUFFICES ASSUME IInv, NEW a \in acked, latest[a[1]][a[2]] = a[3]
                 PROVE  /\ snapshots[a[1]][a[2]] = a[3]
                        /\ \E i \in DOMAIN log[a[1]] : log[a[1]][i].save = a[3]
    BY DEF AcknowledgedSurvives
  <2>2. a[1] \in Threads /\ a[2] \in Rounds /\ a[3] # 0
    BY <2>1 DEF IInv, Counted
  <2>3. snapshots[a[1]][a[2]] = a[3]
    BY <2>1, <2>2 DEF IInv, Snapshots
  <2> QED
    BY <2>1, <2>3 DEF IInv, Kept
<1> QED
  BY Invariance, <1>1, PTL

\* A thread with a snapshot loads messages.
LEMMA LoadsMessages ==
    ASSUME TypeOK, NEW t \in Threads, HasSnapshot(t)
    PROVE  Load(t) # 0
<1> DEFINE present == {r \in Rounds : snapshots[t][r] # 0}
           Highest(r) == r \in present /\ \A q \in present : q <= r
<1>1. present # {} /\ present \subseteq 0..MaxRound /\ MaxRound \in Nat
  BY DurableAssumption DEF HasSnapshot, Rounds
<1> DEFINE below == {n \in Nat : \E r \in present : n = MaxRound - r}
<1>2. below # {} /\ below \in SUBSET Nat
  <2> HIDE DEF present
  <2>1. PICK r \in present : TRUE
    BY <1>1
  <2>2. MaxRound - r \in Nat
    BY <1>1
  <2> QED
    BY <2>1, <2>2
<1>3. PICK m \in below : \A n \in below : m <= n
  <2> HIDE DEF below
  <2> QED
    BY <1>2, SmallestMember
<1>4. \E r : Highest(r)
  <2> HIDE DEF present
  <2>1. PICK r \in present : m = MaxRound - r
    BY <1>3
  <2>2. ASSUME NEW q \in present PROVE q <= r
    <3>1. MaxRound - q \in below
      BY <1>1, <2>2
    <3> QED
      BY <1>1, <1>3, <2>1, <2>2, <3>1
  <2> QED
    BY <2>2
<1> DEFINE top == CHOOSE r \in present : \A q \in present : q <= r
<1>5. top \in present
  <2> HIDE DEF present
  <2> QED
    BY <1>4
<1>6. Load(t) = snapshots[t][top]
  BY <1>1 DEF Load
<1> HIDE DEF top
<1> QED
  BY <1>5, <1>6

\* What was acknowledged last is found after a crash, by recoverFromCrash().
THEOREM Recovered == Spec => []CrashedRunRecovered
<1>1. IInv => CrashedRunRecovered
  <2>1. SUFFICES ASSUME IInv, NEW t \in Threads, lastAck[t] # 0
                 PROVE  /\ RecoverFromCrash(t).recovered
                        /\ RecoverFromCrash(t).messages # 0
    BY DEF CrashedRunRecovered
  <2>2. /\ Len(log[t]) > 0 /\ ~log[t][Len(log[t])].terminal
        /\ HasSnapshot(t) /\ TypeOK
    BY <2>1 DEF IInv, Recoverable
  <2>3. log[t] # <<>>
    BY <2>2, EmptySeq
  <2>4. Crashed(t)
    BY <2>2, <2>3 DEF Crashed, Last
  <2>5. Load(t) # 0
    BY <2>2, LoadsMessages
  <2> QED
    BY <2>4, <2>5 DEF RecoverFromCrash
<1> QED
  BY Invariance, <1>1, PTL

\* The saves of a thread are logged in order, and nothing comes back to a
\* thread whose delete() is over.
THEOREM LogsSound == Spec => []LogSound
<1>1. IInv => LogSound
  BY DEF IInv, LogSound, Numbered, Deleted, DeleteIsFinal
<1> QED
  BY Invariance, <1>1, PTL

\* flush() returns when the async save() calls before it have been logged.
THEOREM FlushCovered == Spec => FlushCovers
<1> DEFINE Covers == flushing # None /\ flushing' = None /\ crashes' = crashes =>
                         \A save \in flushing.covers : ~Queued(save)'
<1>1. ASSUME IInv, [Next]_vars PROVE [Covers]_vars
  <2>1. SUFFICES ASSUME flushing # None, flushing' = None, crashes' = crashes,
                        NEW save \in flushing.covers, NEW k \in DOMAIN tasks',
                        tasks'[k].op = "log", tasks'[k].event.save = save
                 PROVE  FALSE
    BY DEF Queued
  <2>2. CASE FlushReturns
    <3>1. /\ Turned(tasks, tasks', 1, {})
          /\ tasks[1].op = "flushed" /\ 1 \in DOMAIN tasks
      BY <1>1, <2>2, QueueAfter, HeadTyped DEF FlushReturns, Runs, IInv
    <3>2. k + 1 \in DOMAIN tasks /\ tasks'[k] = tasks[k + 1]
      BY <2>1, <3>1 DEF Turned
    <3>3. k \in Nat /\ k >= 1
      <4>1. DOMAIN tasks' = 1..Len(tasks') /\ Len(tasks') \in Nat
        BY <3>1 DEF Turned
      <4> QED
        BY <2>1, <4>1
    <3>4. PICK i \in DOMAIN tasks : \A j \in DOMAIN tasks :
              /\ (tasks[j].op = "log" /\ tasks[j].event.save \in flushing.covers)
                     => j <= i
              /\ tasks[j].op = "flushed" => j = i
      BY <1>1, <2>1 DEF IInv, Flushes
    <3>5. k + 1 <= i /\ 1 = i
      BY <2>1, <3>1, <3>2, <3>4
    <3> QED
      BY <3>3, <3>5
  <2>3. CASE Flush
    BY <2>1, <2>3 DEF Flush
  <2>4. CASE Crash
    <3>1. crashes \in Nat /\ crashes' = crashes + 1
      BY <1>1, <2>4, DurableAssumption DEF IInv, TypeOK, Crash
    <3> QED
      BY <2>1, <3>1
  <2>5. CASE UNCHANGED flushing
    BY <2>1, <2>5
  <2> QED
    BY <1>1, <2>2, <2>3, <2>4, <2>5
       DEF Next, Microtask, vars, Save, SaveDeferred, WriteEventLog, AppendEvent,
           Fork, ForkSave, ForkReturn, ForkEvents, Delete, Unlink, SetDurability
<1> QED
  BY Invariance, <1>1, PTL DEF Spec, FlushCovers
=====

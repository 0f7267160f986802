------------------------------ MODULE A2aTasks ------------------------------
(***************************************************************************)
(* Tasks of src/a2a: the A2AServer that keeps them in a map, runs a        *)
(* handler for each tasks/send or tasks/sendSubscribe, and answers         *)
(* tasks/get and tasks/cancel; and the A2AClient behind createA2ATool(),   *)
(* which sends a task and polls it until its state is a final one.         *)
(*                                                                         *)
(* A task object is named by the send that made it, since an id can be     *)
(* sent again (continueTask).  The handler is external: it yields chunks,  *)
(* returns, throws, or never does.  Of a message only its author is kept.  *)
(***************************************************************************)
EXTENDS Naturals, Sequences, SequencesExt

CONSTANTS Sends,      \* tasks/send and tasks/sendSubscribe requests, in order
          TaskIds,
          MaxChunks,  \* bound on what a handler yields
          MaxCancels, \* bound on tasks/cancel requests
          Absent      \* no task

A2aAssumption ==
    Sends \subseteq Nat /\ Absent \notin Sends /\ MaxCancels \in Nat

VARIABLES tasks,   \* the server's map
          task,    \* the objects: see Fresh
          tool,    \* who sent them: [at, state, text, from]
          cancels

avars == <<tasks, task, tool, cancels>>

Terminal == {"completed", "failed", "canceled"}

\* handler: what became of handleTask(); stream: the events written so far.
Fresh == [id |-> Absent, handler |-> "none", state |-> "submitted",
          messages |-> <<"user">>, kind |-> "send", chunks |-> 0,
          stream |-> <<>>, open |-> FALSE]
NoTool == [at |-> "none", state |-> "submitted", text |-> "none", from |-> Absent]

AInit ==
    /\ tasks = [id \in TaskIds |-> Absent]
    /\ task = [s \in Sends |-> Fresh]
    /\ tool = [s \in Sends |-> NoTool]
    /\ cancels = 0

Status(state, final) == [type |-> "status", state |-> state, final |-> final]
Artifact(final) == [type |-> "artifact", state |-> "working", final |-> final]

Unsent(s) ==
    /\ task[s].handler = "none"
    /\ \A r \in Sends : r < s => task[r].handler # "none"

\* A task begins; an object of the same id is dropped from the map, running
\* or not.  executeTask() sets "working" before the response is written.
Begin(s, id, kind, stream) ==
    /\ Unsent(s)
    /\ tasks' = [tasks EXCEPT ![id] = s]
    /\ task' = [task EXCEPT ![s] =
           [Fresh EXCEPT !.id = id, !.handler = "running", !.state = "working",
                         !.kind = kind, !.stream = stream, !.open = kind = "stream"]]
    /\ UNCHANGED cancels

\* The tool waits, does not want to, or its request timed out and it throws.
Send(s, id) ==
    /\ Begin(s, id, "send", <<>>)
    /\ \E at \in {"waiting", "returned", "threw"} :
           tool' = [tool EXCEPT ![s] = [NoTool EXCEPT !.at = at, !.state = "working"]]

SendSubscribe(s, id) ==
    Begin(s, id, "stream", <<Status("working", FALSE)>>) /\ UNCHANGED tool

\* Written to a connection that is gone, an event is lost.
Sent(s, events) == IF task[s].open THEN task[s].stream \o events ELSE task[s].stream

Chunk(s) ==
    /\ task[s].handler = "running" /\ task[s].chunks < MaxChunks
    /\ task' = [task EXCEPT ![s].chunks = @ + 1,
                            ![s].stream = Sent(s, <<Artifact(FALSE)>>)]
    /\ UNCHANGED <<tasks, tool, cancels>>

\* The end of a stream, with its two last events swapped.
MutEndEvents(ok) ==
    IF ok THEN <<Status("completed", TRUE), Artifact(TRUE)>>
    ELSE <<Status("failed", TRUE)>>
EndEvents(ok) ==
    IF ok THEN <<Artifact(TRUE), Status("completed", TRUE)>>
    ELSE <<Status("failed", TRUE)>>

\* The handler returns or throws: whatever the state was, canceled included.
HandlerEnds(s, ok) ==
    /\ task[s].handler = "running"
    /\ task' = [task EXCEPT ![s] =
           [task[s] EXCEPT !.handler = "ended",
                     !.state = IF ok THEN "completed" ELSE "failed",
                     !.messages = IF ok \/ task[s].kind = "send"
                                  THEN Append(@, IF ok THEN "agent" ELSE "error")
                                  ELSE @,
                     !.stream = Sent(s, EndEvents(ok)),
                     !.open = FALSE]]
    /\ UNCHANGED <<tasks, tool, cancels>>

\* tasks/cancel: the handler is not told, and a finished task is canceled too.
Cancel(id) ==
    /\ tasks[id] # Absent /\ cancels < MaxCancels
    /\ cancels' = cancels + 1
    /\ task' = [task EXCEPT ![tasks[id]].state = "canceled"]
    /\ UNCHANGED <<tasks, tool>>

\* The reader of a stream goes away; the handler runs on.
Disconnect(s) ==
    /\ task[s].open
    /\ task' = [task EXCEPT ![s].open = FALSE]
    /\ UNCHANGED <<tasks, tool, cancels>>

\* The server restarts: the map is in memory.
Restart ==
    /\ \E s \in Sends : task[s].handler = "running"
    /\ tasks' = [id \in TaskIds |-> Absent]
    /\ task' = [s \in Sends |-> [task[s] EXCEPT
           !.handler = IF @ = "running" THEN "gone" ELSE @, !.open = FALSE]]
    /\ UNCHANGED <<tool, cancels>>

(***************************************************************************)
(* waitForTask: tasks/get, and again after an interval, up to timeoutMs.   *)
(* A poll that leaves the tool waiting changes nothing.                    *)
(***************************************************************************)
Poll(s) ==
    LET found == tasks[task[s].id]
    IN /\ tool[s].at = "waiting"
       /\ IF found = Absent THEN tool' = [tool EXCEPT ![s].at = "threw"]
          ELSE /\ task[found].state \in Terminal
               /\ tool' = [tool EXCEPT ![s] =
                      [at |-> "returned", state |-> task[found].state,
                       text |-> Last(task[found].messages), from |-> found]]
       /\ UNCHANGED <<tasks, task, cancels>>

\* timeoutMs has passed, or a request failed.
GivesUp(s) ==
    /\ tool[s].at = "waiting"
    /\ tool' = [tool EXCEPT ![s].at = "threw"]
    /\ UNCHANGED <<tasks, task, cancels>>

ANext ==
    \/ \E s \in Sends :
           \/ \E id \in TaskIds : Send(s, id) \/ SendSubscribe(s, id)
           \/ Chunk(s) \/ Disconnect(s) \/ Poll(s) \/ GivesUp(s)
           \/ \E ok \in BOOLEAN : HandlerEnds(s, ok)
    \/ \E id \in TaskIds : Cancel(id)
    \/ Restart

ASpec == AInit /\ [][ANext]_avars

-----------------------------------------------------------------------------
(***************************************************************************)
(* Properties                                                              *)
(***************************************************************************)
ATypeOK ==
    /\ \A id \in TaskIds : tasks[id] \in Sends \cup {Absent}
    /\ cancels \in 0..MaxCancels
    /\ \A s \in Sends :
           /\ task[s].id \in TaskIds \cup {Absent}
           /\ task[s].handler \in {"none", "running", "ended", "gone"}
           /\ task[s].state \in Terminal \cup {"submitted", "working"}
           /\ ToSet(task[s].messages) \subseteq {"user", "agent", "error"}
           /\ tool[s].at \in {"none", "waiting", "returned", "threw"}

\* A tool that reports a task as completed reports what its agent said, and one
\* that reports it as failed the error, not the request, and never what an
\* earlier request under that id got. (A stream that fails leaves no message
\* with its error, server.ts:263-272.)
ToolTellsTruth ==
    \A s \in Sends : tool[s].from # Absent =>
        /\ tool[s].from >= s
        /\ tool[s].state = "completed" => tool[s].text = "agent"
        /\ tool[s].state = "failed" /\ task[tool[s].from].kind = "send"
               => tool[s].text = "error"

\* A reader of a stream sees "working" first and one final status at most;
\* nothing comes after that, and it agrees with what tasks/get then says
\* unless the task is canceled once more.
StreamsWellFormed ==
    \A s \in Sends :
        LET events == task[s].stream
            final == {i \in DOMAIN events : events[i].type = "status" /\ events[i].final}
        IN events # <<>> =>
            /\ events[1] = Status("working", FALSE)
            /\ final \subseteq {Len(events)}
            /\ \A i \in final : task[s].state \in {events[i].state, "canceled"}

\* A task whose handler has ended is not reported as running.
EndedIsTerminal == \A s \in Sends : task[s].handler = "ended" => task[s].state \in Terminal

A2aSafe == ToolTellsTruth /\ StreamsWellFormed /\ EndedIsTerminal

=============================================================================

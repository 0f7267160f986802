----------------------------- MODULE GraphServer -----------------------------
(***************************************************************************)
(* GraphRestServer of src/graph/rest-server.ts: threads and runs, kept in  *)
(* two maps, over one compiled graph whose checkpoints outlive both.  A    *)
(* request to /runs starts an execution and returns; /stream and /resume   *)
(* write the events of an execution of their own.                          *)
(*                                                                         *)
(* An execution is the StateGraph module's, by what the server can tell of *)
(* it: whether it knows a checkpoint of its thread, because it loaded one  *)
(* or saved one, the checkpoint it saves after each superstep, and how it  *)
(* stops: at a finish point, with nothing left to run, interrupted, or     *)
(* thrown out of.                                                          *)
(***************************************************************************)
EXTENDS Naturals, FiniteSets

CONSTANTS Threads, Executions, None

\* What a thread's last checkpoint is of: a superstep after which the execution
\* went on, how one ended, or an update
Checkpoints == {"wave", "end", "interrupt", "updated"}
GraphServerAssumption == None \notin Threads \cup Checkpoints

VARIABLES threads,  \* the map of thread records
          saved,    \* what the thread's last checkpoint is of
          patched,  \* PATCH requests between their look-up and their update
          exec      \* the executions: [thread, by, status, http, known]

gvars == <<threads, saved, patched, exec>>

Unstarted == [thread |-> None, by |-> None, status |-> "none", http |-> "none", known |-> "unread"]

GInit ==
    /\ threads = {}
    /\ saved = [t \in Threads |-> None]
    /\ patched = {}
    /\ exec = [e \in Executions |-> Unstarted]

CreateThread(t) ==
    /\ t \notin threads
    /\ threads' = threads \cup {t}
    /\ UNCHANGED <<saved, patched, exec>>

\* Runs go on, and the checkpoints stay for the next thread of that name.
DeleteThread(t) ==
    /\ t \in threads
    /\ threads' = threads \ {t}
    /\ UNCHANGED <<saved, patched, exec>>

\* The thread is looked up, the body is read, and then the state is updated.
PatchBegins(t) ==
    /\ t \in threads /\ t \notin patched
    /\ patched' = patched \cup {t}
    /\ UNCHANGED <<threads, saved, exec>>

\* updateState() throws (500) when there is no checkpoint.
PatchEnds(t) ==
    /\ t \in patched
    /\ patched' = patched \ {t}
    /\ saved' = [saved EXCEPT ![t] = IF @ = None THEN None ELSE "updated"]
    /\ UNCHANGED <<threads, exec>>

\* POST runs, stream or resume; the thread need not exist.
Start(e, t, by) ==
    /\ exec[e] = Unstarted
    /\ exec' = [exec EXCEPT ![e] =
           [thread |-> t, by |-> by, status |-> "running",
            http |-> IF by = "run" THEN "202" ELSE "open", known |-> "unread"]]
    /\ UNCHANGED <<threads, saved, patched>>

\* loadCheckpoint(), before the first node
Loads(e) ==
    /\ exec[e].status = "running" /\ exec[e].known = "unread"
    /\ exec' = [exec EXCEPT ![e].known = IF saved[exec[e].thread] = None THEN "none" ELSE "some"]
    /\ UNCHANGED <<threads, saved, patched>>

\* Only a resume() needs a checkpoint to run a node.
Runs(e) ==
    /\ exec[e].status = "running" /\ exec[e].known # "unread"
    /\ exec[e].by = "resume" => exec[e].known = "some"

\* A superstep after which there is more to run, or nothing
Superstep(e) ==
    /\ Runs(e)
    /\ saved' = [saved EXCEPT ![exec[e].thread] = "wave"]
    /\ exec' = [exec EXCEPT ![e].known = "some"]
    /\ UNCHANGED <<threads, patched>>

\* An invoke() that is interrupted throws: there is no end event.
MutStatusAfter(e, how) == "completed"
StatusAfter(e, how) == IF how \in {"end", "exhausted"} THEN "completed" ELSE "failed"

\* At a finish point and, in a stream(), at an interrupt a checkpoint is saved;
\* a resume() throws the interrupt.  With no node to run nothing is saved: the
\* nodes that were run are those of a checkpoint that was loaded or saved before.
Ends(e, how) ==
    LET t == exec[e].thread
    IN /\ exec[e].status = "running"
       /\ how # "thrown" => Runs(e)
       /\ how = "interrupt" => exec[e].by # "resume"
       /\ how = "exhausted" => exec[e].known = "some"
       /\ exec' = [exec EXCEPT ![e].status = StatusAfter(e, how),
                               ![e].http = IF @ = "open" THEN "closed" ELSE @]
       /\ saved' = [saved EXCEPT ![t] = IF how \in {"end", "interrupt"} THEN how ELSE @]
       /\ UNCHANGED <<threads, patched>>

\* Restarted: the maps are gone, the checkpoints are not.
ServerRestart ==
    /\ \E e \in Executions : exec[e].status = "running"
    /\ threads' = {} /\ patched' = {}
    /\ exec' = [e \in Executions |->
           IF exec[e] = Unstarted THEN Unstarted
           ELSE [exec[e] EXCEPT !.status = IF @ = "running" THEN "lost" ELSE @,
                                !.http = IF @ = "open" THEN "closed" ELSE @]]
    /\ UNCHANGED saved

GNext ==
    \/ \E t \in Threads : CreateThread(t) \/ DeleteThread(t) \/ PatchBegins(t) \/ PatchEnds(t)
    \/ \E e \in Executions :
           \/ \E t \in Threads, by \in {"run", "stream", "resume"} : Start(e, t, by)
           \/ Loads(e) \/ Superstep(e)
           \/ \E how \in {"end", "exhausted", "interrupt", "thrown"} : Ends(e, how)
    \/ ServerRestart

GSpec == GInit /\ [][GNext]_gvars

-----------------------------------------------------------------------------
(***************************************************************************)
(* Properties                                                              *)
(***************************************************************************)
GTypeOK ==
    /\ threads \cup patched \subseteq Threads
    /\ \A t \in Threads : saved[t] \in Checkpoints \cup {None}
    /\ \A e \in Executions :
           /\ exec[e].thread \in Threads \cup {None}
           /\ exec[e].status \in {"none", "running", "completed", "failed", "lost"}
           /\ exec[e].http \in {"none", "202", "open", "closed"}
           /\ exec[e].known \in {"unread", "none", "some"}

\* A run reported as completed has left a checkpoint of its thread, also when
\* the thread was deleted or the server restarted since; a response stream is
\* open only while its execution goes on.
ReportsAgree ==
    \A e \in Executions :
        /\ exec[e].status = "completed" => saved[exec[e].thread] # None
        /\ exec[e].http = "open" => exec[e].status = "running"

=============================================================================

------------------------------ MODULE Workers ------------------------------
(***************************************************************************)
(* executeWorkers() of src/harness/workerEngine.ts: the assignments of a   *)
(* task are given to workers, one after the other or up to `concurrency`   *)
(* at a time, each of which asks the model, again after a transient        *)
(* failure, and answers or fails, but never throws.  An AbortSignal may    *)
(* fire before the call or at any time during it.                          *)
(*                                                                         *)
(* The events a worker emits follow its state one by one and are left out. *)
(***************************************************************************)
EXTENDS Naturals, Sequences, SequencesExt, FiniteSetsExt

CONSTANTS Workers,    \* how many assignments the call has
          RoleOf,     \* [1..Workers -> role]: two may share one
          Modes,      \* the executionMode and concurrency the call may have
          MaxRetries  \* maxRetriesPerWorker

WorkersAssumption ==
    /\ Workers \in Nat \ {0} /\ MaxRetries \in Nat \ {0}
    /\ Modes \subseteq [topology : {"pipeline", "parallel"}, concurrency : Nat]

VARIABLES mode,    \* [topology, concurrency]
          phase,   \* of the call
          signal,  \* abortSignal.aborted
          early,   \* it was aborted before the call
          heard,   \* `aborted`: the listener of executeParallel ran
          queue,   \* the assignments not started
          worker,  \* [state, attempts, seen, late]
          racing,  \* the promises given to Promise.race
          results, \* in the order they are returned
          shared   \* the SharedWorkerContext

wvars == <<mode, phase, signal, early, heard, queue, worker, racing, results, shared>>

Ids == 1..Workers
Sequential == mode.topology = "pipeline" \/ mode.concurrency <= 1
Concurrency == IF Sequential THEN 1 ELSE mode.concurrency
InFlight == {w \in Ids : worker[w].state = "running"}

WInit ==
    /\ mode \in Modes
    /\ phase = "idle"
    /\ signal = FALSE
    /\ early = FALSE
    /\ heard = FALSE
    /\ queue = [w \in Ids |-> w]
    /\ worker = [w \in Ids |-> [state |-> "queued", attempts |-> 0,
                                seen |-> <<>>, late |-> FALSE]]
    /\ racing = {}
    /\ results = <<>>
    /\ shared = [r \in {RoleOf[w] : w \in Ids} |-> 0]

Abort ==
    /\ ~signal
    /\ signal' = TRUE
    /\ early' = (phase = "idle")
    /\ heard' = (phase # "idle" /\ ~Sequential)
    /\ UNCHANGED <<mode, phase, queue, worker, racing, results, shared>>

\* What the head of the loop looks at: the signal, or what the listener set.
MutAborted == FALSE
Aborted == IF Sequential THEN signal ELSE heard

\* Room for more workers: the inner loop fills up before it awaits anything.
MutRoom == Concurrency - (Workers - Len(queue))
Room == Concurrency - Cardinality(InFlight)

\* The call begins, or a worker of the race has finished and the loop goes on.
Resumes == phase = "idle" \/ (phase = "race" /\ ~(racing \subseteq InFlight))
Left == queue # <<>> \/ InFlight # {}

\* The head of the loop and its body, down to Promise.race.  A pipeline
\* worker is given what the ones before it found.
Start ==
    /\ Resumes /\ Left /\ ~Aborted
    /\ phase' = "race"
    /\ LET started == ToSet(SubSeq(queue, 1, Min({Len(queue), Room})))
       IN /\ queue' = SubSeq(queue, Cardinality(started) + 1, Len(queue))
          /\ racing' = InFlight \cup started
          /\ worker' = [w \in Ids |-> IF w \notin started THEN worker[w]
                 ELSE [state |-> "running", attempts |-> 0, late |-> signal,
                       seen |-> IF mode.topology = "pipeline" THEN results ELSE <<>>]]
    /\ UNCHANGED <<mode, signal, early, heard, results, shared>>

\* Aborted: nobody is started, those in flight are awaited.
Drain ==
    /\ Resumes /\ Left /\ Aborted
    /\ phase' = "drain"
    /\ UNCHANGED <<mode, signal, early, heard, queue, worker, racing, results, shared>>

Return ==
    /\ \/ Resumes /\ ~Left
       \/ phase = "drain" /\ InFlight = {}
    /\ phase' = "returned"
    /\ UNCHANGED <<mode, signal, early, heard, queue, worker, racing, results, shared>>

\* withRetry: shouldRetry of DEFAULT_RETRY_POLICY stops at 3 by itself.
MutMayAskAgain(w) == worker[w].attempts < Min({MaxRetries, 3})
MayAskAgain(w) == worker[w].attempts + 1 < Min({MaxRetries, 3})

AskAgain(w) ==
    /\ w \in InFlight /\ MayAskAgain(w)
    /\ worker' = [worker EXCEPT ![w].attempts = @ + 1]
    /\ UNCHANGED <<mode, phase, signal, early, heard, queue, racing, results, shared>>

\* The model answers, or has failed for good: either is a result.
Finish(w, state) ==
    /\ w \in InFlight
    /\ worker' = [worker EXCEPT ![w].state = state]
    /\ results' = Append(results, w)
    /\ shared' = [shared EXCEPT ![RoleOf[w]] = w]
    /\ UNCHANGED <<mode, phase, signal, early, heard, queue, racing>>

Engine == Start \/ Drain \/ Return
Answer(w) == AskAgain(w) \/ \E state \in {"done", "error"} : Finish(w, state)

WNext == Abort \/ Engine \/ \E w \in Ids : Answer(w)

WSpec == WInit /\ [][WNext]_wvars

\* The event loop goes on, and a model request settles.
WFairness == WF_wvars(Engine) /\ \A w \in Ids : WF_wvars(Answer(w))

-----------------------------------------------------------------------------
(***************************************************************************)
(* Properties                                                              *)
(***************************************************************************)
WTypeOK ==
    /\ mode \in Modes /\ {signal, early, heard} \subseteq BOOLEAN
    /\ phase \in {"idle", "race", "drain", "returned"}
    /\ ToSet(queue) \cup ToSet(results) \cup racing \subseteq Ids
    /\ \A w \in Ids : /\ worker[w].state \in {"queued", "running", "done", "error"}
                      /\ worker[w].attempts < 3

\* However the answers of a pool come in, no more workers run than asked for.
Bounded == Cardinality(InFlight) <= Concurrency

\* An abort starts nobody any more.  The one it does not reach is a parallel
\* call made with a signal that had already fired.
NoneAfterAbort == \A w \in Ids : worker[w].late => early /\ ~Sequential

\* What is returned is the result of each worker that was started, once, and
\* all of them when nobody aborted: the race loses and repeats nobody.
AllReturned ==
    phase = "returned" =>
        /\ ToSet(results) = {w \in Ids : worker[w].state # "queued"}
        /\ Len(results) = Cardinality(ToSet(results))
        /\ queue # <<>> => Aborted

\* Each worker of a pipeline is given the results of all before it, in order.
PipelineAccumulates ==
    mode.topology = "pipeline" =>
        \A i \in DOMAIN results :
            worker[results[i]].seen = SubSeq(results, 1, i - 1) /\ results[i] = i

WorkersSafe == Bounded /\ NoneAfterAbort /\ AllReturned /\ PipelineAccumulates

\* What must not last: every call returns, aborted or not.
Working == phase \notin {"idle", "returned"}

=============================================================================

------------------------------ MODULE HitlGate ------------------------------
(***************************************************************************)
(* The human-in-the-loop gate, src/agent/hitl.ts: a map from resume keys   *)
(* to the promise some caller of wait() is blocked on, a map of decisions  *)
(* parked because nobody was waiting, the tools approved for the session,  *)
(* and one timer per wait.                                                 *)
(*                                                                         *)
(* A wait() call and a resolve() call are each an identity, used once, so  *)
(* that "which decision settled which wait" is part of the state.  What a  *)
(* decision says (approve or reject) passes through the gate unread: only  *)
(* the tool names an approve_session lists are kept here.  The event loop  *)
(* runs one method or one timer callback at a time: every action below is  *)
(* one of them, whole.                                                     *)
(***************************************************************************)
EXTENDS FiniteSets

CONSTANTS Keys,       \* resume keys
          Waits,      \* the wait() calls
          Decisions,  \* the resolve() calls
          Tools,      \* tool names an approve_session decision may list
          None        \* "no such entry"

ASSUME HitlAssumption == None \notin Keys \cup Waits \cup Decisions

WaitStates == {"unused", "open", "decided", "timed_out", "disposed"}

VARIABLES gates,           \* resume key -> the wait registered for it
          pending,         \* resume key -> the decision parked for it
          sessionApproved, \* tool names approved for the session
          disposed,
          wState,          \* what became of a wait's promise
          wKey,            \* the key a wait was called with
          wDecision,       \* the decision a wait's promise was resolved with
          timer,           \* the waits whose timeout is armed
          dKey,            \* the key a decision was made for, None: not made
          \* Two history variables.
          overlapped,      \* keys on which two waits have been open at once
          cleared          \* decisions made before the last clearing of pending

gateVars == <<gates, pending, sessionApproved, disposed>>
waitVars == <<wState, wKey, wDecision, timer>>
vars == <<gateVars, waitVars, dKey, overlapped, cleared>>

Open == {w \in Waits : wState[w] = "open"}
Made == {d \in Decisions : dKey[d] # None}

TypeOK ==
    /\ gates \in [Keys -> Waits \cup {None}]
    /\ pending \in [Keys -> Decisions \cup {None}]
    /\ sessionApproved \subseteq Tools
    /\ disposed \in BOOLEAN
    /\ wState \in [Waits -> WaitStates]
    /\ wKey \in [Waits -> Keys \cup {None}]
    /\ wDecision \in [Waits -> Decisions \cup {None}]
    /\ timer \subseteq Waits
    /\ dKey \in [Decisions -> Keys \cup {None}]
    /\ overlapped \subseteq Keys
    /\ cleared \subseteq Decisions

Init ==
    /\ gates = [k \in Keys |-> None]
    /\ pending = [k \in Keys |-> None]
    /\ sessionApproved = {}
    /\ disposed = FALSE
    /\ wState = [w \in Waits |-> "unused"]
    /\ wKey = [w \in Waits |-> None]
    /\ wDecision = [w \in Waits |-> None]
    /\ timer = {}
    /\ dKey = [d \in Decisions |-> None]
    /\ overlapped = {}
    /\ cleared = {}

(***************************************************************************)
(* wait(resumeKey, timeoutMs): a parked decision answers at once; otherwise *)
(* the call registers itself, over any earlier entry, and arms its timer   *)
(* unless the effective timeout is not positive.                           *)
(***************************************************************************)
\* A parked decision that answers and stays parked.
MutUnparkedKept(k) == pending
Unparked(k) == [pending EXCEPT ![k] = None]

WaitParked(w, k) ==
    /\ wState[w] = "unused"
    /\ pending[k] # None
    /\ wState' = [wState EXCEPT ![w] = "decided"]
    /\ wKey' = [wKey EXCEPT ![w] = k]
    /\ wDecision' = [wDecision EXCEPT ![w] = pending[k]]
    /\ pending' = Unparked(k)
    /\ UNCHANGED <<gates, sessionApproved, disposed, timer, dKey,
                   overlapped, cleared>>

WaitRegister(w, k, timed) ==
    /\ wState[w] = "unused"
    /\ pending[k] = None
    /\ wState' = [wState EXCEPT ![w] = "open"]
    /\ wKey' = [wKey EXCEPT ![w] = k]
    /\ gates' = [gates EXCEPT ![k] = w]
    /\ timer' = IF timed THEN timer \cup {w} ELSE timer
    /\ overlapped' = IF \E v \in Open : wKey[v] = k
                     THEN overlapped \cup {k} ELSE overlapped
    /\ UNCHANGED <<pending, sessionApproved, disposed, wDecision, dKey,
                   cleared>>

Wait(w, k, timed) == WaitParked(w, k) \/ WaitRegister(w, k, timed)

\* The timer callback of a wait removes the entry of its KEY, whoever owns it
\* by now, and rejects its own promise.
MutTimedOutGates(w) == gates
TimedOutGates(w) == [gates EXCEPT ![wKey[w]] = None]

Timeout(w) ==
    /\ w \in timer
    /\ timer' = timer \ {w}
    /\ gates' = TimedOutGates(w)
    /\ wState' = [wState EXCEPT ![w] = IF @ = "open" THEN "timed_out" ELSE @]
    /\ UNCHANGED <<pending, sessionApproved, disposed, wKey, wDecision, dKey,
                   overlapped, cleared>>

(***************************************************************************)
(* resolve(resumeKey, decision): tools is empty unless the decision is an  *)
(* approve_session.                                                        *)
(***************************************************************************)
Make(d, k, tools) ==
    /\ dKey[d] = None
    /\ dKey' = [dKey EXCEPT ![d] = k]
    /\ sessionApproved' = sessionApproved \cup tools

\* A resolve() that parks its decision whether or not somebody waits.
MutNobodyRegistered(k) == TRUE
NobodyRegistered(k) == gates[k] = None

\* Nobody is registered: the decision is parked, over any earlier one.
ResolvePark(d, k, tools) ==
    /\ NobodyRegistered(k)
    /\ Make(d, k, tools)
    /\ pending' = [pending EXCEPT ![k] = d]
    /\ UNCHANGED <<gates, disposed, waitVars, overlapped, cleared>>

\* A delivery that forgets clearTimeout.
MutTimersAfter(answered) == timer
TimersAfter(answered) == timer \ answered

ResolveDeliver(d, k, tools) ==
    /\ gates[k] # None
    /\ Make(d, k, tools)
    /\ timer' = TimersAfter({gates[k]})
    /\ wState' = [wState EXCEPT ![gates[k]] = "decided"]
    /\ wDecision' = [wDecision EXCEPT ![gates[k]] = d]
    /\ gates' = [gates EXCEPT ![k] = None]
    /\ UNCHANGED <<pending, disposed, wKey, overlapped, cleared>>

Resolve(d, k, tools) == ResolvePark(d, k, tools) \/ ResolveDeliver(d, k, tools)

Registered == {w \in Waits : \E k \in Keys : gates[k] = w}

\* A dispose() that clears the maps and the timers and rejects nobody, and one
\* that rejects with a state no wait() has.
MutStatesAfterDispose == wState
MutStatesIllTyped ==
    [w \in Waits |-> IF w \in Registered THEN "rejected" ELSE wState[w]]
StatesAfterDispose ==
    [w \in Waits |-> IF w \in Registered THEN "disposed" ELSE wState[w]]

\* dispose() rejects the registered waits; a second call returns early.
Dispose ==
    /\ ~disposed
    /\ disposed' = TRUE
    /\ timer' = timer \ Registered
    /\ wState' = StatesAfterDispose
    /\ gates' = [k \in Keys |-> None]
    /\ pending' = [k \in Keys |-> None]
    /\ cleared' = Made
    /\ UNCHANGED <<sessionApproved, wKey, wDecision, dKey, overlapped>>

\* A reset that forgets the parked decisions.
MutPendingAfterReset == pending
PendingAfterReset == [k \in Keys |-> None]

ResetSessionApprovals ==
    /\ sessionApproved' = {}
    /\ pending' = PendingAfterReset
    /\ cleared' = Made
    /\ UNCHANGED <<gates, disposed, waitVars, dKey, overlapped>>

\* shouldPause(toolCalls, policy): "calls" is the set of called tool names,
\* "sensitive" the names that are in sensitiveTools or start with mcp__.
ShouldPause(calls, sensitive, policy) ==
    /\ policy \notin {"full_auto", "suggest"}
    /\ (calls \cap sensitive) \ sessionApproved # {}

Next ==
    \/ \E w \in Waits, k \in Keys, timed \in BOOLEAN : Wait(w, k, timed)
    \/ \E w \in Waits : Timeout(w)
    \/ \E d \in Decisions, k \in Keys, tools \in SUBSET Tools :
           Resolve(d, k, tools)
    \/ Dispose
    \/ ResetSessionApprovals

Spec == Init /\ [][Next]_vars

\* An armed Node timer fires.
FairSpec == Spec /\ \A w \in Waits : WF_vars(Timeout(w))

-----------------------------------------------------------------------------
(***************************************************************************)
(* Properties                                                              *)
(***************************************************************************)

\* A registered entry is an open wait of that key; and as long as no second
\* wait was opened over a first one, every open wait is the registered entry
\* of its key, so that resolve(), which looks callers up by key, reaches it.
OpenWaitsReachable ==
    /\ \A k \in Keys : gates[k] # None =>
           gates[k] \in Open /\ wKey[gates[k]] = k
    /\ \A w \in Open : wKey[w] \in overlapped \/ gates[wKey[w]] = w

\* No lost wake-up: no decision stays parked under a key on which a caller is
\* blocked (an open wait that another overlapped is the only exception).
NoLostDecision ==
    \A k \in Keys : pending[k] # None =>
        /\ gates[k] = None
        /\ k \in overlapped \/ \A w \in Open : wKey[w] # k

\* "approve: execute this tool call once": one resolve() call settles at most
\* one wait(), of the key the decision was made for, and a decision still
\* parked has settled none.
OneWaitPerDecision ==
    /\ \A v, w \in Waits : wDecision[v] = wDecision[w] =>
           v = w \/ wDecision[v] = None
    /\ \A w \in Waits, k \in Keys : wDecision[w] = pending[k] =>
           pending[k] = None
    /\ \A w \in Waits : wDecision[w] # None => dKey[wDecision[w]] = wKey[w]

\* A decision made before resetSessionApprovals() or dispose() is forgotten:
\* it cannot answer a wait() called afterwards.
ClearedDecisionsAreDead == \A k \in Keys : pending[k] \notin cleared

\* The timeout of an answered or disposed wait is no longer armed: it cannot
\* fire later and take away the entry of the next wait on the same key.
SettledWaitsHaveNoTimer == timer \subseteq Open

\* dispose() leaves nobody blocked, on any key that no two waits shared.
DisposeReleasesWaits ==
    [][disposed' # disposed =>
           \A w \in Waits : wState'[w] = "open" => wKey[w] \in overlapped]_vars

\* No immortal resolvers: a wait with a timeout is settled in the end, by a
\* decision, by its timer or by dispose(), overlapping waits included.
TimedWaitsSettle == \A w \in Waits : (w \in timer) ~> (wState[w] # "open")

\* The gate is a Mailbox: a caller is what became of its promise, the live
\* decisions are the parked ones.  No interleaving of waits, timers,
\* decisions, resets and a dispose makes a step the mailbox does not allow.
Status(state) ==
    CASE state = "unused" -> "new"
      [] state = "open" -> "open"
      [] state = "decided" -> "answered"
      [] OTHER -> "failed"
Parked == {pending[k] : k \in Keys} \ {None}
Box == INSTANCE Mailbox WITH status <- [w \in Waits |-> Status(wState[w])],
           key <- wKey, got <- wDecision, made <- dKey, live <- Parked,
           shared <- overlapped
ImplementsMailbox == Box!Spec

=============================================================================

--------------------------- MODULE HitlGateProofs ---------------------------
(***************************************************************************)
(* The invariants of HitlGate hold for any sets of keys, waits, decisions  *)
(* and tools.  They are proved together, as one inductive invariant: that  *)
(* an open wait is reachable through its key is what shows that no         *)
(* decision is parked behind its back, and that a decision is parked under *)
(* the key it was made for is what shows that it is consumed once.         *)
(***************************************************************************)
EXTENDS HitlGate, TLAPS

\* What the named invariants leave implicit: an unsettled wait carries no
\* decision and an open one has a key; a parked or consumed decision was
\* really made, a parked one for the key it is parked under; only made
\* decisions have been cleared.
Bookkeeping ==
    /\ \A w \in Waits : wState[w] \in {"unused", "open"} => wDecision[w] = None
    /\ \A w \in Open : wKey[w] \in Keys
    /\ \A k \in Keys : pending[k] # None => dKey[pending[k]] = k
    /\ \A w \in Waits : wDecision[w] # None => wDecision[w] \in Made
    /\ cleared \subseteq Made

Inv ==
    /\ TypeOK
    /\ Bookkeeping
    /\ OpenWaitsReachable
    /\ NoLostDecision
    /\ OneWaitPerDecision
    /\ ClearedDecisionsAreDead
    /\ SettledWaitsHaveNoTimer

\* A new gate satisfies every conjunct of the invariant.
LEMMA InitInv == Init => Inv
BY HitlAssumption
DEF Init, Inv, TypeOK, Bookkeeping, OpenWaitsReachable, NoLostDecision,
    OneWaitPerDecision, ClearedDecisionsAreDead, SettledWaitsHaveNoTimer,
    Open, Made, WaitStates

\* Every step keeps every variable in its type.
LEMMA NextTypeOK == TypeOK /\ Inv /\ [Next]_vars => TypeOK'
<1> SUFFICES ASSUME TypeOK, Inv, [Next]_vars PROVE TypeOK'
  OBVIOUS
<1>1. ASSUME NEW w \in Waits, NEW k \in Keys, WaitParked(w, k) PROVE TypeOK'
  BY <1>1 DEF TypeOK, WaitParked, Unparked, WaitStates
<1>2. ASSUME NEW w \in Waits, NEW k \in Keys, NEW timed \in BOOLEAN,
             WaitRegister(w, k, timed)
      PROVE  TypeOK'
  BY <1>2 DEF TypeOK, WaitRegister, WaitStates
<1>3. ASSUME NEW w \in Waits, Timeout(w) PROVE TypeOK'
  BY <1>3 DEF TypeOK, Timeout, TimedOutGates, WaitStates
<1>4. ASSUME NEW d \in Decisions, NEW k \in Keys, NEW tools \in SUBSET Tools,
             ResolvePark(d, k, tools)
      PROVE  TypeOK'
  BY <1>4 DEF TypeOK, ResolvePark, Make, waitVars
<1>5. ASSUME NEW d \in Decisions, NEW k \in Keys, NEW tools \in SUBSET Tools,
             ResolveDeliver(d, k, tools)
      PROVE  TypeOK'
  BY <1>5 DEF TypeOK, ResolveDeliver, Make, TimersAfter, WaitStates
<1>6. CASE Dispose
  BY <1>6 DEF TypeOK, Dispose, StatesAfterDispose, WaitStates, Made
<1>7. CASE ResetSessionApprovals
  BY <1>7 DEF TypeOK, ResetSessionApprovals, PendingAfterReset, waitVars, Made
<1>8. CASE UNCHANGED vars
  BY <1>8 DEF TypeOK, vars, gateVars, waitVars
<1> QED
  BY <1>1, <1>2, <1>3, <1>4, <1>5, <1>6, <1>7, <1>8 DEF Next, Wait, Resolve

(***************************************************************************)
(* The other conjuncts, one lemma per conjunct, one step per action.       *)
(***************************************************************************)
\* Every step keeps the auxiliary facts the other conjuncts lean on.
LEMMA NextBookkeeping == Inv /\ [Next]_vars => Bookkeeping'
<1> SUFFICES ASSUME Inv, [Next]_vars PROVE Bookkeeping'
  OBVIOUS
<1> USE HitlAssumption DEF Inv, TypeOK, Bookkeeping, Open, Made
<1>1. ASSUME NEW w \in Waits, NEW k \in Keys, WaitParked(w, k)
      PROVE  Bookkeeping'
  BY <1>1 DEF WaitParked, Unparked, WaitStates
<1>2. ASSUME NEW w \in Waits, NEW k \in Keys, NEW timed \in BOOLEAN,
             WaitRegister(w, k, timed)
      PROVE  Bookkeeping'
  BY <1>2 DEF WaitRegister, WaitStates
<1>3. ASSUME NEW w \in Waits, Timeout(w) PROVE Bookkeeping'
  BY <1>3 DEF Timeout, WaitStates
<1>4. ASSUME NEW d \in Decisions, NEW k \in Keys, NEW tools \in SUBSET Tools,
             ResolvePark(d, k, tools)
      PROVE  Bookkeeping'
  BY <1>4 DEF ResolvePark, Make, waitVars, ClearedDecisionsAreDead
<1>5. ASSUME NEW d \in Decisions, NEW k \in Keys, NEW tools \in SUBSET Tools,
             ResolveDeliver(d, k, tools)
      PROVE  Bookkeeping'
  BY <1>5 DEF ResolveDeliver, Make, WaitStates
<1>6. CASE Dispose
  BY <1>6 DEF Dispose, StatesAfterDispose, WaitStates
<1>7. CASE ResetSessionApprovals
  BY <1>7 DEF ResetSessionApprovals, PendingAfterReset, waitVars
<1>8. CASE UNCHANGED vars
  BY <1>8 DEF vars, gateVars, waitVars
<1> QED
  BY <1>1, <1>2, <1>3, <1>4, <1>5, <1>6, <1>7, <1>8 DEF Next, Wait, Resolve

\* Every step keeps the open waits reachable by key: the entry of a key is
\* replaced or removed only with the wait it names, or once waits overlapped.
LEMMA NextReachable == Inv /\ [Next]_vars => OpenWaitsReachable'
<1> SUFFICES ASSUME Inv, [Next]_vars PROVE OpenWaitsReachable'
  OBVIOUS
<1> USE HitlAssumption DEF Inv, TypeOK, OpenWaitsReachable, Open
<1>1. ASSUME NEW w \in Waits, NEW k \in Keys, WaitParked(w, k)
      PROVE  OpenWaitsReachable'
  BY <1>1 DEF WaitParked
<1>2. ASSUME NEW w \in Waits, NEW k \in Keys, NEW timed \in BOOLEAN,
             WaitRegister(w, k, timed)
      PROVE  OpenWaitsReachable'
  BY <1>2 DEF WaitRegister
<1>3. ASSUME NEW w \in Waits, Timeout(w) PROVE OpenWaitsReachable'
  <2>1. w \in Open /\ wKey[w] \in Keys
    BY <1>3 DEF Timeout, SettledWaitsHaveNoTimer, Bookkeeping
  <2>2. ASSUME NEW v \in Waits, v \in Open, v # w, wKey[v] = wKey[w]
        PROVE  wKey[v] \in overlapped
    BY <2>1, <2>2
  <2> QED
    BY <1>3, <2>1, <2>2 DEF Timeout, TimedOutGates
<1>4. ASSUME NEW d \in Decisions, NEW k \in Keys, NEW tools \in SUBSET Tools,
             ResolvePark(d, k, tools)
      PROVE  OpenWaitsReachable'
  BY <1>4 DEF ResolvePark, waitVars
<1>5. ASSUME NEW d \in Decisions, NEW k \in Keys, NEW tools \in SUBSET Tools,
             ResolveDeliver(d, k, tools)
      PROVE  OpenWaitsReachable'
  BY <1>5 DEF ResolveDeliver
<1>6. CASE Dispose
  <2>1. ASSUME NEW v \in Waits, v \in Open' PROVE wKey[v] \in overlapped
    BY <1>6, <2>1 DEF Dispose, StatesAfterDispose, Registered, Bookkeeping
  <2> QED
    BY <1>6, <2>1 DEF Dispose
<1>7. CASE ResetSessionApprovals
  BY <1>7 DEF ResetSessionApprovals, waitVars
<1>8. CASE UNCHANGED vars
  BY <1>8 DEF vars, gateVars, waitVars
<1> QED
  BY <1>1, <1>2, <1>3, <1>4, <1>5, <1>6, <1>7, <1>8 DEF Next, Wait, Resolve

\* Every step keeps blocked keys free of parked decisions: resolve() parks only
\* where nobody is registered, wait() registers only where nothing is parked.
LEMMA NextNoLost == Inv /\ [Next]_vars => NoLostDecision'
<1> SUFFICES ASSUME Inv, [Next]_vars PROVE NoLostDecision'
  OBVIOUS
<1> USE HitlAssumption DEF Inv, TypeOK, NoLostDecision, Open
<1>1. ASSUME NEW w \in Waits, NEW k \in Keys, WaitParked(w, k)
      PROVE  NoLostDecision'
  BY <1>1 DEF WaitParked, Unparked
<1>2. ASSUME NEW w \in Waits, NEW k \in Keys, NEW timed \in BOOLEAN,
             WaitRegister(w, k, timed)
      PROVE  NoLostDecision'
  BY <1>2 DEF WaitRegister
<1>3. ASSUME NEW w \in Waits, Timeout(w) PROVE NoLostDecision'
  BY <1>3 DEF Timeout, TimedOutGates
<1>4. ASSUME NEW d \in Decisions, NEW k \in Keys, NEW tools \in SUBSET Tools,
             ResolvePark(d, k, tools)
      PROVE  NoLostDecision'
  <2>1. k \in overlapped \/ \A w \in Open : wKey[w] # k
    BY <1>4 DEF ResolvePark, NobodyRegistered, OpenWaitsReachable
  <2> QED
    BY <1>4, <2>1 DEF ResolvePark, NobodyRegistered, waitVars
<1>5. ASSUME NEW d \in Decisions, NEW k \in Keys, NEW tools \in SUBSET Tools,
             ResolveDeliver(d, k, tools)
      PROVE  NoLostDecision'
  BY <1>5 DEF ResolveDeliver
<1>6. CASE Dispose
  BY <1>6 DEF Dispose
<1>7. CASE ResetSessionApprovals
  BY <1>7 DEF ResetSessionApprovals, PendingAfterReset
<1>8. CASE UNCHANGED vars
  BY <1>8 DEF vars, gateVars, waitVars
<1> QED
  BY <1>1, <1>2, <1>3, <1>4, <1>5, <1>6, <1>7, <1>8 DEF Next, Wait, Resolve

\* Every step keeps a decision to one wait: it is either delivered or parked,
\* and unparked by the wait that takes it.
LEMMA NextOneWait == Inv /\ [Next]_vars => OneWaitPerDecision'
<1> SUFFICES ASSUME Inv, [Next]_vars PROVE OneWaitPerDecision'
  OBVIOUS
<1> USE HitlAssumption DEF Inv, TypeOK, OneWaitPerDecision, Bookkeeping,
                           Open, Made
<1>1. ASSUME NEW w \in Waits, NEW k \in Keys, WaitParked(w, k)
      PROVE  OneWaitPerDecision'
  BY <1>1 DEF WaitParked, Unparked, WaitStates
<1>2. ASSUME NEW w \in Waits, NEW k \in Keys, NEW timed \in BOOLEAN,
             WaitRegister(w, k, timed)
      PROVE  OneWaitPerDecision'
  BY <1>2 DEF WaitRegister, WaitStates
<1>3. ASSUME NEW w \in Waits, Timeout(w) PROVE OneWaitPerDecision'
  BY <1>3 DEF Timeout
<1>4. ASSUME NEW d \in Decisions, NEW k \in Keys, NEW tools \in SUBSET Tools,
             ResolvePark(d, k, tools)
      PROVE  OneWaitPerDecision'
  BY <1>4 DEF ResolvePark, Make, waitVars
<1>5. ASSUME NEW d \in Decisions, NEW k \in Keys, NEW tools \in SUBSET Tools,
             ResolveDeliver(d, k, tools)
      PROVE  OneWaitPerDecision'
  BY <1>5 DEF ResolveDeliver, Make, OpenWaitsReachable, WaitStates
<1>6. CASE Dispose
  BY <1>6 DEF Dispose
<1>7. CASE ResetSessionApprovals
  BY <1>7 DEF ResetSessionApprovals, PendingAfterReset, waitVars
<1>8. CASE UNCHANGED vars
  BY <1>8 DEF vars, gateVars, waitVars
<1> QED
  BY <1>1, <1>2, <1>3, <1>4, <1>5, <1>6, <1>7, <1>8 DEF Next, Wait, Resolve

\* Every step keeps the cleared decisions out of the parked ones.
LEMMA NextCleared == Inv /\ [Next]_vars => ClearedDecisionsAreDead'
<1> SUFFICES ASSUME Inv, [Next]_vars PROVE ClearedDecisionsAreDead'
  OBVIOUS
<1> USE HitlAssumption DEF Inv, TypeOK, ClearedDecisionsAreDead, Made
<1>1. None \notin cleared /\ None \notin Made
  BY DEF Bookkeeping
<1>2. ASSUME NEW w \in Waits, NEW k \in Keys, NEW timed \in BOOLEAN,
             Wait(w, k, timed)
      PROVE  ClearedDecisionsAreDead'
  BY <1>1, <1>2 DEF Wait, WaitParked, WaitRegister, Unparked
<1>3. ASSUME NEW w \in Waits, Timeout(w) PROVE ClearedDecisionsAreDead'
  BY <1>3 DEF Timeout
<1>4. ASSUME NEW d \in Decisions, NEW k \in Keys, NEW tools \in SUBSET Tools,
             Resolve(d, k, tools)
      PROVE  ClearedDecisionsAreDead'
  BY <1>4 DEF Resolve, ResolvePark, ResolveDeliver, Make, Bookkeeping
<1>5. CASE Dispose
  BY <1>1, <1>5 DEF Dispose
<1>6. CASE ResetSessionApprovals
  BY <1>1, <1>6 DEF ResetSessionApprovals, PendingAfterReset
<1>7. CASE UNCHANGED vars
  BY <1>7 DEF vars, gateVars
<1> QED
  BY <1>2, <1>3, <1>4, <1>5, <1>6, <1>7 DEF Next

\* Every step keeps the armed timers to the open waits.
LEMMA NextTimers == Inv /\ [Next]_vars => SettledWaitsHaveNoTimer'
<1> SUFFICES ASSUME Inv, [Next]_vars PROVE SettledWaitsHaveNoTimer'
  OBVIOUS
<1> USE HitlAssumption DEF Inv, TypeOK, SettledWaitsHaveNoTimer, Open
<1>1. ASSUME NEW w \in Waits, NEW k \in Keys, NEW timed \in BOOLEAN,
             Wait(w, k, timed)
      PROVE  SettledWaitsHaveNoTimer'
  BY <1>1 DEF Wait, WaitParked, WaitRegister
<1>2. ASSUME NEW w \in Waits, Timeout(w) PROVE SettledWaitsHaveNoTimer'
  BY <1>2 DEF Timeout
<1>3. ASSUME NEW d \in Decisions, NEW k \in Keys, NEW tools \in SUBSET Tools,
             Resolve(d, k, tools)
      PROVE  SettledWaitsHaveNoTimer'
  BY <1>3 DEF Resolve, ResolvePark, ResolveDeliver, Make, TimersAfter, waitVars
<1>4. CASE Dispose
  BY <1>4 DEF Dispose, StatesAfterDispose, Registered
<1>5. CASE ResetSessionApprovals
  BY <1>5 DEF ResetSessionApprovals, waitVars
<1>6. CASE UNCHANGED vars
  BY <1>6 DEF vars, gateVars, waitVars
<1> QED
  BY <1>1, <1>2, <1>3, <1>4, <1>5, <1>6 DEF Next

\* The invariant is inductive: wait(), the timer callback, resolve(), dispose()
\* and resetSessionApprovals() keep it.
LEMMA NextInv == Inv /\ [Next]_vars => Inv'
<1> SUFFICES ASSUME Inv, [Next]_vars PROVE Inv'
  OBVIOUS
<1>1. TypeOK'
  BY NextTypeOK DEF Inv
<1>2. Bookkeeping' /\ OpenWaitsReachable' /\ NoLostDecision'
  BY NextBookkeeping, NextReachable, NextNoLost
<1>3. OneWaitPerDecision' /\ ClearedDecisionsAreDead' /\ SettledWaitsHaveNoTimer'
  BY NextOneWait, NextCleared, NextTimers
<1> QED
  BY <1>1, <1>2, <1>3 DEF Inv

\* The inductive invariant holds in every state of the gate.
THEOREM Invariance == Spec => []Inv
<1>1. QED
  BY InitInv, NextInv, PTL DEF Spec

-----------------------------------------------------------------------------
(***************************************************************************)
(* The properties of the gate                                              *)
(***************************************************************************)

\* Every variable of the gate stays in its type.
THEOREM TypeCorrect == Spec => []TypeOK
<1>1. Inv => TypeOK
  BY DEF Inv
<1> QED
  BY <1>1, Invariance, PTL

\* resolve() reaches every blocked caller whose key nobody else waited on.
THEOREM Reachable == Spec => []OpenWaitsReachable
<1>1. Inv => OpenWaitsReachable
  BY DEF Inv
<1> QED
  BY <1>1, Invariance, PTL

\* No decision is parked under the key of such a caller.
THEOREM NoLost == Spec => []NoLostDecision
<1>1. Inv => NoLostDecision
  BY DEF Inv
<1> QED
  BY <1>1, Invariance, PTL

\* One resolve() call settles at most one wait(), of its own key.
THEOREM AtMostOneWait == Spec => []OneWaitPerDecision
<1>1. Inv => OneWaitPerDecision
  BY DEF Inv
<1> QED
  BY <1>1, Invariance, PTL

\* A reset or a dispose forgets every decision made before it.
THEOREM ClearedDead == Spec => []ClearedDecisionsAreDead
<1>1. Inv => ClearedDecisionsAreDead
  BY DEF Inv
<1> QED
  BY <1>1, Invariance, PTL

\* Only the timer of a blocked caller is armed.
THEOREM NoLateTimer == Spec => []SettledWaitsHaveNoTimer
<1>1. Inv => SettledWaitsHaveNoTimer
  BY DEF Inv
<1> QED
  BY <1>1, Invariance, PTL

\* dispose() rejects every caller whose key nobody else waited on.
THEOREM DisposeReleases == Spec => DisposeReleasesWaits
<1>1. ASSUME Inv, [Next]_vars
      PROVE  [disposed' # disposed => \A w \in Waits : wState'[w] = "open" =>
                  wKey[w] \in overlapped]_vars
  <2>1. CASE Dispose
    BY <1>1, <2>1 DEF Inv, TypeOK, OpenWaitsReachable, Bookkeeping, Open,
       Dispose, StatesAfterDispose, Registered
  <2>2. CASE disposed' = disposed
    BY <2>2
  <2> QED
    BY <1>1, <2>1, <2>2
    DEF Next, vars, gateVars, Wait, WaitParked, WaitRegister, Timeout, Resolve,
        ResolvePark, ResolveDeliver, ResetSessionApprovals
<1> QED
  BY <1>1, Invariance, PTL DEF Spec, DisposeReleasesWaits

-----------------------------------------------------------------------------
(***************************************************************************)
(* The gate implements the mailbox                                         *)
(***************************************************************************)

\* A key has at most one live decision, the one parked under it.
LEMMA LiveFor ==
    ASSUME Inv, NEW k \in Keys
    PROVE  Box!For(k) = IF pending[k] = None THEN {} ELSE {pending[k]}
BY HitlAssumption DEF Inv, TypeOK, Bookkeeping, Parked, Box!For

\* The callers the mailbox keeps waiting are the open waits.
LEMMA WaitingAre ==
    ASSUME NEW k \in Keys
    PROVE  Box!Waiting(k) = {w \in Waits : wState[w] = "open" /\ wKey[w] = k}
BY DEF Box!Waiting, Status

LEMMA InitMailbox == Init => Box!Init
<1> SUFFICES ASSUME Init PROVE Box!Init
  OBVIOUS
<1>1. Parked = {}
  BY DEF Init, Parked
<1> QED
  BY <1>1 DEF Init, Box!Init, Status

\* Each method, and each timer callback, is one step of the mailbox.
LEMMA NextMailbox == Inv /\ [Next]_vars => [Box!Next]_(Box!mailbox)
<1> SUFFICES ASSUME Inv, [Next]_vars PROVE [Box!Next]_(Box!mailbox)
  OBVIOUS
<1> USE HitlAssumption DEF Inv, TypeOK
<1>1. ASSUME NEW w \in Waits, NEW k \in Keys, WaitParked(w, k)
      PROVE  Box!AskAnswered(w, k)
  <2>1. Box!For(k) = {pending[k]}
    BY <1>1, LiveFor DEF WaitParked
  <2>2. Parked' = Parked \ {pending[k]}
    BY <1>1 DEF WaitParked, Unparked, Parked, Bookkeeping
  <2> QED
    BY <1>1, <2>1, <2>2 DEF WaitParked, Box!AskAnswered, Box!Settle, Status
<1>2. ASSUME NEW w \in Waits, NEW k \in Keys, NEW timed \in BOOLEAN,
             WaitRegister(w, k, timed)
      PROVE  Box!AskWaits(w, k)
  <2>1. Box!For(k) = {}
    BY <1>2, LiveFor DEF WaitRegister
  <2>2. Parked' = Parked
    BY <1>2 DEF WaitRegister, Parked
  <2>3. overlapped' = IF Box!Waiting(k) = {} THEN overlapped
                      ELSE overlapped \cup {k}
    BY <1>2, WaitingAre DEF WaitRegister, Open
  <2> QED
    BY <1>2, <2>1, <2>2, <2>3 DEF WaitRegister, Box!AskWaits, Status
<1>3. ASSUME NEW w \in Waits, Timeout(w)
      PROVE  Box!Expire(w)
  <2>1. wState[w] = "open"
    BY <1>3 DEF Timeout, SettledWaitsHaveNoTimer, Open
  <2>2. Parked' = Parked
    BY <1>3 DEF Timeout, Parked
  <2> QED
    BY <1>3, <2>1, <2>2 DEF Timeout, Box!Expire, Box!Fail, Status
<1>4. ASSUME NEW d \in Decisions, NEW k \in Keys, NEW tools \in SUBSET Tools,
             ResolvePark(d, k, tools)
      PROVE  Box!DecideKept(d, k)
  <2>1. Box!Waiting(k) = {} \/ k \in overlapped
    BY <1>4, WaitingAre
    DEF ResolvePark, NobodyRegistered, OpenWaitsReachable, Open
  <2>2. Parked' = (Parked \ Box!For(k)) \cup {d}
    BY <1>4, LiveFor DEF ResolvePark, Parked, Bookkeeping
  <2> QED
    BY <1>4, <2>1, <2>2 DEF ResolvePark, Make, waitVars, Box!DecideKept, Status
<1>5. ASSUME NEW d \in Decisions, NEW k \in Keys, NEW tools \in SUBSET Tools,
             ResolveDeliver(d, k, tools)
      PROVE  Box!DecideAnswers(d, k)
  <2>1. gates[k] \in Box!Waiting(k)
    BY <1>5, WaitingAre DEF ResolveDeliver, OpenWaitsReachable, Open
  <2>2. Parked' = Parked
    BY <1>5 DEF ResolveDeliver, Parked
  <2> QED
    BY <1>5, <2>1, <2>2
    DEF ResolveDeliver, Make, Box!DecideAnswers, Box!Settle, Status
<1>6. ASSUME Dispose
      PROVE  Box!Close
  <2>1. \A w \in Registered : wState[w] = "open"
    BY DEF Registered, OpenWaitsReachable, Open
  <2>2. \A w \in Waits : wState[w] = "open" =>
            w \in Registered \/ wKey[w] \in overlapped
    BY DEF Registered, OpenWaitsReachable, Bookkeeping, Open
  <2>3. Parked' = {}
    BY <1>6 DEF Dispose, Parked
  <2>4. Registered \in SUBSET Waits
    BY DEF Registered
  <2>5. Box!Fail(Registered)
    BY <1>6 DEF Dispose, StatesAfterDispose, Box!Fail, Status
  <2>6. \A w \in Waits : Status(wState[w]) = "open" <=> wState[w] = "open"
    BY DEF Status
  <2>7. /\ \A w \in Registered : [v \in Waits |-> Status(wState[v])][w] = "open"
        /\ \A w \in Waits : [v \in Waits |-> Status(wState[v])][w] = "open" =>
               w \in Registered \/ wKey[w] \in overlapped
    BY <2>1, <2>2, <2>4, <2>6
  <2> QED
    BY <1>6, <2>3, <2>4, <2>5, <2>7 DEF Dispose, Box!Close
<1>7. ASSUME ResetSessionApprovals
      PROVE  Box!Forget
  <2>1. Parked' = {}
    BY <1>7 DEF ResetSessionApprovals, PendingAfterReset, Parked
  <2> QED
    BY <1>7, <2>1 DEF ResetSessionApprovals, waitVars, Box!Forget, Status
<1>8. CASE UNCHANGED vars
  BY <1>8 DEF vars, gateVars, waitVars, Box!mailbox, Parked, Status
<1> QED
  BY <1>1, <1>2, <1>3, <1>4, <1>5, <1>6, <1>7, <1>8
  DEF Next, Wait, Resolve, Box!Next

\* The gate, for any number of callers and decisions, does nothing a mailbox
\* that delivers each decision once does not do.
THEOREM Implements == Spec => ImplementsMailbox
<1> QED
  BY InitMailbox, NextMailbox, Invariance, PTL DEF Spec, ImplementsMailbox, Box!Spec
=============================================================================

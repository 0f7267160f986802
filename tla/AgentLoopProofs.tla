-------------------------- MODULE AgentLoopProofs --------------------------
(***************************************************************************)
(* The safety properties of AgentLoop, proved for every number of turns,   *)
(* rounds, attempts, waits and decisions, and every list of tools.         *)
(***************************************************************************)
EXTENDS AgentLoop, FiniteInduction, SequenceTheorems

(***************************************************************************)
(* The inductive invariant                                                 *)
(***************************************************************************)
\* A round that is begun may be followed by another; what each place of the
\* generator relies on.
Control ==
    /\ pc \notin {"idle", "round"} => round < MaxRounds
    /\ pc = "stream" => attempt \in 1..MaxAttempts
    /\ pc = "waiting" => myWait \in Waits
    /\ pc \in {"paused", "waiting", "decided", "tools"} => pendingDecision = None
    /\ pc = "tools" => call \in 1..(Len(response.calls) + 1)

\* In the messages h, every result follows its call or a summary, and the calls
\* of every assistant message, but for a and those of c, are answered.
Sound(h, c, a) ==
    \A i \in 1..Len(h) :
        /\ h[i].role = "assistant" /\ h[i].id \notin c /\ i # a =>
               BatchAnswered(h, i)
        /\ h[i].role = "tool" => ResultFollows(h, i)

\* Message a is the response r, its first n calls are answered, and so are all
\* calls before.
InProgress(h, c, r, a, n) ==
    /\ a > 0 /\ a + n = Len(h)
    /\ h[a] = Assistant(r)
    /\ \A k \in 1..n : h[a + k] = Result(r, k)
    /\ Sound(h, c, a)

\* What a turn may start from: the conversation the application keeps, and the
\* pauses on disk.
Kept ==
    /\ Sound(caller, cut, 0)
    /\ \A q \in Rounds : files[q] # None /\ files[q].waiting # None =>
           Sound(files[q].messages, cut \cup {files[q].waiting.id}, 0)

Ongoing ==
    /\ pc \in {"round", "stream"} => Sound(history, cut, 0)
    /\ pc \in {"response", "paused", "waiting", "decided"} =>
           InProgress(history, cut, response, Len(history), 0)
    /\ pc = "tools" =>
           InProgress(history, cut, response, Len(history) - (call - 1), call - 1)

Conversation == Kept /\ Ongoing

\* The decisions that batches ran under.
Spent == {a[1] : a \in authorised}

\* A decision is in one place: not made, passed to a turn, parked in the gate,
\* the answer of a wait, or that of the batch about to run; and in none once a
\* batch ran under it.
OnePlace ==
    /\ \A d \in Decisions : dKind[d] = None =>
           /\ dKey[d] = None /\ d \notin Spent
           /\ pendingDecision # d /\ decision # d
    /\ pendingDecision # None => dKey[pendingDecision] = None
    /\ \A k \in Rounds : pending[k] # None => dKey[pending[k]] = k
    /\ \A w \in Waits : wDecision[w] # None => dKey[wDecision[w]] # None
    /\ \A w \in Waits, k \in Rounds :
           wDecision[w] = pending[k] => pending[k] = None
    /\ \A w \in Waits : wState[w] = "unused" => wDecision[w] = None
    /\ pc = "decided" /\ decision # None =>
           \A k \in Rounds : pending[k] # decision
    /\ \A d \in Spent :
           /\ pendingDecision # d
           /\ pc = "decided" => decision # d
           /\ pc = "waiting" => wDecision[myWait] # d
           /\ \A k \in Rounds : pending[k] # d

\* The file load() reads.
Top(r) == files[r] # None /\ \A q \in Rounds : files[q] # None => q <= r

\* If that file waits for a human, then the turn that runs is in its round, and
\* the last one did not end with a done event.
Restored ==
    /\ \A r \in Rounds : Top(r) /\ files[r].waiting # None =>
           IF pc = "idle" THEN ~finished ELSE round = r
    /\ finished /\ pc # "idle" => ~restored

IInv == /\ TypeOK /\ Control /\ Conversation /\ OnePlace
        /\ OneBatchPerDecision /\ PauseIsCheckpointed /\ Restored

(***************************************************************************)
(* The steps, by what they do to the turn                                  *)
(***************************************************************************)
\* The turn ends without a done event, or with one.
GivesUp == /\ pc # "idle" /\ End(caller, FALSE)
          /\ UNCHANGED <<files, cut, humanVars, dKey>> /\ btw' \in {0, btw}
          /\ \/ UNCHANGED gateVars
             \/ /\ pending' = [k \in Rounds |-> None]
                /\ wDecision' = [w \in Waits |-> None]
                /\ Gate!TypeOK'
Completes == /\ FinalDone \/ Rejected \/ Handoff
             /\ pc # "idle"
             /\ \E m \in Seq(Messages), left \in SUBSET Nat : Done(m, left)

\* A call, or a correction, is answered and the next round begins.
GoesOn == FinalInvalid \/ BatchDone

\* The messages that are added are messages.
LEMMA MessageTypes ==
    ASSUME TypeOK
    PROVE  /\ Note \in Messages /\ Summary \in Messages
           /\ \A n \in Nat : User(n) \in Messages
           /\ response.id \in Nat /\ response.calls \in Seq(Tools)
           /\ Len(response.calls) \in Nat
           /\ DOMAIN response.calls = 1..Len(response.calls)
           /\ response.calls \in Batches => Assistant(response) \in Messages
           /\ \A i \in Nat : Result(response, i) \in Messages
<1>1. response \in [id : Nat, calls : Batches \cup {<<>>}]
  BY DEF TypeOK
<1>2. response.id \in Nat /\ response.calls \in Batches \cup {<<>>}
  BY <1>1
<1>3. <<>> \in Seq(Tools)
  BY EmptySeq
<1>4. response.calls \in Seq(Tools)
  BY <1>2, <1>3, LoopAssumption
<1>5. Len(response.calls) \in Nat
      /\ DOMAIN response.calls = 1..Len(response.calls)
  BY <1>4, LenProperties
<1> QED
  BY <1>2, <1>4, <1>5 DEF Note, User, Summary, Assistant, Result, Messages

\* Draining the queue adds notes to the history.
LEMMA NotesDrained ==
    ASSUME TypeOK
    PROVE  /\ Drained \in Seq(Messages) /\ Len(history) <= Len(Drained)
           /\ \A i \in 1..Len(history) : Drained[i] = history[i]
           /\ \A i \in (Len(history) + 1)..Len(Drained) : Drained[i] = Note
<1> DEFINE notes == [i \in 1..btw |-> Note]
<1>1. btw \in Nat /\ Note \in Messages
  BY MessageTypes DEF TypeOK
<1>2. history \in Seq(Messages) /\ Len(history) \in Nat
  BY LenProperties DEF TypeOK
<1>3. notes \in Seq(Messages) /\ Len(notes) = btw
      /\ \A i \in 1..btw : notes[i] = Note
  BY <1>1, IsASeq
<1>4. Drained = history \o notes
  BY DEF Drained
<1> HIDE DEF notes
<1>5. /\ Drained \in Seq(Messages) /\ Len(Drained) = Len(history) + btw
      /\ \A i \in 1..(Len(history) + btw) :
             Drained[i] = IF i <= Len(history) THEN history[i]
                          ELSE notes[i - Len(history)]
  BY <1>2, <1>3, <1>4, ConcatProperties
<1>6. ASSUME NEW i \in (Len(history) + 1)..Len(Drained)
      PROVE  Drained[i] = Note
  <2>1. i - Len(history) \in 1..btw /\ i \in 1..(Len(history) + btw)
        /\ ~(i <= Len(history))
    BY <1>1, <1>2, <1>5
  <2> QED
    BY <1>3, <1>5, <2>1
<1> QED
  BY <1>1, <1>2, <1>5, <1>6

\* A compacted history is a summary and an end of the history.
LEMMA CompactedTypes ==
    ASSUME TypeOK, NEW h \in Seq(Messages), NEW g \in Compacted(h)
    PROVE  \E k \in 1..Len(h) :
              /\ g \in Seq(Messages) /\ Len(g) = Len(h) - k + 2
              /\ g[1] = Summary
              /\ \A i \in 2..Len(g) : g[i] = h[i + k - 2]
<1>1. PICK k \in 1..Len(h) : g = <<Summary>> \o SubSeq(h, k, Len(h))
  BY DEF Compacted
<1> DEFINE f == <<Summary>>
           t == SubSeq(h, k, Len(h))
<1>2. Len(h) \in Nat
  BY LenProperties
<1>3. f \in Seq(Messages) /\ Len(f) = 1 /\ f[1] = Summary
  <2>1. Summary \in Messages
    BY MessageTypes
  <2> QED
    BY <2>1
<1>4. /\ t \in Seq(Messages) /\ Len(t) = Len(h) - k + 1
      /\ \A i \in 1..(Len(h) - k + 1) : t[i] = h[k + i - 1]
  BY <1>2, SubSeqProperties
<1> HIDE DEF f, t
<1>5. /\ g \in Seq(Messages) /\ Len(g) = 1 + Len(t)
      /\ \A i \in 1..(1 + Len(t)) : g[i] = IF i <= 1 THEN f[i] ELSE t[i - 1]
  BY <1>1, <1>3, <1>4, ConcatProperties DEF f, t
<1>6. ASSUME NEW i \in 2..Len(g) PROVE g[i] = h[i + k - 2]
  <2>1. i \in 1..(1 + Len(t)) /\ ~(i <= 1) /\ i - 1 \in 1..(Len(h) - k + 1)
    BY <1>2, <1>4, <1>5
  <2>2. g[i] = t[i - 1] /\ t[i - 1] = h[k + (i - 1) - 1]
    BY <1>4, <1>5, <2>1
  <2>3. k + (i - 1) - 1 = i + k - 2
    OBVIOUS
  <2> QED
    BY <2>2, <2>3
<1>7. g[1] = Summary /\ Len(g) = Len(h) - k + 2
  <2>1. Len(t) \in Nat /\ 1 \in 1..(1 + Len(t))
    BY <1>2, <1>4
  <2>2. g[1] = f[1]
    BY <1>5, <2>1
  <2> QED
    BY <1>2, <1>3, <1>4, <1>5, <2>2
<1> QED
  BY <1>5, <1>6, <1>7

\* Every step is one of these.
LEMMA Steps ==
    ASSUME TypeOK, Control, [Next]_vars
    PROVE  \/ GivesUp \/ Completes \/ GoesOn
           \/ StartTurn
           \/ \E d \in Decisions, kind \in {"approve", "reject"} :
                  ResumeTurn(d, kind)
           \/ RoundBegins \/ StreamToken \/ StreamRetry
           \/ \E calls \in Batches : StreamDone(calls)
           \/ Decide \/ Pause \/ DecisionArrives \/ BatchBegins
           \/ \E w \in Waits : AwaitDecision(w)
           \/ AnswerWithoutRun \/ Invoke \/ AnswerAfterRun
           \/ \E d \in Decisions, event \in shown, kind \in Kinds :
                  HumanDecides(d, event, kind)
           \/ TimerFires \/ Enqueue
           \/ UNCHANGED vars
<1>1. ASSUME Fails, pc # "idle", btw' \in {0, btw} PROVE GivesUp
  BY <1>1 DEF Fails, GivesUp, gateVars
<1>2. CASE RoundAborted \/ RoundHalted \/ RoundsExceeded \/ StreamFails
           \/ FinalHalted \/ WaitFails \/ HookFails \/ Abandon
  <2>1. Fails /\ pc # "idle" /\ btw' \in {0, btw}
    BY <1>2 DEF RoundAborted, RoundHalted, RoundsExceeded, StreamFails,
                FinalHalted, WaitFails, HookFails, Abandon
  <2> QED
    BY <1>1, <2>1
<1>3. CASE Crash
  <2>1. /\ gates' = [k \in Rounds |-> None] /\ pending' = [k \in Rounds |-> None]
        /\ sessionApproved' = {} /\ timer' = {}
        /\ wState' = [w \in Waits |-> "unused"]
        /\ wKey' = [w \in Waits |-> None]
        /\ wDecision' = [w \in Waits |-> None]
        /\ UNCHANGED <<disposed, dKey, overlapped, cleared>>
    BY <1>3 DEF Crash
  <2>2. Gate!TypeOK'
    BY <2>1 DEF TypeOK, Gate!TypeOK, Gate!WaitStates
  <2> QED
    BY <1>3, <2>1, <2>2 DEF Crash, GivesUp
<1>4. CASE FinalDone \/ Rejected \/ Handoff
  <2>1. history \in Seq(Messages) /\ Note \in Messages
        /\ (pc = "tools" => Result(response, call) \in Messages)
    BY MessageTypes DEF TypeOK
  <2>2. /\ Append(history, Note) \in Seq(Messages)
        /\ pc = "tools" => Append(history, Result(response, call)) \in Seq(Messages)
    BY <2>1, AppendProperties
  <2>3. response.id \in Nat
    BY MessageTypes
  <2>4. pc # "idle"
        /\ \E m \in Seq(Messages), left \in SUBSET Nat : Done(m, left)
    <3>1. CASE FinalDone
      <4>1. Done(history, {}) /\ pc # "idle"
        BY <3>1 DEF FinalDone
      <4> QED
        BY <2>1, <4>1
    <3>2. CASE Rejected
      <4>1. Done(Append(history, Note), {response.id}) /\ pc # "idle"
        BY <3>2 DEF Rejected
      <4>2. {response.id} \in SUBSET Nat
        BY <2>3
      <4> QED
        BY <2>2, <4>1, <4>2
    <3>3. CASE Handoff
      <4> DEFINE left == IF call < Len(response.calls) THEN {response.id} ELSE {}
      <4>1. Done(Append(history, Result(response, call)), left) /\ pc = "tools"
        BY <3>3 DEF Handoff, InTools
      <4>2. left \in SUBSET Nat
        BY <2>3
      <4> HIDE DEF left
      <4> QED
        BY <2>2, <4>1, <4>2
    <3> QED
      BY <1>4, <3>1, <3>2, <3>3
  <2> QED
    BY <1>4, <2>4 DEF Completes
<1> QED
  BY <1>2, <1>3, <1>4 DEF Next, LoopStep, Environment, GoesOn

(***************************************************************************)
(* Types                                                                   *)
(***************************************************************************)
\* The steps that call the gate keep its types.
LEMMA GateTypes ==
    ASSUME TypeOK,
           \/ \E w \in Waits : Gate!Wait(w, round, HasTimeout)
           \/ \E w \in Waits : Gate!Timeout(w)
           \/ \E d \in Decisions, k \in Rounds, tools \in {{}, Sensitive} :
                  Gate!Resolve(d, k, tools)
           \/ UNCHANGED gateVars
    PROVE  Gate!TypeOK'
<1> USE LoopAssumption DEF TypeOK, Gate!TypeOK, Gate!WaitStates
<1>1. ASSUME NEW w \in Waits, Gate!WaitParked(w, round) PROVE Gate!TypeOK'
  BY <1>1 DEF Gate!WaitParked, Gate!Unparked
<1>2. ASSUME NEW w \in Waits, Gate!WaitRegister(w, round, HasTimeout)
      PROVE  Gate!TypeOK'
  BY <1>2 DEF Gate!WaitRegister
<1>3. ASSUME NEW w \in Waits, Gate!Timeout(w) PROVE Gate!TypeOK'
  BY <1>3 DEF Gate!Timeout, Gate!TimedOutGates
<1>4. ASSUME NEW d \in Decisions, NEW k \in Rounds, NEW tools \in {{}, Sensitive},
             Gate!ResolvePark(d, k, tools)
      PROVE  Gate!TypeOK'
  BY <1>4 DEF Gate!ResolvePark, Gate!Make, Gate!waitVars
<1>5. ASSUME NEW d \in Decisions, NEW k \in Rounds, NEW tools \in {{}, Sensitive},
             Gate!ResolveDeliver(d, k, tools)
      PROVE  Gate!TypeOK'
  BY <1>5 DEF Gate!ResolveDeliver, Gate!Make, Gate!TimersAfter
<1>6. CASE UNCHANGED gateVars
  BY <1>6 DEF gateVars
<1> QED
  BY <1>1, <1>2, <1>3, <1>4, <1>5, <1>6 DEF Gate!Wait, Gate!Resolve

\* A file that is written is a checkpoint.
LEMMA FileTypes ==
    ASSUME TypeOK, NEW r \in Rounds, NEW m \in Seq(Messages),
           NEW e \in Events \cup {None}, NEW fs,
           fs = [files EXCEPT ![r] = [messages |-> m, waiting |-> e]]
    PROVE  /\ fs \in [Rounds -> Checkpoints \cup {None}]
           /\ fs[r] # None /\ fs[r].waiting = e /\ fs[r].messages = m
           /\ \A q \in Rounds \ {r} : fs[q] = files[q]
<1> DEFINE new == [messages |-> m, waiting |-> e]
<1>1. new \in Checkpoints /\ new # None /\ new.waiting = e /\ new.messages = m
  BY LoopAssumption DEF Checkpoints
<1> HIDE DEF new
<1>2. fs = [files EXCEPT ![r] = new]
  BY DEF new
<1> QED
  BY <1>1, <1>2 DEF TypeOK

\* If a file waits for a human, the highest one does or there is none above it.
LEMMA LatestIsTop ==
    ASSUME TypeOK
    PROVE  /\ Latest # None => Latest \in Rounds /\ Top(Latest)
           /\ \A r \in Rounds : Top(r) => Latest = r
<1> DEFINE present == {r \in Rounds : files[r] # None}
           Highest(r) == r \in present /\ \A q \in present : q <= r
           below == {n \in Nat : \E r \in present : n = MaxRounds - r}
<1>1. present \subseteq 0..MaxRounds /\ MaxRounds \in Nat
      /\ None \notin Rounds
  BY LoopAssumption DEF Rounds
<1>2. ASSUME present # {} PROVE \E r : Highest(r)
  <2>1. below # {} /\ below \in SUBSET Nat
    <3> HIDE DEF present
    <3>1. PICK r \in present : TRUE
      BY <1>2
    <3>2. MaxRounds - r \in Nat
      BY <1>1
    <3> QED
      BY <3>1, <3>2
  <2>2. PICK m \in below : \A n \in below : m <= n
    <3> HIDE DEF below
    <3> QED
      BY <2>1, SmallestMember
  <2> HIDE DEF present
  <2>3. PICK r \in present : m = MaxRounds - r
    BY <2>2
  <2>4. ASSUME NEW q \in present PROVE q <= r
    <3>1. MaxRounds - q \in below
      BY <1>1, <2>4
    <3> QED
      BY <1>1, <2>2, <2>3, <2>4, <3>1
  <2> QED
    BY <2>4
<1>3. Latest = IF present = {} THEN None
               ELSE CHOOSE r \in present : \A q \in present : q <= r
  BY DEF Latest
<1>4. ASSUME present # {} PROVE Highest(Latest)
  <2> HIDE DEF present
  <2> QED
    BY <1>2, <1>3, <1>4
<1>5. Latest # None => Highest(Latest)
  BY <1>3, <1>4
<1>6. ASSUME NEW r \in Rounds, Top(r) PROVE Latest = r
  <2>1. r \in present /\ \A q \in present : q <= r
    BY <1>6 DEF Top
  <2>2. Highest(Latest)
    BY <1>4, <2>1
  <2>3. Latest \in Nat /\ r \in Nat /\ Latest <= r /\ r <= Latest
    <3> HIDE DEF present
    <3> QED
      BY <1>1, <2>1, <2>2
  <2> QED
    BY <2>3
<1> QED
  BY <1>5, <1>6 DEF Top

\* That file is a checkpoint of a round.
LEMMA LatestIsFile ==
    ASSUME TypeOK, LatestWaiting
    PROVE  /\ Latest \in Rounds /\ files[Latest] \in Checkpoints /\ Top(Latest)
           /\ files[Latest].waiting # None
<1>1. Latest # None /\ files[Latest].waiting # None
  BY DEF LatestWaiting
<1>2. Latest \in Rounds /\ Top(Latest)
  BY <1>1, LatestIsTop
<1>3. files[Latest] # None /\ files[Latest] \in Checkpoints \cup {None}
  BY <1>2 DEF Top, TypeOK
<1> QED
  BY <1>1, <1>2, <1>3

\* What a step leaves alone stays in its type.
LEMMA TypesStay ==
    ASSUME TypeOK
    PROVE  /\ UNCHANGED turnVars =>
                  /\ turn' \in 0..MaxTurns /\ caller' \in Seq(Messages)
                  /\ finished' \in BOOLEAN /\ restored' \in BOOLEAN
                  /\ cut' \subseteq Nat /\ texts' \in 0..MaxBtw
           /\ UNCHANGED humanVars =>
                  /\ shown' \subseteq Events
                  /\ dKind' \in [Decisions -> Kinds \cup {None}]
                  /\ dEvent' \in [Decisions -> Events \cup {None}]
           /\ UNCHANGED decisionVars =>
                  /\ pendingDecision' \in Decisions \cup {None}
                  /\ decision' \in Decisions \cup {None}
                  /\ myWait' \in Waits \cup {None}
           /\ UNCHANGED replyVars =>
                  /\ responses' \in Nat
                  /\ response' \in [id : Nat, calls : Batches \cup {<<>>}]
           /\ UNCHANGED streamVars =>
                  attempt' \in 0..MaxAttempts /\ emitted' \subseteq 1..MaxAttempts
           /\ UNCHANGED toolVars => call' \in Nat /\ tries' \in 0..MaxAttempts
BY DEF TypeOK, turnVars, humanVars, decisionVars, replyVars, streamVars, toolVars

\* Every step keeps every variable in its type.
LEMMA TypeKept ==
    ASSUME TypeOK, Control, [Next]_vars
    PROVE  TypeOK'
<1> USE LoopAssumption
<1>0. Note \in Messages /\ (\A n \in Nat : User(n) \in Messages)
      /\ \A i \in Nat : Result(response, i) \in Messages
  BY MessageTypes
<1>1. ASSUME UNCHANGED gateVars PROVE Gate!TypeOK'
  BY <1>1, GateTypes
<1>2. CASE GivesUp
  <2>1. Gate!TypeOK'
    BY <1>1, <1>2 DEF GivesUp
  <2>2. /\ End(caller, FALSE) /\ UNCHANGED <<files, cut, humanVars>>
        /\ btw' \in {0, btw}
    BY <1>2 DEF GivesUp
  <2>3. /\ history' \in Seq(Messages) /\ caller' \in Seq(Messages)
        /\ pc' \in Pcs /\ finished' \in BOOLEAN
    BY <2>2, EmptySeq DEF End, TypeOK, Pcs
  <2>4. /\ round' \in Rounds
        /\ response' \in [id : Nat, calls : Batches \cup {<<>>}]
    BY <2>2 DEF End, NoResponse, Rounds
  <2>6. restored' \in BOOLEAN /\ cut' \subseteq Nat
    BY <2>2 DEF End, TypeOK
  <2>5. btw' \in 0..texts' /\ texts' \in 0..MaxBtw /\ turn' \in 0..MaxTurns
    BY <2>2 DEF End, TypeOK
  <2> QED
    BY <2>1, <2>2, <2>3, <2>4, <2>5, <2>6 DEF End, humanVars, TypeOK
<1>3. CASE Completes
  <2>1. PICK m \in Seq(Messages), left \in SUBSET Nat : Done(m, left)
    BY <1>3 DEF Completes
  <2>2. /\ files' = [files EXCEPT ![round] = [messages |-> m, waiting |-> None]]
        /\ UNCHANGED <<btw, humanVars, gateVars>> /\ End(m, TRUE)
        /\ cut' = cut \cup left
    BY <2>1 DEF Done, Save
  <2>3. files' \in [Rounds -> Checkpoints \cup {None}]
    BY <2>2, FileTypes DEF TypeOK
  <2>4. Gate!TypeOK'
    BY <1>1, <2>2
  <2>5. restored' \in BOOLEAN /\ finished' \in BOOLEAN /\ cut' \subseteq Nat
    BY <2>2 DEF End, TypeOK
  <2> QED
    BY <2>2, <2>3, <2>4, <2>5, EmptySeq
       DEF End, humanVars, TypeOK, Pcs, NoResponse, Rounds
<1>4. CASE GoesOn
  <2>1. history' \in Seq(Messages)
    <3>1. CASE FinalInvalid
      BY <1>0, <3>1, AppendProperties DEF FinalInvalid, TypeOK
    <3>2. CASE BatchDone
      BY <3>2 DEF BatchDone, TypeOK
    <3> QED
      BY <1>4, <3>1, <3>2 DEF GoesOn
  <2>2. NextRound /\ UNCHANGED authorised /\ pc \notin {"idle", "round"}
    BY <1>4 DEF GoesOn, FinalInvalid, BatchDone
  <2>3. round' = round + 1 /\ round' \in Rounds
    BY <2>2 DEF NextRound, TypeOK, Control, Rounds
  <2>4. files' \in [Rounds -> Checkpoints \cup {None}]
    BY <2>1, <2>2, <2>3, FileTypes DEF NextRound, Save
  <2>5. Gate!TypeOK'
    BY <1>1, <2>2 DEF NextRound
  <2>6. /\ call' \in Nat /\ tries' \in 0..MaxAttempts
        /\ pendingDecision' \in Decisions \cup {None}
        /\ decision' \in Decisions \cup {None}
        /\ myWait' \in Waits \cup {None}
    BY <1>4 DEF GoesOn, FinalInvalid, BatchDone, decisionVars, toolVars, TypeOK
  <2> QED
    BY <2>1, <2>2, <2>3, <2>4, <2>5, <2>6
       DEF NextRound, StreamOver, humanVars, turnVars, TypeOK, Pcs, NoResponse
<1>5. ASSUME NEW resumed \in Decisions \cup {None}, Start(resumed),
             dKind' \in [Decisions -> Kinds \cup {None}],
             dEvent' \in [Decisions -> Events \cup {None}]
      PROVE  TypeOK'
  <2>1. turn' \in 0..MaxTurns /\ turn' = turn + 1
    BY <1>5 DEF Start, TypeOK
  <2>2. history' \in Seq(Messages) /\ round' \in Rounds
    <3>1. CASE LatestWaiting
      <4>1. Latest \in Rounds /\ files[Latest] \in Checkpoints
        BY <3>1, LatestIsFile
      <4> QED
        BY <1>5, <3>1, <4>1 DEF Start, Checkpoints
    <3>2. CASE ~LatestWaiting
      <4>1. Append(caller, User(turn')) \in Seq(Messages)
        BY <1>0, <2>1, AppendProperties DEF TypeOK
      <4> QED
        BY <1>5, <3>2, <4>1 DEF Start, Rounds
    <3> QED
      BY <3>1, <3>2
  <2>3. restored' \in BOOLEAN /\ cut' \subseteq Nat
    <3>1. LatestWaiting => files[Latest].waiting.id \in Nat
      BY LatestIsFile DEF Checkpoints, Events
    <3>2. restored' \in BOOLEAN
      BY <1>5 DEF Start, LatestWaiting
    <3> QED
      BY <1>5, <3>1, <3>2 DEF Start, TypeOK
  <2>4. Gate!TypeOK'
    BY <1>1, <1>5 DEF Start
  <2> QED
    BY <1>5, <2>1, <2>2, <2>3, <2>4
       DEF Start, TypeOK, Pcs, replyVars, streamVars, toolVars
<1>6. CASE StartTurn
  BY <1>5, <1>6 DEF StartTurn, TypeOK
<1>7. ASSUME NEW d \in Decisions, NEW kind \in {"approve", "reject"},
             ResumeTurn(d, kind)
      PROVE  TypeOK'
  <2>1. files[Latest].waiting \in Events \cup {None}
    BY <1>7, LatestIsFile DEF ResumeTurn, Checkpoints
  <2>2. dKind' \in [Decisions -> Kinds \cup {None}]
        /\ dEvent' \in [Decisions -> Events \cup {None}]
    BY <1>7, <2>1 DEF ResumeTurn, TypeOK, Kinds
  <2>3. Start(d)
    BY <1>7 DEF ResumeTurn
  <2> QED
    BY <1>5, <2>2, <2>3
<1>8. CASE RoundBegins
  <2>1. history' \in Seq(Messages)
    BY <1>8, NotesDrained, CompactedTypes DEF RoundBegins
  <2>2. Gate!TypeOK'
    BY <1>1, <1>8 DEF RoundBegins
  <2>3. attempt' \in 0..MaxAttempts
    BY <1>8 DEF RoundBegins
  <2> QED
    BY <1>8, <2>1, <2>2, <2>3
       DEF RoundBegins, TypeOK, Pcs, replyVars, decisionVars, toolVars,
           humanVars, turnVars
<1>9. CASE StreamToken \/ StreamRetry
  <2>1. Gate!TypeOK'
    BY <1>1, <1>9 DEF StreamToken, StreamRetry
  <2>2. attempt' \in 0..MaxAttempts /\ emitted' \subseteq 1..MaxAttempts
    <3>1. attempt \in 1..MaxAttempts /\ emitted \subseteq 1..MaxAttempts
      BY <1>9 DEF StreamToken, StreamRetry, Control, TypeOK
    <3>2. CASE StreamToken
      BY <3>1, <3>2 DEF StreamToken
    <3>3. CASE StreamRetry
      <4>1. attempt' = attempt + 1 /\ attempt < MaxAttempts /\ emitted' = emitted
        BY <3>3 DEF StreamRetry, MayRetry
      <4> QED
        BY <3>1, <4>1
    <3> QED
      BY <1>9, <3>2, <3>3
  <2> QED
    BY <1>9, <2>1, <2>2
       DEF StreamToken, StreamRetry, TypeOK, replyVars, decisionVars, toolVars,
           humanVars, turnVars
<1>10. ASSUME NEW calls \in Batches, StreamDone(calls)
       PROVE  TypeOK'
  <2>1. responses' \in Nat /\ response' \in [id : Nat, calls : Batches \cup {<<>>}]
    BY <1>10 DEF StreamDone, TypeOK
  <2>2. Assistant(response') \in Messages
    BY <1>10, <2>1 DEF StreamDone, Assistant, Messages
  <2>3. history' \in Seq(Messages)
    BY <1>10, <2>2, AppendProperties DEF StreamDone, TypeOK
  <2>4. Gate!TypeOK'
    BY <1>1, <1>10 DEF StreamDone
  <2> QED
    BY <1>10, <2>1, <2>3, <2>4
       DEF StreamDone, TypeOK, Pcs, decisionVars, streamVars, toolVars,
           humanVars, turnVars
<1>11. CASE Decide
  <2>1. Gate!TypeOK'
    BY <1>1, <1>11 DEF Decide
  <2> QED
    BY <1>11, <2>1
       DEF Decide, DecisionAfterUse, StreamOver, TypeOK, Pcs, replyVars, toolVars,
           humanVars, turnVars
<1>12. CASE Pause
  <2>1. Event \in Events
    BY MessageTypes DEF Event, Events, TypeOK
  <2>2. files' \in [Rounds -> Checkpoints \cup {None}]
    BY <1>12, <2>1, FileTypes DEF Pause, PausedFiles, TypeOK
  <2>3. Gate!TypeOK'
    BY <1>1, <1>12 DEF Pause
  <2> QED
    BY <1>12, <2>1, <2>2, <2>3
       DEF Pause, StreamOver, TypeOK, Pcs, replyVars, decisionVars, toolVars,
           turnVars
<1>13. ASSUME NEW w \in Waits, AwaitDecision(w)
       PROVE  TypeOK'
  <2>1. Gate!TypeOK'
    BY <1>13, GateTypes DEF AwaitDecision
  <2> QED
    BY <1>13, <2>1
       DEF AwaitDecision, TypeOK, Pcs, replyVars, streamVars, toolVars,
           humanVars, turnVars
<1>14. CASE DecisionArrives
  <2>1. Gate!TypeOK'
    BY <1>1, <1>14 DEF DecisionArrives
  <2>2. decision' \in Decisions \cup {None}
    BY <1>14 DEF DecisionArrives, Control, TypeOK, Gate!TypeOK
  <2> QED
    BY <1>14, <2>1, <2>2
       DEF DecisionArrives, TypeOK, Pcs, replyVars, streamVars, toolVars,
           humanVars, turnVars
<1>15. CASE BatchBegins
  <2>1. Gate!TypeOK'
    BY <1>1, <1>15 DEF BatchBegins
  <2>2. authorised' \subseteq Decisions \X Nat
    <3>1. decision # None => <<decision, response.id>> \in Decisions \X Nat
      BY MessageTypes DEF TypeOK
    <3> QED
      BY <1>15, <3>1 DEF BatchBegins, TypeOK
  <2>3. /\ UNCHANGED <<turnVars, humanVars, decisionVars, replyVars, streamVars>>
        /\ UNCHANGED <<round, history, files, btw, texts>>
        /\ pc' = "tools" /\ call' = 1 /\ tries' = 0
    BY <1>15 DEF BatchBegins, turnVars
  <2>4. /\ round' \in Rounds /\ history' \in Seq(Messages)
        /\ files' \in [Rounds -> Checkpoints \cup {None}]
        /\ btw' \in 0..texts' /\ tries' \in 0..MaxAttempts
    BY <2>3 DEF TypeOK
  <2>5. pc' \in Pcs /\ call' \in Nat
    BY <2>3 DEF Pcs
  <2> QED
    BY <2>1, <2>2, <2>3, <2>4, <2>5, TypesStay DEF TypeOK
<1>16. CASE AnswerWithoutRun \/ AnswerAfterRun
  <2>1. Answered
    BY <1>16 DEF AnswerWithoutRun, AnswerAfterRun
  <2>2. history' \in Seq(Messages) /\ call' \in Nat /\ tries' = 0
    BY <1>0, <2>1, AppendProperties DEF Answered, AnsweredHistory, TypeOK
  <2>3. Gate!TypeOK'
    BY <1>1, <2>1 DEF Answered
  <2>4. /\ UNCHANGED <<turnVars, humanVars, decisionVars, replyVars, streamVars>>
        /\ UNCHANGED <<pc, round, files, btw, authorised, texts>>
    BY <2>1 DEF Answered, turnVars
  <2>5. /\ pc' \in Pcs /\ round' \in Rounds
        /\ files' \in [Rounds -> Checkpoints \cup {None}]
        /\ authorised' \subseteq Decisions \X Nat
        /\ btw' \in 0..texts' /\ tries' \in 0..MaxAttempts
    BY <2>2, <2>4 DEF TypeOK
  <2> QED
    BY <2>2, <2>3, <2>4, <2>5, TypesStay DEF TypeOK
<1>17. CASE Invoke
  <2>1. Gate!TypeOK'
    BY <1>1, <1>17 DEF Invoke
  <2>2. tries' \in 0..MaxAttempts
    <3>1. tries \in 0..MaxAttempts /\ MaxAttempts \in Nat
      BY DEF TypeOK
    <3>2. tries' = tries + 1 /\ tries < MaxAttempts
      BY <1>17 DEF Invoke, MayInvoke
    <3> QED
      BY <3>1, <3>2
  <2> QED
    BY <1>17, <2>1, <2>2
       DEF Invoke, TypeOK, replyVars, decisionVars, streamVars, humanVars,
           turnVars
<1>18. ASSUME NEW d \in Decisions, NEW event \in shown, NEW kind \in Kinds,
              HumanDecides(d, event, kind)
       PROVE  TypeOK'
  <2>1. event \in Events /\ event.key \in Rounds
    BY DEF TypeOK, Events
  <2>2. Gate!TypeOK'
    <3>1. \E tools \in {{}, Sensitive} : Gate!Resolve(d, event.key, tools)
      BY <1>18 DEF HumanDecides
    <3> QED
      BY <2>1, <3>1, GateTypes
  <2>3. dKind' \in [Decisions -> Kinds \cup {None}]
        /\ dEvent' \in [Decisions -> Events \cup {None}]
    BY <1>18, <2>1 DEF HumanDecides, TypeOK
  <2>4. /\ UNCHANGED <<turnVars, decisionVars, replyVars, streamVars, toolVars>>
        /\ UNCHANGED <<pc, round, history, files, btw, authorised, texts, shown>>
    BY <1>18 DEF HumanDecides, turnVars
  <2>5. /\ pc' \in Pcs /\ round' \in Rounds /\ history' \in Seq(Messages)
        /\ files' \in [Rounds -> Checkpoints \cup {None}]
        /\ authorised' \subseteq Decisions \X Nat
        /\ btw' \in 0..texts' /\ shown' \subseteq Events
    BY <2>4 DEF TypeOK
  <2> QED
    BY <2>2, <2>3, <2>4, <2>5, TypesStay DEF TypeOK
<1>19. CASE TimerFires
  <2>1. Gate!TypeOK'
    BY <1>19, GateTypes DEF TimerFires
  <2> QED
    BY <1>19, <2>1
       DEF TimerFires, TypeOK, replyVars, decisionVars, streamVars, toolVars,
           humanVars, turnVars
<1>20. CASE Enqueue
  <2>1. Gate!TypeOK'
    BY <1>1, <1>20 DEF Enqueue
  <2>2. texts' \in 0..MaxBtw /\ btw' \in 0..texts'
    <3>1. btw \in 0..texts /\ texts \in 0..MaxBtw /\ MaxBtw \in Nat
      BY DEF TypeOK
    <3>2. texts' = texts + 1 /\ btw' = btw + 1 /\ texts < MaxBtw
      BY <1>20 DEF Enqueue
    <3> QED
      BY <3>1, <3>2
  <2>3. restored' \in BOOLEAN /\ finished' \in BOOLEAN /\ cut' \subseteq Nat
    BY <1>20 DEF Enqueue, TypeOK
  <2>4. turn' \in 0..MaxTurns /\ caller' \in Seq(Messages)
    BY <1>20 DEF Enqueue, TypeOK
  <2> QED
    BY <1>20, <2>1, <2>2, <2>3, <2>4
       DEF Enqueue, TypeOK, replyVars, decisionVars, streamVars, toolVars,
           humanVars
<1>21. CASE UNCHANGED vars
  <2>1. Gate!TypeOK'
    BY <1>1, <1>21 DEF vars
  <2> QED
    BY <1>21, <2>1
       DEF vars, TypeOK, replyVars, decisionVars, streamVars, toolVars,
           humanVars, turnVars
<1> QED
  BY <1>2, <1>3, <1>4, <1>6, <1>7, <1>8, <1>9, <1>10, <1>11, <1>12, <1>13,
     <1>14, <1>15, <1>16, <1>17, <1>18, <1>19, <1>20, <1>21, Steps

(***************************************************************************)
(* Control                                                                 *)
(***************************************************************************)
\* Every step keeps Control: each place of the generator is entered with what
\* it relies on.
LEMMA ControlKept ==
    ASSUME TypeOK, Control, [Next]_vars
    PROVE  Control'
<1> USE LoopAssumption
<1>1. CASE pc' \in {"idle", "round"}
  BY <1>1 DEF Control
<1>2. CASE GivesUp \/ Completes \/ GoesOn \/ StartTurn
           \/ \E d \in Decisions, kind \in {"approve", "reject"} :
                  ResumeTurn(d, kind)
  <2>1. pc' \in {"idle", "round"}
    BY <1>2 DEF GivesUp, Completes, GoesOn, StartTurn, ResumeTurn, Done, End,
                Start, FinalInvalid, BatchDone, NextRound
  <2> QED
    BY <1>1, <2>1
<1>3. CASE RoundBegins
  BY <1>3 DEF RoundBegins, Control
<1>4. CASE StreamToken \/ StreamRetry
  BY <1>4 DEF StreamToken, StreamRetry, MayRetry, Control, TypeOK,
              decisionVars, toolVars, replyVars
<1>5. CASE \E calls \in Batches : StreamDone(calls)
  BY <1>5 DEF StreamDone, Control
<1>6. CASE Decide
  BY <1>6 DEF Decide, DecisionAfterUse, Control
<1>7. CASE Pause
  BY <1>7 DEF Pause, Control, decisionVars
<1>8. CASE \E w \in Waits : AwaitDecision(w)
  BY <1>8 DEF AwaitDecision, Control
<1>9. CASE DecisionArrives
  BY <1>9 DEF DecisionArrives, Control
<1>10. CASE BatchBegins
  <2>1. Len(response.calls) \in Nat
    BY MessageTypes
  <2> QED
    BY <1>10, <2>1 DEF BatchBegins, Control, decisionVars, replyVars
<1>11. CASE AnswerWithoutRun \/ AnswerAfterRun
  <2>1. Answered /\ pc = "tools" /\ call <= Len(response.calls)
    BY <1>11 DEF AnswerWithoutRun, AnswerAfterRun, InTools
  <2>2. Len(response.calls) \in Nat
    BY MessageTypes
  <2>3. call' \in 1..(Len(response'.calls) + 1)
    BY <2>1, <2>2 DEF Answered, Control, replyVars
  <2> QED
    BY <2>1, <2>3 DEF Answered, Control, decisionVars
<1>12. CASE Invoke
  BY <1>12 DEF Invoke, InTools, Control, decisionVars, replyVars
<1>13. CASE UNCHANGED <<pc, round, attempt, myWait, pendingDecision, call, response>>
  BY <1>13 DEF Control
<1>14. CASE TimerFires \/ Enqueue
            \/ \E d \in Decisions, event \in shown, kind \in Kinds :
                   HumanDecides(d, event, kind)
  BY <1>13, <1>14 DEF TimerFires, Enqueue, HumanDecides, streamVars,
                      decisionVars, toolVars, replyVars
<1>15. CASE UNCHANGED vars
  BY <1>13, <1>15 DEF vars, streamVars, decisionVars, toolVars, replyVars
<1> QED
  BY <1>2, <1>3, <1>4, <1>5, <1>6, <1>7, <1>8, <1>9, <1>10, <1>11, <1>12,
     <1>14, <1>15, Steps

(***************************************************************************)
(* The conversation                                                        *)
(***************************************************************************)
\* The calls of a message are numbered from 1.
LEMMA CallNumbers ==
    ASSUME NEW m \in Messages, m.role = "assistant"
    PROVE  Len(m.calls) \in Nat /\ DOMAIN m.calls = 1..Len(m.calls)
<1>1. m.calls \in Batches
  BY DEF Messages
<1>2. m.calls \in Seq(Tools)
  BY <1>1, LoopAssumption
<1> QED
  BY <1>2, LenProperties

\* Messages added behind a sound conversation leave what is before them sound.
LEMMA Extended ==
    ASSUME NEW h \in Seq(Messages), NEW g \in Seq(Messages),
           Len(h) <= Len(g), \A i \in 1..Len(h) : g[i] = h[i],
           NEW c, NEW a, Sound(h, c, a),
           \A i \in (Len(h) + 1)..Len(g) :
               /\ g[i].role = "assistant" => i = a
               /\ g[i].role = "tool" => ResultFollows(g, i)
    PROVE  Sound(g, c, a)
<1>1. Len(h) \in Nat /\ Len(g) \in Nat
  BY LenProperties
<1>2. ASSUME NEW i \in 1..Len(h), g[i].role = "assistant", BatchAnswered(h, i)
      PROVE  BatchAnswered(g, i)
  <2>1. SUFFICES ASSUME NEW k \in DOMAIN g[i].calls
                 PROVE  i + k <= Len(g) /\ g[i + k] = Result(g[i], k)
    BY DEF BatchAnswered
  <2>2. g[i] = h[i] /\ h[i] \in Messages
    BY ElementOfSeq
  <2>3. k \in Nat \ {0}
    BY <1>2, <2>2, CallNumbers
  <2>4. i + k <= Len(h) /\ h[i + k] = Result(h[i], k)
    BY <1>2, <2>2 DEF BatchAnswered
  <2>5. i + k \in 1..Len(h)
    BY <1>1, <2>3, <2>4
  <2> QED
    BY <1>1, <2>2, <2>4, <2>5
<1>3. ASSUME NEW i \in 1..Len(h), ResultFollows(h, i)
      PROVE  ResultFollows(g, i)
  <2>1. i - 1 \in 1..Len(h) /\ i \in 1..Len(h)
    BY <1>1, <1>3 DEF ResultFollows
  <2>2. g[i] = h[i] /\ g[i - 1] = h[i - 1]
    BY <2>1
  <2> QED
    BY <1>3, <2>2 DEF ResultFollows
<1>4. ASSUME NEW i \in 1..Len(g)
      PROVE  /\ g[i].role = "assistant" /\ g[i].id \notin c /\ i # a =>
                    BatchAnswered(g, i)
             /\ g[i].role = "tool" => ResultFollows(g, i)
  <2>1. CASE i \in 1..Len(h)
    <3>1. g[i] = h[i]
      BY <2>1
    <3> QED
      BY <1>2, <1>3, <2>1, <3>1 DEF Sound
  <2>2. CASE i \in (Len(h) + 1)..Len(g)
    BY <2>2
  <2> QED
    BY <1>1, <2>1, <2>2
<1> QED
  BY <1>4 DEF Sound

\* Messages that call no tool and answer none keep a conversation sound.
LEMMA NotesSound ==
    ASSUME NEW h \in Seq(Messages), NEW g \in Seq(Messages),
           Len(h) <= Len(g), \A i \in 1..Len(h) : g[i] = h[i],
           \A i \in (Len(h) + 1)..Len(g) : g[i].role = "user",
           NEW c, NEW a, Sound(h, c, a)
    PROVE  Sound(g, c, a)
<1>1. \A i \in (Len(h) + 1)..Len(g) :
          g[i].role # "assistant" /\ g[i].role # "tool"
  OBVIOUS
<1> QED
  BY <1>1, Extended

\* Appending such a message does.
LEMMA UserSound ==
    ASSUME NEW h \in Seq(Messages), NEW n \in Nat, User(n) \in Messages,
           NEW c, NEW a, Sound(h, c, a)
    PROVE  Sound(Append(h, User(n)), c, a)
<1> DEFINE m == User(n)
           g == Append(h, m)
<1>1. m \in Messages /\ m.role = "user"
  BY DEF User
<1> HIDE DEF m
<1>2. /\ Len(h) \in Nat /\ g \in Seq(Messages) /\ Len(g) = Len(h) + 1
      /\ \A i \in 1..Len(h) : g[i] = h[i]
      /\ g[Len(h) + 1] = m
  BY <1>1, LenProperties, AppendProperties
<1> HIDE DEF g
<1>3. \A i \in (Len(h) + 1)..Len(g) : g[i].role = "user"
  BY <1>1, <1>2
<1>4. Len(h) <= Len(g)
  BY <1>2
<1>5. Sound(g, c, a)
  BY <1>2, <1>3, <1>4, NotesSound
<1> QED
  BY <1>5 DEF g, m

\* A conversation that is sound is so with more batches cut short, and so is one
\* in progress.
LEMMA MoreCut ==
    ASSUME NEW h, NEW c, NEW d, c \subseteq d, NEW a, Sound(h, c, a)
    PROVE  Sound(h, d, a)
BY DEF Sound

\* The end of a sound conversation is sound behind a summary.
LEMMA CompactedSound ==
    ASSUME TypeOK, NEW h \in Seq(Messages), NEW g \in Compacted(h),
           NEW c, Sound(h, c, 0)
    PROVE  Sound(g, c, 0)
<1>1. PICK k \in 1..Len(h) :
              /\ g \in Seq(Messages) /\ Len(g) = Len(h) - k + 2
              /\ g[1] = Summary
              /\ \A i \in 2..Len(g) : g[i] = h[i + k - 2]
  BY CompactedTypes
<1>2. Len(h) \in Nat /\ Len(g) \in Nat
  BY LenProperties, <1>1
<1>3. ASSUME NEW i \in 2..Len(g)
      PROVE  i + k - 2 \in 1..Len(h) /\ g[i] = h[i + k - 2] /\ h[i + k - 2] \in Messages
  <2>1. g[i] = h[i + k - 2]
    BY <1>1
  <2>2. i + k - 2 \in 1..Len(h)
    BY <1>1, <1>2
  <2> QED
    BY <2>1, <2>2, ElementOfSeq
<1>4. ASSUME NEW i \in 2..Len(g), g[i].role = "assistant", g[i].id \notin c
      PROVE  BatchAnswered(g, i)
  <2> DEFINE j == i + k - 2
  <2>1. j \in 1..Len(h) /\ g[i] = h[j] /\ h[j] \in Messages /\ j # 0
    BY <1>3
  <2>2. BatchAnswered(h, j)
    <3> HIDE DEF j
    <3> QED
      BY <1>4, <2>1 DEF Sound
  <2>3. SUFFICES ASSUME NEW n \in DOMAIN g[i].calls
                 PROVE  i + n <= Len(g) /\ g[i + n] = Result(g[i], n)
    BY DEF BatchAnswered
  <2>4. n \in Nat \ {0}
    <3> HIDE DEF j
    <3> QED
      BY <1>4, <2>1, CallNumbers
  <2>5. j + n <= Len(h) /\ h[j + n] = Result(h[j], n)
    <3> HIDE DEF j
    <3> QED
      BY <2>1, <2>2 DEF BatchAnswered
  <2>6. i + n \in 2..Len(g)
    BY <1>1, <1>2, <2>4, <2>5
  <2>7. g[i + n] = h[(i + n) + k - 2] /\ (i + n) + k - 2 = j + n
    BY <1>3, <2>4, <2>6
  <2> QED
    BY <1>2, <2>1, <2>5, <2>6, <2>7
<1>5. ASSUME NEW i \in 2..Len(g), g[i].role = "tool"
      PROVE  ResultFollows(g, i)
  <2>1. CASE i = 2
    <3>1. g[i - 1].role = "system" /\ i > 1
      BY <1>1, <2>1 DEF Summary
    <3> QED
      BY <3>1 DEF ResultFollows
  <2>2. CASE i # 2
    <3> DEFINE j == i + k - 2
    <3>1. j \in 1..Len(h) /\ g[i] = h[j]
      BY <1>3
    <3>2. i - 1 \in 2..Len(g) /\ (i - 1) + k - 2 = j - 1 /\ i > 1
      BY <1>2, <2>2
    <3>3. g[i - 1] = h[j - 1]
      BY <1>3, <3>2
    <3> HIDE DEF j
    <3>4. ResultFollows(h, j)
      BY <1>5, <3>1 DEF Sound
    <3> QED
      BY <3>1, <3>2, <3>3, <3>4 DEF ResultFollows
  <2> QED
    BY <2>1, <2>2
<1>6. g[1].role = "system"
  BY <1>1 DEF Summary
<1> QED
  <2>1. ASSUME NEW i \in 1..Len(g) PROVE i = 1 \/ i \in 2..Len(g)
    BY <1>2
  <2> QED
    BY <1>4, <1>5, <1>6, <2>1 DEF Sound

\* A response is added to a conversation whose calls are answered.
LEMMA ResponseAdded ==
    ASSUME NEW h \in Seq(Messages), NEW c, Sound(h, c, 0),
           NEW r, Assistant(r) \in Messages
    PROVE  InProgress(Append(h, Assistant(r)), c, r, Len(h) + 1, 0)
<1> DEFINE m == Assistant(r)
           g == Append(h, m)
<1>1. m \in Messages /\ m.role = "assistant"
  BY DEF Assistant
<1> HIDE DEF m
<1>2. /\ Len(h) \in Nat /\ g \in Seq(Messages) /\ Len(g) = Len(h) + 1
      /\ \A i \in 1..Len(h) : g[i] = h[i]
      /\ g[Len(h) + 1] = m
  BY <1>1, LenProperties, AppendProperties
<1> HIDE DEF g
<1>3. Sound(h, c, Len(h) + 1)
  <2>1. \A i \in 1..Len(h) : i # 0
    BY <1>2
  <2> QED
    BY <2>1 DEF Sound
<1>4. Sound(g, c, Len(h) + 1)
  <2>1. \A i \in (Len(h) + 1)..Len(g) : i = Len(h) + 1 /\ g[i].role # "tool"
    BY <1>1, <1>2
  <2>2. Len(h) <= Len(g)
    BY <1>2
  <2> DEFINE a == Len(h) + 1
  <2>3. \A i \in (Len(h) + 1)..Len(g) :
               /\ g[i].role = "assistant" => i = a
               /\ g[i].role = "tool" => ResultFollows(g, i)
    BY <2>1
  <2>4. Sound(h, c, a)
    BY <1>3
  <2> HIDE DEF a
  <2>5. Sound(g, c, a)
    BY <1>2, <2>2, <2>3, <2>4, Extended
  <2> QED
    BY <2>5 DEF a
<1>5. InProgress(g, c, r, Len(h) + 1, 0)
  BY <1>2, <1>4 DEF InProgress, m
<1> QED
  BY <1>5 DEF g, m

\* The next call is answered.
LEMMA AnswerAdded ==
    ASSUME NEW h \in Seq(Messages), NEW c, NEW r, NEW a \in Nat,
           NEW n \in Nat, InProgress(h, c, r, a, n),
           Result(r, n + 1) \in Messages
    PROVE  /\ InProgress(Append(h, Result(r, n + 1)), c, r, a, n + 1)
<1> DEFINE m == Result(r, n + 1)
           g == Append(h, m)
<1>1. m \in Messages /\ m.role = "tool" /\ m.id = r.id /\ m.call = n + 1
  BY DEF Result
<1>2. /\ Len(h) \in Nat /\ g \in Seq(Messages) /\ Len(g) = Len(h) + 1
      /\ \A i \in 1..Len(h) : g[i] = h[i]
      /\ g[Len(h) + 1] = m
  <2> HIDE DEF m
  <2> QED
    BY <1>1, LenProperties, AppendProperties
<1> HIDE DEF g, m
<1>3. /\ a > 0 /\ a + n = Len(h) /\ h[a] = Assistant(r)
      /\ \A k \in 1..n : h[a + k] = Result(r, k)
      /\ Sound(h, c, a)
  BY DEF InProgress
<1>4. g[a] = Assistant(r)
  BY <1>2, <1>3
<1>5. \A k \in 1..(n + 1) : g[a + k] = Result(r, k)
  <2>1. ASSUME NEW k \in 1..n PROVE g[a + k] = Result(r, k)
    <3>1. a + k \in 1..Len(h)
      BY <1>2, <1>3
    <3> QED
      BY <1>2, <1>3, <3>1
  <2>2. g[a + (n + 1)] = Result(r, n + 1)
    <3>1. a + (n + 1) = Len(h) + 1
      BY <1>2, <1>3
    <3>2. g[Len(h) + 1] = m
      BY <1>2
    <3> QED
      BY <3>1, <3>2 DEF m
  <2>3. ASSUME NEW k \in 1..(n + 1) PROVE k \in 1..n \/ k = n + 1
    OBVIOUS
  <2> QED
    BY <2>1, <2>2, <2>3
<1>6. ResultFollows(g, Len(g))
  <2>1. Len(g) - 1 = a + n /\ Len(g) > 1 /\ g[Len(g)] = m
    BY <1>2, <1>3
  <2>2. CASE n = 0
    <3>1. g[Len(g) - 1] = Assistant(r) /\ m.call = 1
      BY <1>1, <1>4, <2>1, <2>2
    <3> QED
      BY <1>1, <2>1, <3>1 DEF ResultFollows, Assistant
  <2>3. CASE n # 0
    <3>1. n \in 1..(n + 1) /\ m.call # 1 /\ m.call - 1 = n
      BY <1>1, <2>3
    <3>2. g[Len(g) - 1] = Result(r, n)
      BY <1>5, <2>1, <3>1
    <3>3. Result(r, n) = Result(m, m.call - 1)
      BY <1>1, <3>1 DEF Result
    <3> QED
      BY <2>1, <3>1, <3>2, <3>3 DEF ResultFollows
  <2> QED
    BY <2>2, <2>3
<1>7. Sound(g, c, a)
  <2>1. \A i \in (Len(h) + 1)..Len(g) :
            i = Len(g) /\ g[i].role = "tool" /\ ResultFollows(g, i)
    <3>1. \A i \in (Len(h) + 1)..Len(g) : i = Len(g) /\ g[i] = m
      BY <1>2
    <3> QED
      BY <1>1, <1>6, <3>1
  <2>2. Len(h) <= Len(g) /\ \A i \in (Len(h) + 1)..Len(g) :
            /\ g[i].role = "assistant" => i = a
            /\ g[i].role = "tool" => ResultFollows(g, i)
    BY <1>2, <2>1
  <2> QED
    BY <1>2, <1>3, <2>2, Extended
<1>8. InProgress(g, c, r, a, n + 1)
  BY <1>2, <1>3, <1>4, <1>5, <1>7 DEF InProgress
<1> QED
  BY <1>8 DEF g, m

\* The batch is over when its last call is answered.
LEMMA BatchComplete ==
    ASSUME NEW h \in Seq(Messages), NEW c, NEW r, NEW a \in Nat,
           NEW n \in Nat, InProgress(h, c, r, a, n),
           DOMAIN r.calls = 1..n
    PROVE  Sound(h, c, 0)
<1>1. /\ a > 0 /\ a + n = Len(h) /\ h[a] = Assistant(r)
      /\ \A k \in 1..n : h[a + k] = Result(r, k)
      /\ Sound(h, c, a)
  BY DEF InProgress
<1>2. BatchAnswered(h, a)
  <2>1. h[a].calls = r.calls /\ h[a].id = r.id
    BY <1>1 DEF Assistant
  <2>2. ASSUME NEW k \in DOMAIN h[a].calls
        PROVE  a + k <= Len(h) /\ h[a + k] = Result(h[a], k)
    <3>1. k \in 1..n /\ Result(h[a], k) = Result(r, k)
      BY <2>1, <2>2 DEF Result
    <3> QED
      BY <1>1, <3>1
  <2> QED
    BY <2>2 DEF BatchAnswered
<1> QED
  BY <1>1, <1>2 DEF Sound

\* It is cut short otherwise.
LEMMA BatchCut ==
    ASSUME NEW h, NEW c, NEW r, NEW a, NEW n, InProgress(h, c, r, a, n)
    PROVE  Sound(h, c \cup {r.id}, 0)
<1>1. h[a].id = r.id /\ Sound(h, c, a)
  BY DEF InProgress, Assistant
<1> QED
  BY <1>1 DEF Sound

\* A turn that completes leaves a sound conversation, the batches it cut short
\* recorded.
LEMMA CompletedSound ==
    ASSUME TypeOK, Control, Ongoing, Completes
    PROVE  Sound(caller', cut', 0)
<1>0. /\ history \in Seq(Messages) /\ Len(history) \in Nat /\ call \in Nat
      /\ response.id \in Nat /\ Len(response.calls) \in Nat
      /\ DOMAIN response.calls = 1..Len(response.calls)
      /\ Note = User(0) /\ Note \in Messages
  BY LenProperties, MessageTypes DEF TypeOK, Note
<1>1. CASE FinalDone
  <2>1. /\ caller' = history /\ cut' = cut \cup {}
        /\ pc = "response" /\ response.calls = <<>>
    BY <1>1 DEF FinalDone, Done, End
  <2>2. InProgress(history, cut, response, Len(history), 0)
    BY <2>1 DEF Ongoing
  <2>3. DOMAIN response.calls = 1..0 /\ cut' = cut
    BY <2>1
  <2>4. Sound(history, cut, 0)
    BY <1>0, <2>2, <2>3, BatchComplete
  <2> QED
    BY <2>1, <2>3, <2>4
<1>2. CASE Rejected
  <2>1. /\ caller' = Append(history, Note) /\ cut' = cut \cup {response.id}
        /\ pc = "decided"
    BY <1>2 DEF Rejected, Done, End
  <2>2. Sound(history, cut \cup {response.id}, 0)
    BY <2>1, BatchCut DEF Ongoing
  <2> QED
    BY <1>0, <2>1, <2>2, UserSound
<1>3. CASE Handoff
  <2> DEFINE left == IF call < Len(response.calls) THEN {response.id} ELSE {}
             g == Append(history, Result(response, call))
             a == Len(history) - (call - 1)
  <2>1. caller' = g /\ cut' = cut \cup left /\ pc = "tools"
        /\ call <= Len(response.calls)
    BY <1>3 DEF Handoff, InTools, Done, End
  <2>2. InProgress(history, cut, response, a, call - 1)
    BY <2>1 DEF Ongoing
  <2>3. call - 1 \in Nat /\ a \in Nat /\ (call - 1) + 1 = call
        /\ g \in Seq(Messages)
    BY <1>0, <2>1, <2>2, MessageTypes, AppendProperties DEF InProgress, Control
  <2>4. InProgress(g, cut, response, a, call)
    <3>1. Result(response, call) \in Messages
      BY <1>0, MessageTypes
    <3> HIDE DEF a
    <3> QED
      BY <1>0, <2>2, <2>3, <3>1, AnswerAdded
  <2> HIDE DEF g, a
  <2>5. CASE call < Len(response.calls)
    BY <2>1, <2>4, <2>5, BatchCut
  <2>6. CASE call = Len(response.calls)
    <3>1. cut' = cut
      BY <1>0, <2>1, <2>6
    <3>2. Sound(g, cut, 0)
      BY <1>0, <2>3, <2>4, <2>6, BatchComplete
    <3> QED
      BY <2>1, <3>1, <3>2
  <2> QED
    BY <1>0, <2>1, <2>5, <2>6
<1> QED
  BY <1>1, <1>2, <1>3 DEF Completes

\* Every step keeps what a turn may start from sound.
LEMMA KeptKept ==
    ASSUME TypeOK, Control, Conversation, [Next]_vars
    PROVE  Kept'
<1> USE LoopAssumption
<1>1. ASSUME cut \subseteq cut', caller' = caller, files' = files
      PROVE  Kept'
  <2>1. Sound(caller', cut', 0)
    BY <1>1, MoreCut DEF Conversation, Kept
  <2>2. ASSUME NEW q \in Rounds, files[q] # None, files[q].waiting # None
        PROVE  Sound(files[q].messages, cut' \cup {files[q].waiting.id}, 0)
    <3> DEFINE c == cut \cup {files[q].waiting.id}
               d == cut' \cup {files[q].waiting.id}
               h == files[q].messages
    <3>1. Sound(h, c, 0) /\ c \subseteq d
      BY <1>1, <2>2 DEF Conversation, Kept
    <3> HIDE DEF c, d, h
    <3>2. Sound(h, d, 0)
      BY <3>1, MoreCut
    <3> QED
      BY <3>2 DEF d, h
  <2> QED
    BY <1>1, <2>1, <2>2 DEF Kept
\* A file is written that does not wait, or waits and is sound.
<1>2. ASSUME cut \subseteq cut', Sound(caller', cut', 0),
             NEW r \in Rounds, NEW m \in Seq(Messages), NEW e \in Events \cup {None},
             files' = [files EXCEPT ![r] = [messages |-> m, waiting |-> e]],
             e # None => Sound(m, cut' \cup {e.id}, 0)
      PROVE  Kept'
  <2>1. /\ files'[r].waiting = e /\ files'[r].messages = m
        /\ \A q \in Rounds \ {r} : files'[q] = files[q]
    BY <1>2, FileTypes
  <2>2. ASSUME NEW q \in Rounds, files'[q] # None, files'[q].waiting # None
        PROVE  Sound(files'[q].messages, cut' \cup {files'[q].waiting.id}, 0)
    <3>1. CASE q = r
      BY <1>2, <2>1, <2>2, <3>1
    <3>2. CASE q # r
      <4> DEFINE c == cut \cup {files[q].waiting.id}
                 d == cut' \cup {files[q].waiting.id}
                 h == files[q].messages
      <4>1. files'[q] = files[q]
        BY <2>1, <3>2
      <4>2. Sound(h, c, 0) /\ c \subseteq d
        BY <1>2, <2>2, <4>1 DEF Conversation, Kept
      <4> HIDE DEF c, d, h
      <4>3. Sound(h, d, 0)
        BY <4>2, MoreCut
      <4> QED
        BY <4>1, <4>3 DEF d, h
    <3> QED
      BY <3>1, <3>2
  <2> QED
    BY <1>2, <2>2 DEF Kept
<1>3. CASE GivesUp
  BY <1>1, <1>3 DEF GivesUp, End
<1>4. CASE Completes
  <2>1. PICK m \in Seq(Messages), left \in SUBSET Nat : Done(m, left)
    BY <1>4 DEF Completes
  <2>2. Sound(caller', cut', 0)
    BY <1>4, CompletedSound DEF Conversation
  <2>3. /\ files' = [files EXCEPT ![round] = [messages |-> m, waiting |-> None]]
        /\ cut \subseteq cut' /\ round \in Rounds
    BY <2>1 DEF Done, Save, TypeOK
  <2> QED
    BY <1>2, <2>2, <2>3
<1>5. CASE GoesOn
  <2>1. NextRound
    BY <1>5 DEF GoesOn, FinalInvalid, BatchDone
  <2>2. TypeOK'
    BY TypeKept
  <2> DEFINE r == round'
             m == history'
  <2>3. /\ files' = [files EXCEPT ![r] = [messages |-> m, waiting |-> None]]
        /\ cut' = cut /\ caller' = caller /\ r \in Rounds /\ m \in Seq(Messages)
    BY <2>1, <2>2 DEF NextRound, Save, turnVars, TypeOK
  <2>4. Sound(caller', cut', 0)
    BY <2>3 DEF Conversation, Kept
  <2> HIDE DEF r, m
  <2> QED
    BY <1>2, <2>3, <2>4
<1>6. CASE StartTurn \/ \E d \in Decisions, kind \in {"approve", "reject"} :
                            ResumeTurn(d, kind)
  <2>1. PICK resumed : Start(resumed)
    BY <1>6 DEF StartTurn, ResumeTurn
  <2>2. cut \subseteq cut' /\ UNCHANGED <<caller, files>>
    BY <2>1 DEF Start
  <2> QED
    BY <1>1, <2>2
<1>7. CASE Pause
  <2>1. /\ files' = [files EXCEPT ![round] = [messages |-> history, waiting |-> Event]]
        /\ pc = "response" /\ cut' = cut /\ caller' = caller
    BY <1>7 DEF Pause, PausedFiles, turnVars
  <2>2. round \in Rounds /\ history \in Seq(Messages) /\ Event \in Events
    BY MessageTypes DEF TypeOK, Event, Events
  <2>3. Sound(history, cut \cup {response.id}, 0)
    BY <2>1, BatchCut DEF Conversation, Ongoing
  <2>4. Sound(history, cut' \cup {Event.id}, 0) /\ Sound(caller', cut', 0)
    BY <2>1, <2>3 DEF Conversation, Kept, Event
  <2> DEFINE e == Event
  <2>5. /\ files' = [files EXCEPT ![round] = [messages |-> history, waiting |-> e]]
        /\ e \in Events \cup {None} /\ Sound(history, cut' \cup {e.id}, 0)
        /\ cut \subseteq cut'
    BY <2>1, <2>2, <2>4
  <2> HIDE DEF e
  <2> QED
    BY <1>2, <2>2, <2>4, <2>5
<1>8. CASE UNCHANGED <<caller, cut, files>>
  BY <1>1, <1>8
<1>9. CASE RoundBegins \/ StreamToken \/ StreamRetry
           \/ \E calls \in Batches : StreamDone(calls)
  BY <1>8, <1>9 DEF RoundBegins, StreamToken, StreamRetry, StreamDone, turnVars
<1>10. CASE Decide \/ DecisionArrives \/ BatchBegins \/ Invoke
            \/ AnswerWithoutRun \/ AnswerAfterRun
            \/ \E w \in Waits : AwaitDecision(w)
  BY <1>8, <1>10 DEF Decide, DecisionArrives, BatchBegins, Invoke,
                     AnswerWithoutRun, AnswerAfterRun, Answered, AwaitDecision,
                     turnVars
<1>11. CASE TimerFires \/ Enqueue \/ UNCHANGED vars
            \/ \E d \in Decisions, event \in shown, kind \in Kinds :
                   HumanDecides(d, event, kind)
  BY <1>8, <1>11 DEF TimerFires, Enqueue, HumanDecides, vars, turnVars
<1> QED
  BY <1>3, <1>4, <1>5, <1>6, <1>7, <1>9, <1>10, <1>11, Steps

\* What a turn starts from is sound.
LEMMA StartedSound ==
    ASSUME TypeOK, Kept, NEW resumed, Start(resumed), TypeOK'
    PROVE  Sound(history', cut', 0)
<1>1. CASE LatestWaiting
  <2>1. /\ Latest \in Rounds /\ files[Latest] # None
        /\ files[Latest].waiting # None
    BY <1>1, LatestIsFile DEF Top
  <2>2. /\ history' = files[Latest].messages
        /\ cut' = cut \cup {files[Latest].waiting.id}
    BY <1>1 DEF Start
  <2> QED
    BY <2>1, <2>2 DEF Kept
<1>2. CASE ~LatestWaiting
  <2>1. history' = Append(caller, User(turn')) /\ cut' = cut /\ turn' \in Nat
    BY <1>2 DEF Start, TypeOK
  <2>2. User(turn') \in Messages /\ caller \in Seq(Messages) /\ Sound(caller, cut, 0)
    BY <2>1, MessageTypes DEF TypeOK, Kept
  <2> DEFINE n == turn'
  <2>3. n \in Nat /\ User(n) \in Messages
    BY <2>1, <2>2
  <2> HIDE DEF n
  <2>4. Sound(Append(caller, User(n)), cut, 0)
    BY <2>2, <2>3, UserSound
  <2> QED
    BY <2>1, <2>4 DEF n
<1> QED
  BY <1>1, <1>2

\* Every step keeps the conversation of the turn in order.
LEMMA OngoingKept ==
    ASSUME TypeOK, Control, Conversation, [Next]_vars
    PROVE  Ongoing'
<1> USE LoopAssumption
<1>0. /\ history \in Seq(Messages) /\ Len(history) \in Nat /\ call \in Nat
  BY LenProperties DEF TypeOK
<1>1. CASE pc' = "idle"
  BY <1>1 DEF Ongoing
<1>2. CASE GivesUp \/ Completes
  BY <1>1, <1>2 DEF GivesUp, Completes, Done, End
<1>3. ASSUME pc' \in {"round", "stream"}, Sound(history', cut', 0)
      PROVE  Ongoing'
  BY <1>3 DEF Ongoing
<1>4. CASE GoesOn
  <2>0. cut' = cut /\ pc' = "round"
    BY <1>4 DEF GoesOn, FinalInvalid, BatchDone, NextRound, turnVars
  <2>1. CASE FinalInvalid
    <3>1. InProgress(history, cut, response, Len(history), 0)
          /\ response.calls = <<>>
      BY <2>1 DEF FinalInvalid, Conversation, Ongoing
    <3>2. DOMAIN response.calls = 1..0
      BY <3>1
    <3>3. Sound(history, cut, 0)
      BY <1>0, <3>1, <3>2, BatchComplete
    <3>4. Sound(Append(history, User(0)), cut, 0)
      BY <1>0, <3>3, MessageTypes, UserSound
    <3> QED
      BY <1>3, <2>0, <2>1, <3>4 DEF FinalInvalid, Note
  <2>2. CASE BatchDone
    <3>1. /\ Len(response.calls) \in Nat
          /\ DOMAIN response.calls = 1..Len(response.calls)
      BY MessageTypes
    <3>2. call - 1 = Len(response.calls)
      BY <2>2, <3>1 DEF BatchDone, Control
    <3>3. InProgress(history, cut, response, Len(history) - (call - 1), call - 1)
      BY <2>2 DEF BatchDone, Conversation, Ongoing
    <3>4. Len(history) - (call - 1) \in Nat
      BY <1>0, <3>1, <3>2, <3>3 DEF InProgress
    <3>5. Sound(history, cut, 0)
      BY <1>0, <3>1, <3>2, <3>3, <3>4, BatchComplete
    <3> QED
      BY <1>3, <2>0, <2>2, <3>5 DEF BatchDone
  <2> QED
    BY <1>4, <2>1, <2>2 DEF GoesOn
<1>6. CASE StartTurn \/ \E d \in Decisions, kind \in {"approve", "reject"} :
                            ResumeTurn(d, kind)
  <2>1. PICK resumed : Start(resumed)
    BY <1>6 DEF StartTurn, ResumeTurn
  <2>2. Sound(history', cut', 0)
    BY <2>1, TypeKept, StartedSound DEF Conversation
  <2> QED
    BY <1>3, <2>1, <2>2 DEF Start
<1>7. CASE RoundBegins
  <2>1. /\ history' = Drained \/ history' \in Compacted(Drained)
        /\ pc' = "stream" /\ cut' = cut /\ Sound(history, cut, 0)
    BY <1>7 DEF RoundBegins, turnVars, Conversation, Ongoing
  <2>2. /\ Drained \in Seq(Messages) /\ Len(history) <= Len(Drained)
        /\ \A i \in 1..Len(history) : Drained[i] = history[i]
        /\ \A i \in (Len(history) + 1)..Len(Drained) : Drained[i].role = "user"
    BY NotesDrained DEF Note, User
  <2>3. Sound(Drained, cut, 0)
    BY <1>0, <2>1, <2>2, NotesSound
  <2>4. Sound(history', cut, 0)
    BY <2>1, <2>2, <2>3, CompactedSound
  <2> QED
    BY <1>3, <2>1, <2>4
<1>8. CASE \E calls \in Batches : StreamDone(calls)
  <2>1. /\ history' = Append(history, Assistant(response')) /\ cut' = cut
        /\ pc' = "response" /\ response'.calls \in Batches
        /\ Sound(history, cut, 0)
    BY <1>8 DEF StreamDone, turnVars, Conversation, Ongoing
  <2>2. Assistant(response') \in Messages
    <3>1. TypeOK'
      BY TypeKept
    <3> QED
      BY <2>1, <3>1 DEF TypeOK, Assistant, Messages
  <2>3. InProgress(history', cut', response', Len(history) + 1, 0)
    BY <1>0, <2>1, <2>2, ResponseAdded
  <2>4. Len(history') = Len(history) + 1
    BY <1>0, <2>1, <2>2, AppendProperties
  <2> QED
    BY <1>0, <2>1, <2>3, <2>4 DEF Ongoing
<1>9. CASE Decide \/ Pause \/ DecisionArrives
           \/ \E w \in Waits : AwaitDecision(w)
  <2>1. /\ pc \in {"response", "paused", "waiting", "decided"}
        /\ pc' \in {"response", "paused", "waiting", "decided"}
        /\ UNCHANGED <<history, cut, response>>
    BY <1>9 DEF Decide, Pause, DecisionArrives, AwaitDecision, replyVars, turnVars
  <2> QED
    BY <2>1 DEF Conversation, Ongoing
<1>10. CASE BatchBegins
  <2>1. /\ pc = "decided" /\ pc' = "tools" /\ call' = 1
        /\ UNCHANGED <<history, cut, response>>
    BY <1>10 DEF BatchBegins, replyVars, turnVars
  <2>2. Len(history) - (call' - 1) = Len(history) /\ call' - 1 = 0
    BY <1>0, <2>1
  <2> QED
    BY <2>1, <2>2 DEF Conversation, Ongoing
<1>11. CASE AnswerWithoutRun \/ AnswerAfterRun
  <2>1. /\ Answered /\ pc = "tools" /\ pc' = "tools" /\ call' = call + 1
        /\ UNCHANGED <<cut, response>>
        /\ history' = Append(history, Result(response, call))
    BY <1>11 DEF AnswerWithoutRun, AnswerAfterRun, InTools, Answered,
                 AnsweredHistory, replyVars, turnVars
  <2>2. Result(response, call) \in Messages
    BY <1>0, MessageTypes
  <2>3. Len(history') = Len(history) + 1
    BY <1>0, <2>1, <2>2, AppendProperties
  <2>4. InProgress(history, cut, response, Len(history) - (call - 1), call - 1)
    BY <2>1 DEF Conversation, Ongoing
  <2>5. call - 1 \in Nat /\ Len(history) - (call - 1) \in Nat
        /\ (call - 1) + 1 = call
    BY <1>0, <2>1, <2>4 DEF InProgress, Control
  <2>6. InProgress(history', cut, response, Len(history) - (call - 1), call)
    BY <1>0, <2>1, <2>2, <2>4, <2>5, AnswerAdded
  <2>7. Len(history') - (call' - 1) = Len(history) - (call - 1)
        /\ call' - 1 = call
    BY <1>0, <2>1, <2>3
  <2> QED
    BY <1>0, <2>1, <2>3, <2>6, <2>7 DEF Ongoing
<1>12. CASE UNCHANGED <<pc, history, cut, response, call>>
  BY <1>12 DEF Conversation, Ongoing
<1>13. CASE StreamToken \/ StreamRetry
  BY <1>13 DEF StreamToken, StreamRetry, Conversation, Ongoing, turnVars
<1>14. CASE Invoke \/ TimerFires \/ Enqueue \/ UNCHANGED vars
            \/ \E d \in Decisions, event \in shown, kind \in Kinds :
                   HumanDecides(d, event, kind)
  BY <1>12, <1>14 DEF Invoke, TimerFires, Enqueue, HumanDecides, vars,
                      turnVars, toolVars, replyVars
<1> QED
  BY <1>2, <1>4, <1>6, <1>7, <1>8, <1>9, <1>10, <1>11, <1>13, <1>14, Steps

\* Every step keeps the conversations sound.
LEMMA ConversationKept ==
    ASSUME TypeOK, Control, Conversation, [Next]_vars
    PROVE  Conversation'
BY KeptKept, OngoingKept DEF Conversation

(***************************************************************************)
(* Decisions                                                               *)
(***************************************************************************)
\* A step that leaves the gate and the humans alone, and at most forgets a
\* decision.
Forgets ==
    /\ UNCHANGED <<pending, wDecision, wState, dKey, dKind, authorised>>
    /\ pc' \notin {"waiting", "decided"}
    /\ pendingDecision' \in {None, pendingDecision}
    /\ decision' \in {None, decision}

\* What was spent are decisions.
LEMMA SpentTypes ==
    ASSUME TypeOK PROVE Spent \subseteq Decisions
<1>1. authorised \subseteq Decisions \X Nat
  BY DEF TypeOK
<1> QED
  BY <1>1 DEF Spent

\* A turn that forgets the decisions it has leaves the others in their place.
LEMMA PlaceForgotten ==
    ASSUME TypeOK, OnePlace, Forgets
    PROVE  OnePlace'
<1>1. None \notin Decisions
  BY LoopAssumption
<1>2. Spent \subseteq Decisions /\ Spent' = Spent
  BY SpentTypes DEF Spent, Forgets
<1> QED
  BY <1>1, <1>2 DEF Forgets, OnePlace

\* A human answers: the decision is parked, or handed to the wait that is
\* registered, and is nowhere else.
LEMMA PlaceOfAnswer ==
    ASSUME TypeOK, OnePlace, NEW d \in Decisions, NEW k \in Rounds,
           NEW tools, Gate!Resolve(d, k, tools),
           dKind[d] = None, NEW kind \in Kinds,
           dKind' = [dKind EXCEPT ![d] = kind],
           UNCHANGED <<pc, pendingDecision, decision, myWait, authorised>>
    PROVE  OnePlace'
<1>1. /\ None \notin Decisions /\ None \notin Rounds
      /\ Spent \subseteq Decisions /\ Spent' = Spent
  BY SpentTypes, LoopAssumption DEF Spent
<1> USE LoopAssumption DEF TypeOK, Gate!TypeOK
<1>2. dKey[d] = None /\ dKey' = [dKey EXCEPT ![d] = k] /\ dKind'[d] # None
  BY DEF Gate!Resolve, Gate!ResolvePark, Gate!ResolveDeliver, Gate!Make
<1>3. /\ d \notin Spent /\ pendingDecision # d /\ decision # d
      /\ \A q \in Rounds : pending[q] # d
      /\ \A w \in Waits : wDecision[w] # d
  <2>1. d \notin Spent /\ pendingDecision # d /\ decision # d
    BY DEF OnePlace
  <2>2. ASSUME NEW q \in Rounds PROVE pending[q] # d
    BY <1>1, <1>2 DEF OnePlace
  <2>3. ASSUME NEW w \in Waits PROVE wDecision[w] # d
    BY <1>1, <1>2 DEF OnePlace
  <2> QED
    BY <2>1, <2>2, <2>3
<1>4. CASE Gate!ResolvePark(d, k, tools)
  <2>1. pending' = [pending EXCEPT ![k] = d] /\ UNCHANGED <<wDecision, wState>>
    BY <1>4 DEF Gate!ResolvePark, Gate!waitVars
  <2> QED
    BY <1>1, <1>2, <1>3, <2>1 DEF OnePlace
<1>5. CASE Gate!ResolveDeliver(d, k, tools)
  <2>1. PICK g \in Waits : g = gates[k]
    BY <1>5 DEF Gate!ResolveDeliver
  <2>2. /\ wDecision' = [wDecision EXCEPT ![g] = d] /\ UNCHANGED pending
        /\ wState' = [wState EXCEPT ![g] = "decided"]
    BY <1>5, <2>1 DEF Gate!ResolveDeliver
  <2> QED
    BY <1>1, <1>2, <1>3, <2>2 DEF OnePlace
<1> QED
  BY <1>4, <1>5 DEF Gate!Resolve

\* A turn waits: it takes the decision that is parked for its round, or none.
LEMMA PlaceOfWait ==
    ASSUME TypeOK, OnePlace, NEW w \in Waits, AwaitDecision(w)
    PROVE  OnePlace'
<1>1. /\ None \notin Decisions /\ None \notin Rounds
      /\ Spent \subseteq Decisions /\ Spent' = Spent
  BY SpentTypes, LoopAssumption DEF Spent, AwaitDecision
<1> USE LoopAssumption DEF TypeOK, Gate!TypeOK
<1>2. /\ pc' = "waiting" /\ myWait' = w
      /\ UNCHANGED <<pendingDecision, decision, dKind, dKey>>
  BY DEF AwaitDecision, humanVars, Gate!Wait, Gate!WaitParked, Gate!WaitRegister
<1>3. CASE Gate!WaitParked(w, round)
  <2>1. PICK p \in Decisions : p = pending[round]
    BY <1>3 DEF Gate!WaitParked
  <2>2. /\ wDecision' = [wDecision EXCEPT ![w] = p]
        /\ pending' = [pending EXCEPT ![round] = None]
        /\ wState' = [wState EXCEPT ![w] = "decided"]
    BY <1>3, <2>1 DEF Gate!WaitParked, Gate!Unparked
  <2>3. round \in Rounds /\ p # None
    BY <1>1
  <2>4. dKey[p] = round /\ p \notin Spent
    BY <1>1, <2>1, <2>3 DEF OnePlace
  <2>5. ASSUME NEW k \in Rounds \ {round} PROVE pending[k] # p
    BY <2>3, <2>4 DEF OnePlace
  <2> QED
    BY <1>1, <1>2, <2>2, <2>3, <2>4, <2>5 DEF OnePlace
<1>4. CASE Gate!WaitRegister(w, round, HasTimeout)
  <2>1. /\ UNCHANGED <<wDecision, pending>> /\ wDecision[w] = None
        /\ wState' = [wState EXCEPT ![w] = "open"]
    BY <1>4 DEF Gate!WaitRegister, OnePlace
  <2> QED
    BY <1>1, <1>2, <2>1 DEF OnePlace
<1> QED
  BY <1>3, <1>4 DEF AwaitDecision, Gate!Wait

\* Every step keeps each decision in one place.
LEMMA OnePlaceKept ==
    ASSUME TypeOK, Control, OnePlace, [Next]_vars
    PROVE  OnePlace'
<1> USE LoopAssumption
<1>1. /\ None \notin Decisions /\ None \notin Rounds
      /\ Spent \subseteq Decisions
      /\ authorised' = authorised => Spent' = Spent
  BY SpentTypes DEF Spent
<1>2. CASE GivesUp
  <2>1. /\ UNCHANGED <<dKey, dKind, authorised>> /\ pc' = "idle"
        /\ pendingDecision' = None /\ decision' = None
    BY <1>2 DEF GivesUp, End, humanVars
  <2>2. CASE UNCHANGED gateVars
    BY <2>1, <2>2, PlaceForgotten DEF Forgets, gateVars
  <2>3. CASE /\ pending' = [k \in Rounds |-> None]
             /\ wDecision' = [w \in Waits |-> None]
    BY <1>1, <2>1, <2>3 DEF OnePlace
  <2> QED
    BY <1>2, <2>2, <2>3 DEF GivesUp
<1>3. CASE Completes \/ GoesOn
  <2>1. Forgets
    BY <1>3 DEF Completes, Done, End, GoesOn, FinalInvalid, BatchDone, NextRound,
                Forgets, humanVars, gateVars, decisionVars
  <2> QED
    BY <2>1, PlaceForgotten
<1>4. CASE StartTurn \/ RoundBegins \/ StreamToken \/ StreamRetry
           \/ \E calls \in Batches : StreamDone(calls)
  <2>1. Forgets
    BY <1>4 DEF StartTurn, Start, RoundBegins, StreamToken, StreamRetry, StreamDone,
                Forgets, humanVars, gateVars, decisionVars
  <2> QED
    BY <2>1, PlaceForgotten
<1>5. CASE Pause \/ AnswerWithoutRun \/ AnswerAfterRun \/ Invoke
  <2>1. Forgets
    BY <1>5 DEF Pause, AnswerWithoutRun, AnswerAfterRun, Answered, Invoke, InTools,
                Forgets, humanVars, gateVars, decisionVars
  <2> QED
    BY <2>1, PlaceForgotten
<1>6. ASSUME NEW d \in Decisions, NEW kind \in {"approve", "reject"},
             ResumeTurn(d, kind)
      PROVE  OnePlace'
  <2>1. /\ dKind[d] = None /\ dKind' = [dKind EXCEPT ![d] = kind]
        /\ pendingDecision' = d /\ pc' = "round"
        /\ UNCHANGED <<pending, wDecision, wState, dKey, decision, authorised>>
    BY <1>6 DEF ResumeTurn, Fresh, Start, gateVars
  <2>2. dKind'[d] # None /\ \A e \in Decisions : e # d => dKind'[e] = dKind[e]
    BY <2>1 DEF TypeOK, Kinds
  <2>3. dKey[d] = None /\ d \notin Spent /\ decision # d
    BY <2>1 DEF OnePlace
  <2> QED
    BY <1>1, <2>1, <2>2, <2>3 DEF OnePlace
<1>7. CASE Decide
  <2>1. /\ pc' = "decided" /\ decision' = pendingDecision
        /\ pendingDecision' = None
        /\ UNCHANGED <<pending, wDecision, wState, dKey, dKind, authorised>>
    BY <1>7 DEF Decide, DecisionAfterUse, gateVars, humanVars
  <2>2. decision' # None => dKey[decision'] = None /\ decision' \notin Spent
    BY <1>1, <2>1 DEF OnePlace
  <2>3. \A k \in Rounds : pending[k] # None => dKey[pending[k]] # None
    BY <1>1 DEF OnePlace
  <2> QED
    BY <1>1, <2>1, <2>2, <2>3 DEF OnePlace
<1>8. ASSUME NEW w \in Waits, AwaitDecision(w) PROVE OnePlace'
  BY <1>8, PlaceOfWait
<1>9. CASE DecisionArrives
  <2>1. /\ pc = "waiting" /\ pc' = "decided" /\ decision' = wDecision[myWait]
        /\ myWait \in Waits
        /\ UNCHANGED <<pending, wDecision, wState, dKey, dKind, authorised,
                       pendingDecision>>
    BY <1>9 DEF DecisionArrives, Control, gateVars, humanVars
  <2>2. /\ decision' # None => dKey[decision'] # None
        /\ decision' # None => \A k \in Rounds : pending[k] # decision'
        /\ decision' \notin Spent
    BY <1>1, <2>1 DEF OnePlace
  <2> QED
    BY <1>1, <2>1, <2>2 DEF OnePlace
<1>10. CASE BatchBegins
  <2>1. /\ pc = "decided" /\ pc' = "tools" /\ pendingDecision = None
        /\ UNCHANGED <<pending, wDecision, wState, dKey, dKind, decision,
                       pendingDecision>>
    BY <1>10 DEF BatchBegins, Control, gateVars, humanVars, decisionVars
  <2>2. Spent' \subseteq Spent \cup {decision} /\ Spent' \subseteq Decisions
    <3>1. CASE decision = None
      BY <1>1, <1>10, <3>1 DEF BatchBegins, Spent
    <3>2. CASE decision # None
      <4>1. decision \in Decisions
        BY <3>2 DEF TypeOK
      <4>2. authorised' = authorised \cup {<<decision, response.id>>}
        BY <1>10, <3>2 DEF BatchBegins
      <4>3. ASSUME NEW d \in Spent' PROVE d \in Spent \cup {decision}
        <5>1. PICK pair \in authorised' : d = pair[1]
          BY <4>3 DEF Spent
        <5>2. pair \in authorised \/ pair = <<decision, response.id>>
          BY <4>2, <5>1
        <5> QED
          BY <5>1, <5>2 DEF Spent
      <4> QED
        BY <1>1, <4>1, <4>3
    <3> QED
      BY <3>1, <3>2
  <2> QED
    BY <1>1, <2>1, <2>2 DEF OnePlace, TypeOK
<1>11. ASSUME NEW d \in Decisions, NEW event \in shown, NEW kind \in Kinds,
              HumanDecides(d, event, kind)
       PROVE  OnePlace'
  <2>1. event.key \in Rounds
    BY DEF TypeOK, Events
  <2>2. PICK tools : Gate!Resolve(d, event.key, tools)
    BY <1>11 DEF HumanDecides
  <2>3. /\ dKind[d] = None /\ dKind' = [dKind EXCEPT ![d] = kind]
        /\ UNCHANGED <<pc, pendingDecision, decision, myWait, authorised>>
    BY <1>11 DEF HumanDecides, Fresh, decisionVars
  <2> QED
    BY <2>1, <2>2, <2>3, PlaceOfAnswer
<1>12. CASE TimerFires
  <2>1. PICK v \in Waits : Gate!Timeout(v)
    BY <1>12 DEF TimerFires
  <2>2. /\ UNCHANGED <<pending, wDecision, dKey, dKind, authorised, pc,
                       pendingDecision, decision, myWait>>
        /\ \A w \in Waits : wState'[w] = "unused" => wState[w] = "unused"
    BY <1>12, <2>1 DEF TimerFires, Gate!Timeout, TypeOK, Gate!TypeOK, humanVars,
                       decisionVars
  <2> QED
    BY <1>1, <2>2 DEF OnePlace
<1>13. CASE Enqueue \/ UNCHANGED vars
  <2>1. UNCHANGED <<pending, wDecision, wState, dKey, dKind, authorised, pc,
                    pendingDecision, decision, myWait>>
    BY <1>13 DEF Enqueue, vars, gateVars, humanVars, decisionVars
  <2> QED
    BY <1>1, <2>1 DEF OnePlace
<1> QED
  BY <1>2, <1>3, <1>4, <1>5, <1>6, <1>7, <1>8, <1>9, <1>10, <1>11, <1>12,
     <1>13, Steps

\* A batch begins under a decision under which none ran before.
LEMMA OneBatchKept ==
    ASSUME TypeOK, OnePlace, OneBatchPerDecision, [Next]_vars
    PROVE  OneBatchPerDecision'
<1>1. CASE BatchBegins
  <2>1. /\ authorised' \in {authorised, authorised \cup {<<decision, response.id>>}}
        /\ pc = "decided"
    BY <1>1 DEF BatchBegins
  <2>2. decision \notin Spent
    BY <2>1 DEF OnePlace
  <2>3. \A a \in authorised : a[1] # decision
    BY <2>2 DEF Spent
  <2> QED
    BY <2>1, <2>3 DEF OneBatchPerDecision
<1>2. CASE UNCHANGED authorised
  BY <1>2 DEF OneBatchPerDecision
<1>3. CASE LoopStep /\ ~BatchBegins
  BY <1>2, <1>3
     DEF LoopStep, RoundBegins, RoundsExceeded, StreamRetry, StreamFails, StreamDone,
         FinalInvalid, FinalHalted, FinalDone, Decide, Pause, DecisionArrives,
         WaitFails, Rejected, AwaitDecision, AnswerWithoutRun, Invoke,
         AnswerAfterRun, Answered, Handoff, HookFails, BatchDone, Fails, Done, End
<1>4. CASE Environment \/ UNCHANGED vars
  BY <1>2, <1>4
     DEF Environment, StartTurn, ResumeTurn, Start, HumanDecides, RoundAborted,
         RoundHalted, StreamToken, TimerFires, Enqueue, Abandon, Crash, Fails, End,
         vars
<1> QED
  BY <1>1, <1>3, <1>4 DEF Next

(***************************************************************************)
(* Checkpoints                                                             *)
(***************************************************************************)
\* Every step keeps the pause in progress on disk.
LEMMA PauseKept ==
    ASSUME TypeOK, Control, PauseIsCheckpointed, [Next]_vars
    PROVE  PauseIsCheckpointed'
<1>1. CASE pc' \notin {"paused", "waiting"}
  BY <1>1 DEF PauseIsCheckpointed
<1>2. CASE Pause
  <2>1. /\ files' = PausedFiles /\ shown' = shown \cup {Event}
        /\ UNCHANGED <<round, history, response>>
    BY <1>2 DEF Pause, replyVars
  <2>2. Event' = Event
    BY <2>1 DEF Event
  <2> QED
    BY <2>1, <2>2 DEF PausedFiles, PauseIsCheckpointed, TypeOK
<1>3. ASSUME pc \in {"paused", "waiting"},
             UNCHANGED <<round, history, response, files, shown>>
      PROVE  PauseIsCheckpointed'
  BY <1>3 DEF PauseIsCheckpointed, Event
<1>4. CASE \E w \in Waits : AwaitDecision(w)
  BY <1>3, <1>4 DEF AwaitDecision, humanVars, replyVars
<1>5. CASE TimerFires \/ Enqueue \/ UNCHANGED vars
           \/ \E d \in Decisions, event \in shown, kind \in Kinds :
                  HumanDecides(d, event, kind)
  <2>1. UNCHANGED <<pc, round, history, response, files, shown>>
    BY <1>5 DEF TimerFires, Enqueue, HumanDecides, vars, humanVars, replyVars
  <2> QED
    BY <1>1, <1>3, <2>1
<1>6. CASE GivesUp \/ Completes \/ GoesOn \/ StartTurn
           \/ \E d \in Decisions, kind \in {"approve", "reject"} :
                  ResumeTurn(d, kind)
  <2>1. pc' \in {"idle", "round"}
    BY <1>6 DEF GivesUp, Completes, GoesOn, StartTurn, ResumeTurn, Done, End,
                Start, FinalInvalid, BatchDone, NextRound
  <2> QED
    BY <1>1, <2>1
<1>7. CASE RoundBegins \/ StreamToken \/ StreamRetry
           \/ \E calls \in Batches : StreamDone(calls)
  BY <1>1, <1>7 DEF RoundBegins, StreamToken, StreamRetry, StreamDone
<1>8. CASE Decide \/ DecisionArrives \/ BatchBegins
           \/ AnswerWithoutRun \/ AnswerAfterRun \/ Invoke
  BY <1>1, <1>8 DEF Decide, DecisionArrives, BatchBegins, AnswerWithoutRun,
                    AnswerAfterRun, Answered, Invoke, InTools
<1> QED
  BY <1>2, <1>4, <1>5, <1>6, <1>7, <1>8, Steps

\* The file of a round is written: a pause that load() finds afterwards is in
\* that round, or was found before.
LEMMA WrittenOverPause ==
    ASSUME TypeOK, NEW q \in Rounds, NEW m \in Seq(Messages),
           NEW e \in Events \cup {None},
           files' = [files EXCEPT ![q] = [messages |-> m, waiting |-> e]],
           NEW r \in Rounds, Top(r)', files'[r].waiting # None
    PROVE  /\ r # q => q <= r /\ Top(r) /\ files[r].waiting # None
           /\ r = q => e # None
<1>1. /\ files'[q] # None /\ files'[q].waiting = e
      /\ \A p \in Rounds \ {q} : files'[p] = files[p]
  BY FileTypes
<1> QED
  BY <1>1 DEF Top

\* Every step keeps a pause on disk that of the turn that runs.
LEMMA RestoredKept ==
    ASSUME TypeOK, Control, Restored, [Next]_vars
    PROVE  Restored'
<1>0. TypeOK'
  BY TypeKept
<1>1. CASE GivesUp
  BY <1>1 DEF GivesUp, End, Restored
<1>2. CASE Completes
  <2>1. PICK m \in Seq(Messages) :
            /\ files' = [files EXCEPT ![round] = [messages |-> m, waiting |-> None]]
            /\ pc # "idle" /\ pc' = "idle"
    BY <1>2 DEF Completes, Done, Save, End
  <2>2. ASSUME NEW r \in Rounds, Top(r)', files'[r].waiting # None PROVE FALSE
    <3>1. round \in Rounds
      BY DEF TypeOK
    <3>2. r # round /\ Top(r) /\ files[r].waiting # None
      BY <2>1, <2>2, <3>1, WrittenOverPause
    <3> QED
      BY <2>1, <3>2 DEF Restored
  <2> QED
    BY <2>1, <2>2 DEF Restored
<1>3. CASE GoesOn
  <2>1. NextRound /\ pc # "idle" /\ round < MaxRounds
    BY <1>3 DEF GoesOn, FinalInvalid, BatchDone, Control
  <2>2. /\ round' = round + 1 /\ round' \in Rounds /\ round \in Nat
        /\ pc' = "round" /\ history' \in Seq(Messages)
        /\ files' = [files EXCEPT ![round'] = [messages |-> history', waiting |-> None]]
        /\ UNCHANGED <<turn, finished>>
    BY <1>0, <2>1 DEF NextRound, Save, TypeOK, Rounds, turnVars
  <2>3. ASSUME NEW r \in Rounds, Top(r)', files'[r].waiting # None PROVE FALSE
    <3>1. r # round' /\ round' <= r /\ Top(r) /\ files[r].waiting # None
      <4> DEFINE q == round'
                 m == history'
      <4>1. q \in Rounds /\ m \in Seq(Messages)
            /\ files' = [files EXCEPT ![q] = [messages |-> m, waiting |-> None]]
        BY <2>2
      <4> HIDE DEF q, m
      <4>2. r # q /\ q <= r /\ Top(r) /\ files[r].waiting # None
        BY <2>3, <4>1, WrittenOverPause
      <4> QED
        BY <4>2 DEF q
    <3>2. round = r
      BY <2>1, <3>1 DEF Restored
    <3> QED
      BY <2>2, <3>1, <3>2
  <2>4. pc # "idle" /\ restored' = restored
    BY <2>1 DEF NextRound, turnVars
  <2> QED
    BY <2>2, <2>3, <2>4 DEF Restored
<1>4. ASSUME NEW resumed, Start(resumed)
      PROVE  Restored'
  <2>1. /\ pc = "idle" /\ pc' = "round" /\ UNCHANGED <<files, finished>>
        /\ turn' \in Nat
    BY <1>0, <1>4 DEF Start, TypeOK
  <2>2. ASSUME NEW r \in Rounds, Top(r)', files'[r].waiting # None
        PROVE  round' = r /\ ~finished
    <3>1. Top(r) /\ files[r].waiting # None
      BY <2>1, <2>2 DEF Top
    <3>2. Latest = r /\ r # None
      BY <3>1, LatestIsTop, LoopAssumption
    <3>3. LatestWaiting
      BY <3>1, <3>2 DEF LatestWaiting
    <3> QED
      BY <1>4, <2>1, <3>1, <3>2, <3>3 DEF Start, Restored
  <2>3. ASSUME finished PROVE ~restored'
    <3>1. ~LatestWaiting
      BY <2>1, <2>3, LatestIsFile DEF Restored
    <3> QED
      BY <1>4, <3>1 DEF Start
  <2> QED
    BY <2>1, <2>2, <2>3 DEF Restored
<1>5. CASE StartTurn \/ \E d \in Decisions, kind \in {"approve", "reject"} :
                            ResumeTurn(d, kind)
  BY <1>4, <1>5 DEF StartTurn, ResumeTurn
<1>6. CASE Pause
  <2>1. /\ files' = [files EXCEPT ![round] = [messages |-> history, waiting |-> Event]]
        /\ pc # "idle" /\ pc' # "idle"
        /\ UNCHANGED <<round, restored, finished>>
    BY <1>6 DEF Pause, PausedFiles, turnVars
  <2>2. round \in Rounds /\ history \in Seq(Messages) /\ Event \in Events
    BY MessageTypes DEF TypeOK, Event, Events
  <2>3. ASSUME NEW r \in Rounds, Top(r)', files'[r].waiting # None
        PROVE  round = r
    <3>1. r # round => Top(r) /\ files[r].waiting # None
      BY <2>1, <2>2, <2>3, WrittenOverPause
    <3> QED
      BY <2>1, <3>1 DEF Restored
  <2> QED
    BY <2>1, <2>3 DEF Restored
<1>7. CASE /\ UNCHANGED <<files, round, restored, finished>>
           /\ pc = "idle" <=> pc' = "idle"
  <2>1. \A r \in Rounds : Top(r)' => Top(r)
    BY <1>7 DEF Top
  <2> QED
    BY <1>7, <2>1 DEF Restored
<1>8. CASE RoundBegins \/ StreamToken \/ StreamRetry
           \/ \E calls \in Batches : StreamDone(calls)
  BY <1>7, <1>8 DEF RoundBegins, StreamToken, StreamRetry, StreamDone, turnVars
<1>9. CASE Decide \/ DecisionArrives \/ BatchBegins \/ Invoke
           \/ AnswerWithoutRun \/ AnswerAfterRun
           \/ \E w \in Waits : AwaitDecision(w)
  BY <1>7, <1>9 DEF Decide, DecisionArrives, BatchBegins, Invoke, AnswerWithoutRun,
                    AnswerAfterRun, Answered, InTools, AwaitDecision, turnVars
<1>10. CASE TimerFires \/ Enqueue \/ UNCHANGED vars
            \/ \E d \in Decisions, event \in shown, kind \in Kinds :
                   HumanDecides(d, event, kind)
  BY <1>7, <1>10 DEF TimerFires, Enqueue, HumanDecides, vars, turnVars
<1> QED
  BY <1>1, <1>2, <1>3, <1>5, <1>6, <1>8, <1>9, <1>10, Steps

(***************************************************************************)
(* The theorems                                                            *)
(***************************************************************************)
\* Nothing has happened yet: the inductive invariant holds initially.
LEMMA InitIInv == Init => IInv
<1> SUFFICES ASSUME Init PROVE IInv
  OBVIOUS
<1> USE LoopAssumption
<1>1. Gate!TypeOK
  BY DEF Init, Gate!Init, Gate!TypeOK, Gate!WaitStates
<1>2. TypeOK
  <2>1. /\ history \in Seq(Messages) /\ caller \in Seq(Messages)
        /\ response \in [id : Nat, calls : Batches \cup {<<>>}]
        /\ round \in Rounds
    BY EmptySeq DEF Init, NoResponse, Rounds
  <2> QED
    BY <1>1, <2>1 DEF Init, TypeOK, Pcs
<1>3. Control /\ PauseIsCheckpointed /\ OneBatchPerDecision
  BY DEF Init, Control, PauseIsCheckpointed, OneBatchPerDecision
<1>4. Conversation
  BY EmptySeq DEF Init, Conversation, Kept, Ongoing, Sound
<1>5. OnePlace
  BY DEF Init, Gate!Init, OnePlace, Spent
<1>6. Restored
  BY DEF Init, Restored, Top
<1> QED
  BY <1>2, <1>3, <1>4, <1>5, <1>6 DEF IInv

\* Every step of the loop, of the application, of the human and of the timers,
\* a crash included, keeps the inductive invariant.
THEOREM Invariance == Spec => []IInv
<1>1. Init => IInv
  BY InitIInv
<1>2. IInv /\ [Next]_vars => IInv'
  BY TypeKept, ControlKept, ConversationKept, OnePlaceKept, OneBatchKept,
     PauseKept, RestoredKept DEF IInv
<1> QED
  BY <1>1, <1>2, PTL DEF Spec

\* Every variable keeps its type; in particular a call is invoked at most
\* maxAttempts times, and a round above the last never begins.
THEOREM TypeCorrect == Spec => []TypeOK
<1>1. IInv => TypeOK
  BY DEF IInv
<1> QED
  BY <1>1, Invariance, PTL

\* Whenever the model is called, each tool call of the whole conversation is
\* followed by the results of its batch, once each and in order, but for the
\* batches that a rejection, a handoff or a restored pause cut short, and each
\* result stands behind its call or a summary (loop.ts).
THEOREM CallsAnswered == Spec => []ToolCallsAnswered
<1>1. IInv => ToolCallsAnswered
  <2> SUFFICES ASSUME IInv, pc \in {"round", "stream"} PROVE ToolCallsAnswered
    BY DEF ToolCallsAnswered
  <2>1. Sound(history, cut, 0)
    BY DEF IInv, Conversation, Ongoing
  <2>2. DOMAIN history = 1..Len(history) /\ \A i \in 1..Len(history) : i # 0
    BY LenProperties DEF IInv, TypeOK
  <2> QED
    BY <2>1, <2>2 DEF Sound, ToolCallsAnswered
<1> QED
  BY <1>1, Invariance, PTL

\* However often a human answers, and however the turns, waits and timers
\* interleave with the answers, a decision authorises at most one batch.
THEOREM OneBatch == Spec => []OneBatchPerDecision
<1>1. IInv => OneBatchPerDecision
  BY DEF IInv
<1> QED
  BY <1>1, Invariance, PTL

\* A pause is on disk before a human sees it, and no pause of a turn that is
\* done is restored in the next one's place.
THEOREM PausesSaved == Spec => []PausesOnDisk
<1>1. IInv => PausesOnDisk
  BY DEF IInv, Restored, PausesOnDisk, DoneTurnIsOver
<1> QED
  BY <1>1, Invariance, PTL

=============================================================================

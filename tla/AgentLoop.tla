----------------------------- MODULE AgentLoop -----------------------------
(***************************************************************************)
(* runAgentLoop, src/agent/loop.ts, for one thread: a sequence of turns,   *)
(* each a run of the generator, over the checkpoint files of the thread    *)
(* (JsonFileCheckpointer), the provider stream (consumeStream), the tools  *)
(* (executeToolCall), the queue of /btw texts and the HitlGate, which is   *)
(* module HitlGate with one resume key per round.                          *)
(*                                                                         *)
(* The application around the loop is the environment: it starts a turn    *)
(* with the history of the last finished one and a new user message, may   *)
(* stop consuming events, may crash and restart, and answers the hitl      *)
(* events it was shown, at any time, once or more.                         *)
(***************************************************************************)
EXTENDS Integers, Sequences, FiniteSets

CONSTANTS MaxRounds,         \* LoopOptions.maxRounds
          MaxAttempts,       \* RetryPolicy.maxAttempts
          Tools, Sensitive,  \* tool names, and those that need approval
          Batches,           \* the tool-call lists a response may carry
          Waits, Decisions, None,
          MaxTurns, MaxBtw,  \* bounds on the environment
          CompactAbove       \* this many messages never fill the window

Rounds == 0..MaxRounds
Messages == [role : {"user", "system"}, id : Nat]
            \cup [role : {"assistant"}, id : Nat, calls : Batches]
            \cup [role : {"tool"}, id : Nat, call : Nat]
Events == [key : Rounds, id : Nat]
Kinds == {"approve", "approve_session", "reject"}   \* what a decision says
Checkpoints == [messages : Seq(Messages), waiting : Events \cup {None}]

ASSUME LoopAssumption ==
    /\ MaxRounds \in Nat \ {0} /\ MaxAttempts \in Nat \ {0}
    /\ MaxTurns \in Nat /\ MaxBtw \in Nat /\ CompactAbove \in Nat
    /\ Sensitive \subseteq Tools
    /\ Batches \subseteq Seq(Tools)
    /\ None \notin Rounds \cup Waits \cup Decisions /\ None \notin Kinds
    /\ None \notin Events \cup Checkpoints

VARIABLES pc,          \* where the generator is; "idle": no turn is running
          round, history, response, pendingDecision, decision,
          attempt,     \* consumeStream: the current attempt
          emitted,     \* and the attempts that yielded a token
          call, tries, \* index in response.calls, invocations of it so far
          myWait,      \* the wait() call the generator awaits
          files,       \* the thread's checkpoint files, by round
          btw, texts,  \* texts in the BtwQueue; enqueued so far
          turn, caller, \* turns started; the conversation the application keeps
          \* The human: what was seen and answered.
          shown,       \* the hitl events shown
          dKind,       \* what the decision says
          \* History variables.
          dEvent,      \* the hitl event a decision answers
          finished,    \* the last turn ended with a done event
          restored,    \* the turn started from a pause on disk
          cut,         \* responses kept in a conversation without the results
                       \* of all their calls
          responses,   \* number of responses so far, their identities
          authorised,  \* <<decision, response id>>: batches run under a decision
          \* The gate.
          gates, pending, sessionApproved, disposed,
          wState, wKey, wDecision, timer, dKey, overlapped, cleared

Gate == INSTANCE HitlGate WITH Keys <- Rounds

gateVars == <<gates, pending, sessionApproved, disposed, wState, wKey,
              wDecision, timer, dKey, overlapped, cleared>>
streamVars == <<attempt, emitted>>
toolVars == <<call, tries>>
replyVars == <<response, responses>>
decisionVars == <<pendingDecision, decision, myWait>>
humanVars == <<shown, dEvent, dKind>>
turnVars == <<turn, caller, restored, cut, finished, texts>>
vars == <<pc, round, history, files, btw, authorised, replyVars, decisionVars,
          streamVars, toolVars, humanVars, turnVars, gateVars>>

NoResponse == [id |-> 0, calls |-> <<>>]
User(n) == [role |-> "user", id |-> n]
Note == User(0)      \* a rejection, a correction or a /btw text
Summary == [role |-> "system", id |-> 0]
Assistant(r) == [role |-> "assistant", id |-> r.id, calls |-> r.calls]
Result(r, i) == [role |-> "tool", id |-> r.id, call |-> i]

(***************************************************************************)
(* JsonFileCheckpointer: save() renames a complete file over the one of    *)
(* its round, load() reads the file with the highest round.                *)
(***************************************************************************)
Save(r, messages, waiting) ==
    files' = [files EXCEPT ![r] = [messages |-> messages, waiting |-> waiting]]

Latest ==
    LET present == {r \in Rounds : files[r] # None}
    IN IF present = {} THEN None
       ELSE CHOOSE r \in present : \A q \in present : q <= r

LatestWaiting == Latest # None /\ files[Latest].waiting # None

Init ==
    /\ pc = "idle" /\ round = 0 /\ history = <<>>
    /\ response = NoResponse /\ responses = 0
    /\ pendingDecision = None /\ decision = None /\ myWait = None
    /\ attempt = 0 /\ emitted = {} /\ call = 0 /\ tries = 0
    /\ files = [r \in Rounds |-> None]
    /\ btw = 0 /\ texts = 0 /\ turn = 0
    /\ caller = <<>> /\ finished = FALSE /\ restored = FALSE
    /\ cut = {}
    /\ shown = {} /\ authorised = {}
    /\ dEvent = [d \in Decisions |-> None]
    /\ dKind = [d \in Decisions |-> None]
    /\ Gate!Init

(***************************************************************************)
(* Entering the generator.  Only a checkpoint that waits for a human is    *)
(* restored; it then replaces the caller's messages.                       *)
(***************************************************************************)
Start(resumed) ==
    /\ pc = "idle" /\ turn < MaxTurns
    /\ turn' = turn + 1
    /\ history' = IF LatestWaiting THEN files[Latest].messages
                             ELSE Append(caller, User(turn'))
    /\ round' = IF LatestWaiting THEN Latest ELSE 0
    /\ restored' = LatestWaiting
    /\ cut' = IF LatestWaiting THEN cut \cup {files[Latest].waiting.id} ELSE cut
    /\ pendingDecision' = resumed
    /\ pc' = "round"
    /\ UNCHANGED <<decision, myWait, files, btw, texts, caller, finished,
                   authorised, replyVars, streamVars, toolVars, shown, gateVars>>

StartTurn == Start(None) /\ UNCHANGED <<dEvent, dKind>>

\* Decisions, like waits, are used in order.
Fresh(d) == dKind[d] = None /\ \A e \in Decisions : dKind[e] = None => d <= e

\* After a restart, or a run it abandoned, the application asks about the
\* requests it finds in the checkpoint and passes the answer in.
ResumeTurn(d, kind) ==
    /\ LatestWaiting /\ Fresh(d)
    /\ Start(d)
    /\ dKind' = [dKind EXCEPT ![d] = kind]
    /\ dEvent' = [dEvent EXCEPT ![d] = files[Latest].waiting]

\* The generator is finished and its local state gone; a done event hands its
\* history to the caller.
End(conversation, done) ==
    /\ pc' = "idle" /\ caller' = conversation /\ finished' = done
    /\ round' = 0 /\ history' = <<>> /\ restored' = FALSE
    /\ response' = NoResponse
    /\ pendingDecision' = None /\ decision' = None /\ myWait' = None
    /\ attempt' = 0 /\ emitted' = {} /\ call' = 0 /\ tries' = 0
    /\ UNCHANGED <<turn, responses, authorised, texts>>

\* left: the responses that leave calls unanswered in the messages.
Done(messages, left) ==
    /\ Save(round, messages, None)
    /\ End(messages, TRUE)
    /\ cut' = cut \cup left
    /\ UNCHANGED <<btw, humanVars, gateVars>>

Fails == End(caller, FALSE) /\ UNCHANGED <<files, cut, humanVars, gateVars>>

(***************************************************************************)
(* The top of a round: abort check, then drain the /btw texts, input       *)
(* guardrails, beforeRound hooks and compaction, any of which may end the  *)
(* turn.  SummarizationMiddleware.maybeCompact (compactMessages) replaces  *)
(* the history by a summary and its most recent messages, at least the     *)
(* last one, as many as fit a budget of tokens: it may cut anywhere.       *)
(***************************************************************************)
Drained == history \o [i \in 1..btw |-> Note]
Compacted(h) == {<<Summary>> \o SubSeq(h, k, Len(h)) : k \in 1..Len(h)}

RoundAborted ==
    /\ pc = "round" /\ round < MaxRounds
    /\ Fails
    /\ UNCHANGED btw

RoundHalted ==
    /\ pc = "round" /\ round < MaxRounds
    /\ btw' = 0
    /\ Fails

RoundBegins ==
    /\ pc = "round" /\ round < MaxRounds
    /\ \/ history' = Drained
       \/ Len(Drained) > CompactAbove /\ history' \in Compacted(Drained)
    /\ btw' = 0
    /\ pc' = "stream" /\ attempt' = 1 /\ emitted' = {}
    /\ UNCHANGED <<round, files, authorised, replyVars, decisionVars, toolVars,
                   humanVars, turnVars, gateVars>>

RoundsExceeded ==
    /\ pc = "round" /\ round >= MaxRounds
    /\ Fails
    /\ UNCHANGED btw

(***************************************************************************)
(* consumeStream: an attempt emits tokens, ends without a done event,      *)
(* throws, or completes.  Only an attempt that emitted nothing is retried. *)
(***************************************************************************)
StreamToken ==
    /\ pc = "stream"
    /\ emitted' = emitted \cup {attempt}
    /\ UNCHANGED <<pc, round, history, files, btw, authorised, replyVars,
                   decisionVars, attempt, toolVars, humanVars, turnVars,
                   gateVars>>

MayRetry == attempt < MaxAttempts /\ attempt \notin emitted

StreamRetry ==
    /\ pc = "stream" /\ MayRetry
    /\ attempt' = attempt + 1
    /\ UNCHANGED <<pc, round, history, files, btw, authorised, replyVars,
                   decisionVars, emitted, toolVars, humanVars, turnVars,
                   gateVars>>

\* Not retryable, out of attempts, or after partial output.
StreamFails == pc = "stream" /\ Fails /\ UNCHANGED btw

StreamDone(calls) ==
    /\ pc = "stream"
    /\ responses' = responses + 1
    /\ response' = [id |-> responses', calls |-> calls]
    /\ history' = Append(history, Assistant(response'))
    /\ pc' = "response"
    /\ UNCHANGED <<round, files, btw, authorised, decisionVars, streamVars,
                   toolVars, humanVars, turnVars, gateVars>>

(***************************************************************************)
(* A response without tool calls: a correction round if it does not match  *)
(* outputSchema, an error if an output guardrail halts, else the end.      *)
(***************************************************************************)
StreamOver == attempt' = 0 /\ emitted' = {}

NextRound ==
    /\ round' = round + 1
    /\ pc' = "round"
    /\ response' = NoResponse
    /\ Save(round', history', None)
    /\ StreamOver
    /\ UNCHANGED <<btw, responses, humanVars, turnVars, gateVars>>

FinalInvalid ==
    /\ pc = "response" /\ response.calls = <<>>
    /\ history' = Append(history, Note)
    /\ NextRound
    /\ UNCHANGED <<authorised, decisionVars, toolVars>>

FinalHalted ==
    pc = "response" /\ response.calls = <<>> /\ Fails /\ UNCHANGED btw

FinalDone ==
    pc = "response" /\ response.calls = <<>> /\ Done(history, {})

(***************************************************************************)
(* A response with tool calls.  A decision passed to the turn is consumed  *)
(* by its first batch; otherwise a sensitive call pauses the run: the      *)
(* checkpoint is written, the hitl event yielded, then wait() is called.   *)
(***************************************************************************)
Called == {response.calls[i] : i \in DOMAIN response.calls}
Event == [key |-> round, id |-> response.id]

MutKeptDecision == pendingDecision
DecisionAfterUse == None

Decide ==
    /\ pc = "response" /\ response.calls # <<>>
    /\ pendingDecision # None
        \/ ~Gate!ShouldPause(Called, Sensitive, "auto_edit")
    /\ decision' = pendingDecision
    /\ pendingDecision' = DecisionAfterUse
    /\ pc' = "decided"
    /\ StreamOver
    /\ UNCHANGED <<round, history, files, btw, authorised, replyVars, myWait,
                   toolVars, humanVars, turnVars, gateVars>>

\* A pause that yields the hitl event before it saves.
MutPausedFiles == files
PausedFiles ==
    [files EXCEPT ![round] = [messages |-> history, waiting |-> Event]]

Pause ==
    /\ pc = "response" /\ response.calls # <<>>
    /\ pendingDecision = None
    /\ Gate!ShouldPause(Called, Sensitive, "auto_edit")
    /\ files' = PausedFiles
    /\ shown' = shown \cup {Event}
    /\ pc' = "paused"
    /\ StreamOver
    /\ UNCHANGED <<round, history, btw, authorised, replyVars, decisionVars,
                   toolVars, dEvent, dKind, turnVars, gateVars>>

MutHasTimeout == FALSE
HasTimeout == TRUE

AwaitDecision(w) ==
    /\ pc = "paused"
    /\ \A v \in Waits : wState[v] = "unused" => w <= v
    /\ Gate!Wait(w, round, HasTimeout)
    /\ myWait' = w
    /\ pc' = "waiting"
    /\ UNCHANGED <<round, history, files, btw, authorised, replyVars,
                   pendingDecision, decision, streamVars, toolVars, humanVars,
                   turnVars>>

DecisionArrives ==
    /\ pc = "waiting" /\ wState[myWait] = "decided"
    /\ decision' = wDecision[myWait]
    /\ myWait' = None
    /\ pc' = "decided"
    /\ UNCHANGED <<round, history, files, btw, authorised, replyVars,
                   pendingDecision, streamVars, toolVars, humanVars, turnVars,
                   gateVars>>

\* wait() rejects and the error leaves the generator.
WaitFails ==
    /\ pc = "waiting" /\ wState[myWait] \in {"timed_out", "disposed"}
    /\ Fails
    /\ UNCHANGED btw

Refused == decision # None /\ dKind[decision] = "reject"

\* A rejection that leaves the pause on disk.
MutRejected ==
    /\ pc = "decided" /\ Refused
    /\ End(Append(history, Note), TRUE)
    /\ cut' = cut \cup {response.id}
    /\ UNCHANGED <<files, btw, humanVars, gateVars>>

\* The calls stay in the conversation, without results.
Rejected ==
    /\ pc = "decided" /\ Refused
    /\ Done(Append(history, Note), {response.id})

BatchBegins ==
    /\ pc = "decided" /\ ~Refused
    /\ authorised' = IF decision = None THEN authorised
                     ELSE authorised \cup {<<decision, response.id>>}
    /\ call' = 1 /\ tries' = 0
    /\ pc' = "tools"
    /\ UNCHANGED <<round, history, files, btw, replyVars, decisionVars,
                   streamVars, humanVars, turnVars, gateVars>>

(***************************************************************************)
(* The tool loop: each call is answered without running (bad arguments,    *)
(* cancelled by beforeTool, blocked by a guardrail, unknown tool), or run, *)
(* with retries, and answered with its result or its error.                *)
(***************************************************************************)
InTools == pc = "tools" /\ call <= Len(response.calls)

\* A blocked call that skips its tool message.
MutAnsweredHistory == IF tries = 0 THEN history
                      ELSE Append(history, Result(response, call))
AnsweredHistory == Append(history, Result(response, call))

Answered ==
    /\ history' = AnsweredHistory
    /\ call' = call + 1 /\ tries' = 0
    /\ UNCHANGED <<pc, round, files, btw, authorised, replyVars, decisionVars,
                   streamVars, humanVars, turnVars, gateVars>>

AnswerWithoutRun == InTools /\ tries = 0 /\ Answered

MutMayInvoke == tries <= MaxAttempts
MayInvoke == tries < MaxAttempts

\* The first invocation, or the next after a retryable failure.
Invoke ==
    /\ InTools /\ MayInvoke
    /\ tries' = tries + 1
    /\ UNCHANGED <<pc, round, history, files, btw, authorised, replyVars,
                   decisionVars, streamVars, call, humanVars, turnVars,
                   gateVars>>

\* The last invocation returned, or failed for good, or afterTool failed.
AnswerAfterRun == InTools /\ tries > 0 /\ Answered

\* The tool threw HandoffSignal: its call is answered, the others are not.
Handoff ==
    /\ InTools /\ tries > 0
    /\ Done(Append(history, Result(response, call)),
            IF call < Len(response.calls) THEN {response.id} ELSE {})

\* beforeTool or afterRound throws.
HookFails == pc = "tools" /\ tries = 0 /\ Fails /\ UNCHANGED btw

BatchDone ==
    /\ pc = "tools" /\ call > Len(response.calls)
    /\ UNCHANGED <<history, authorised>>
    /\ NextRound
    /\ call' = 0 /\ decision' = None
    /\ UNCHANGED <<pendingDecision, myWait, tries>>

(***************************************************************************)
(* The environment                                                         *)
(***************************************************************************)

\* A human answers an event that was shown, perhaps answered before, perhaps
\* no longer waited for.
HumanDecides(d, event, kind) ==
    /\ event \in shown /\ Fresh(d)
    /\ dKind' = [dKind EXCEPT ![d] = kind]
    /\ dEvent' = [dEvent EXCEPT ![d] = event]
    /\ \E tools \in IF kind = "approve_session" THEN {Sensitive} ELSE {{}} :
           Gate!Resolve(d, event.key, tools)
    /\ UNCHANGED <<pc, round, history, files, btw, authorised, replyVars,
                   decisionVars, streamVars, toolVars, shown, turnVars>>

TimerFires ==
    /\ \E w \in Waits : Gate!Timeout(w)
    /\ UNCHANGED <<pc, round, history, files, btw, authorised, replyVars,
                   decisionVars, streamVars, toolVars, humanVars, turnVars>>

Enqueue ==
    /\ texts < MaxBtw
    /\ texts' = texts + 1 /\ btw' = btw + 1
    /\ UNCHANGED <<pc, round, history, files, authorised, replyVars,
                   decisionVars, streamVars, toolVars, humanVars, turn, caller,
                   restored, cut, finished, gateVars>>

\* The consumer stops iterating: the generator returns at the yield it is
\* suspended at.  While it awaits wait() it is not suspended at a yield.
Abandon ==
    /\ pc \notin {"idle", "waiting"}
    /\ Fails
    /\ UNCHANGED btw

\* The process dies and restarts: the files and what the application saved
\* remain, the gate and the queue are new.
Crash ==
    /\ pc # "idle"
    /\ End(caller, FALSE)
    /\ btw' = 0
    /\ gates' = [k \in Rounds |-> None] /\ pending' = [k \in Rounds |-> None]
    /\ sessionApproved' = {} /\ timer' = {}
    /\ wState' = [w \in Waits |-> "unused"] /\ wKey' = [w \in Waits |-> None]
    /\ wDecision' = [w \in Waits |-> None]
    /\ UNCHANGED <<files, cut, humanVars, disposed, dKey, overlapped, cleared>>

LoopStep ==
    \/ RoundBegins \/ RoundsExceeded
    \/ StreamRetry \/ StreamFails \/ \E calls \in Batches : StreamDone(calls)
    \/ FinalInvalid \/ FinalHalted \/ FinalDone
    \/ Decide \/ Pause \/ DecisionArrives \/ WaitFails \/ Rejected
    \/ \E w \in Waits : AwaitDecision(w)
    \/ BatchBegins \/ AnswerWithoutRun \/ Invoke \/ AnswerAfterRun
    \/ Handoff \/ HookFails \/ BatchDone

Environment ==
    \/ StartTurn
    \/ \E d \in Decisions, kind \in {"approve", "reject"} : ResumeTurn(d, kind)
    \/ \E d \in Decisions, event \in shown, kind \in Kinds :
          HumanDecides(d, event, kind)
    \/ RoundAborted \/ RoundHalted \/ StreamToken
    \/ TimerFires \/ Enqueue \/ Abandon \/ Crash

Next == LoopStep \/ Environment

Spec == Init /\ [][Next]_vars

\* The provider and the tools answer, the consumer keeps iterating, timers
\* fire.
FairSpec == Spec /\ WF_vars(LoopStep) /\ WF_vars(TimerFires)

-----------------------------------------------------------------------------
Pcs == {"idle", "round", "stream", "response", "paused", "waiting", "decided",
        "tools"}

\* In particular no call is invoked more than maxAttempts times.
TypeOK ==
    /\ pc \in Pcs
    /\ round \in Rounds
    /\ history \in Seq(Messages) /\ caller \in Seq(Messages)
    /\ restored \in BOOLEAN /\ cut \subseteq Nat /\ responses \in Nat
    /\ response \in [id : Nat, calls : Batches \cup {<<>>}]
    /\ files \in [Rounds -> Checkpoints \cup {None}]
    /\ shown \subseteq Events
    /\ dKind \in [Decisions -> Kinds \cup {None}]
    /\ dEvent \in [Decisions -> Events \cup {None}]
    /\ authorised \subseteq Decisions \X Nat
    /\ attempt \in 0..MaxAttempts /\ emitted \subseteq 1..MaxAttempts
    /\ call \in Nat /\ tries \in 0..MaxAttempts
    /\ pendingDecision \in Decisions \cup {None}
    /\ decision \in Decisions \cup {None}
    /\ myWait \in Waits \cup {None}
    /\ turn \in 0..MaxTurns /\ btw \in 0..texts /\ texts \in 0..MaxBtw
    /\ finished \in BOOLEAN
    /\ Gate!TypeOK

\* The calls of message i are directly followed by their results, each once and
\* in order.
BatchAnswered(h, i) ==
    \A c \in DOMAIN h[i].calls :
        i + c <= Len(h) /\ h[i + c] = Result(h[i], c)

\* The result at i stands behind the assistant message of its call or the result
\* of the call before; or behind a summary that took them.
ResultFollows(h, i) ==
    /\ i > 1
    /\ \/ h[i - 1].role = "system"
       \/ IF h[i].call = 1 THEN h[i - 1].role = "assistant" /\ h[i - 1].id = h[i].id
          ELSE h[i - 1] = Result(h[i], h[i].call - 1)

\* Whenever the model is called, every tool call of the conversation, this
\* turn's and the earlier ones', is directly followed by the results of its whole
\* batch, once each and in order, on all the paths a call can take; and no result
\* stands elsewhere.  Three ways to leave calls unanswered are in the code, and
\* recorded in cut: a rejection, a handoff before the last call, a restored
\* pause.  One way to leave results without their call is too: compaction.
ToolCallsAnswered ==
    pc \in {"round", "stream"} =>
        \A i \in DOMAIN history :
            /\ history[i].role = "assistant" /\ history[i].id \notin cut =>
                   BatchAnswered(history, i)
            /\ history[i].role = "tool" => ResultFollows(history, i)

\* A decision, whether it came through the gate or was passed to a turn,
\* authorises one batch and no other.
OneBatchPerDecision ==
    \A a, b \in authorised : a[1] = b[1] => a[2] = b[2]

\* The turn after one that ended with a done event delivers its user message
\* to the model, and no pause that was left on disk in its place.
DoneTurnIsOver ==
    finished /\ pc # "idle" => ~restored

\* A human is asked only about a batch that is already on disk: the event of
\* the pause in progress can be found again in the checkpoint of its round.
PauseIsCheckpointed ==
    pc \in {"paused", "waiting"} =>
        /\ Event \in shown
        /\ files[round] = [messages |-> history, waiting |-> Event]

\* The pause on disk is the pause in progress, no more and no less: it is
\* written before it is shown, and overwritten when the turn is over
\* (loop.ts:326, 337, 344).
PausesOnDisk == PauseIsCheckpointed /\ DoneTurnIsOver

\* Each turn comes to an end: a waiting one is answered or times out.
EveryTurnEnds == (pc # "idle") ~> (pc = "idle")

\* README.md: "Agent resumes with tool execution", "Execute this tool call
\* once".  The batch that runs under a decision is the batch the human saw.
ApprovedBatchRuns == \A a \in authorised : a[2] = dEvent[a[1]].id

\* README.md: "Gates survive process restarts via checkpoint serialization".
\* While a run is paused, load() finds its pause.
PausedRunSurvives ==
    pc = "waiting" => LatestWaiting /\ files[Latest].waiting = Event

=============================================================================

----------------------------- MODULE ReactAgent -----------------------------
(***************************************************************************)
(* createAgent() of src/graph/create-agent.ts: a graph of two nodes, agent *)
(* and tools, that take turns until the model asks for no more tools, and  *)
(* whose supersteps StateGraph runs and limits.                            *)
(*                                                                         *)
(* The messages channel appends, and both nodes return the whole history   *)
(* they were given plus their own messages: it is doubled at each step.    *)
(* A message is [role, ids]: the tool calls an answer asks for, or the one *)
(* a tool message answers.                                                 *)
(***************************************************************************)
EXTENDS Naturals, Sequences, SequencesExt

CONSTANTS CallIds,   \* tool calls of one response, in order
          MaxIterations,
          Policies   \* toolPolicy, with a hitlGate

ReactAssumption == MaxIterations \in Nat \ {0} /\ CallIds \in Seq(Nat)

VARIABLES policy, parallel,
          at,        \* the node to run next, or how the run stopped
          state,     \* [messages, toolCalls, toolResults, isDone]
          executing, \* calls of this tools step: not started, running, ended
          ended,     \* the order they ended in
          supersteps

rvars == <<policy, parallel, at, state, executing, ended, supersteps>>

User == [role |-> "user", ids |-> <<>>]
Answer(calls) == [role |-> "assistant", ids |-> calls]
ToolMessage(id) == [role |-> "tool", ids |-> <<id>>]
Ids == ToSet(CallIds)

RInit ==
    /\ policy \in Policies
    /\ parallel \in BOOLEAN
    /\ at = "agent"
    /\ state = [messages |-> <<User>>, toolCalls |-> <<>>, toolResults |-> <<>>, isDone |-> FALSE]
    /\ executing = [id \in Ids |-> "no"]
    /\ ended = <<>>
    /\ supersteps = 0

\* append(): what a node returns is added to what is there.
Appended(more) == state.messages \o (state.messages \o more)

Step(next) ==
    /\ supersteps' = supersteps + 1
    /\ at' = IF supersteps' = MaxIterations /\ next # "end" THEN "limit" ELSE next

\* agentRouter
Route(calls, isDone) == IF calls # <<>> /\ ~isDone THEN "tools" ELSE "end"

AgentNode(calls) ==
    /\ at = "agent"
    /\ state' = [state EXCEPT !.messages = Appended(<<Answer(calls)>>),
                              !.toolCalls = calls, !.isDone = calls = <<>>]
    /\ Step(Route(calls, calls = <<>>))
    /\ executing' = [id \in Ids |-> "no"]
    /\ ended' = <<>>
    /\ UNCHANGED <<policy, parallel>>

\* The stream fails, is aborted or ends without a response: the node throws.
AgentFails ==
    /\ at = "agent" /\ at' = "failed"
    /\ UNCHANGED <<policy, parallel, state, executing, ended, supersteps>>

\* shouldPause: the gate is asked again whenever the node is run.
Pauses == policy = "suggest"

Interrupt ==
    /\ at = "tools" /\ Pauses /\ ended = <<>>
    /\ at' = "interrupted"
    /\ UNCHANGED <<policy, parallel, state, executing, ended, supersteps>>

\* resume(): the interrupted node runs again, and throws again.
Resume ==
    /\ at = "interrupted"
    /\ at' = "tools"
    /\ UNCHANGED <<policy, parallel, state, executing, ended, supersteps>>

\* executeOne: one call after the other, or all at once.
Invoke(i) ==
    LET calls == state.toolCalls
    IN /\ at = "tools" /\ ~Pauses
       /\ i \in DOMAIN calls /\ executing[calls[i]] = "no"
       /\ parallel \/ \A j \in 1 .. i - 1 : executing[calls[j]] = "ended"
       /\ executing' = [executing EXCEPT ![calls[i]] = "running"]
       /\ UNCHANGED <<policy, parallel, at, state, ended, supersteps>>

\* Unknown tools, bad arguments and exceptions end with a text as well.
InvokeEnds(id) ==
    /\ executing[id] = "running"
    /\ executing' = [executing EXCEPT ![id] = "ended"]
    /\ ended' = Append(ended, id)
    /\ UNCHANGED <<policy, parallel, at, state, supersteps>>

\* Promise.all: the results come in the order of the calls.
MutResults(calls) == ended
Results(calls) == calls

ToolsNode ==
    LET calls == state.toolCalls
    IN /\ at = "tools" /\ ~Pauses
       /\ \A i \in DOMAIN calls : executing[calls[i]] = "ended"
       /\ state' = [state EXCEPT
              !.messages = Appended([i \in DOMAIN calls |-> ToolMessage(Results(calls)[i])]),
              !.toolResults = @ \o Results(calls), !.isDone = FALSE]
       /\ Step("agent")
       /\ UNCHANGED <<policy, parallel, executing, ended>>

RNext ==
    \/ \E n \in 0 .. Len(CallIds) : AgentNode(SubSeq(CallIds, 1, n))
    \/ AgentFails \/ Interrupt \/ Resume \/ ToolsNode
    \/ \E i \in DOMAIN CallIds : Invoke(i)
    \/ \E id \in Ids : InvokeEnds(id)

RSpec == RInit /\ [][RNext]_rvars

\* Nodes and tools end (StateGraph bounds each node's time); nobody need resume.
RFairness ==
    /\ WF_rvars(AgentFails \/ \E n \in 0 .. Len(CallIds) : AgentNode(SubSeq(CallIds, 1, n)))
    /\ WF_rvars(Interrupt \/ ToolsNode)
    /\ \A i \in DOMAIN CallIds : WF_rvars(Invoke(i))
    /\ \A id \in Ids : WF_rvars(InvokeEnds(id))

-----------------------------------------------------------------------------
(***************************************************************************)
(* Properties                                                              *)
(***************************************************************************)
RTypeOK ==
    /\ policy \in Policies /\ parallel \in BOOLEAN
    /\ at \in {"agent", "tools", "interrupted", "failed", "limit", "end"}
    /\ supersteps \in 0..MaxIterations
    /\ \A m \in ToSet(state.messages) : m.role \in {"user", "assistant", "tool"}
    /\ executing \in [Ids -> {"no", "running", "ended"}]

\* Whatever order the tools end in, the model is then shown one result for
\* each call of its last response, in the order of the calls.
ResultsAnswerCalls ==
    at = "agent" /\ state.toolCalls # <<>> =>
        LET n == Len(state.toolCalls)
            shown == SubSeq(state.messages, Len(state.messages) - n + 1, Len(state.messages))
        IN shown = [i \in 1..n |-> ToolMessage(state.toolCalls[i])]

\* A tool that must be approved is not run by resuming, however often.
NotRunUnapproved == policy = "suggest" => \A id \in Ids : executing[id] = "no"

\* A run that ends by itself ends with an answer that asks for nothing.
EndsWithAnswer ==
    at = "end" => /\ Last(state.messages) = Answer(<<>>)
                  /\ state.isDone

ReactSafe == ResultsAnswerCalls /\ NotRunUnapproved /\ EndsWithAnswer

\* What must not last: an agent that always asks for tools is stopped.
Stepping == at \notin {"end", "limit", "failed", "interrupted"}

=============================================================================

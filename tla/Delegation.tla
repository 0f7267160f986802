----------------------------- MODULE Delegation -----------------------------
(***************************************************************************)
(* Work that is handed to other agents and comes back as one answer: the   *)
(* group chat (swarm/group-chat.ts), the supervisor's swarm                *)
(* (swarm/supervisor.ts) and the subagent (subagents/runtime.ts).  What an *)
(* agent answers is given; a response is [text, ballot], the ballot being  *)
(* what is left of the text when it is trimmed, lowered and cut.           *)
(***************************************************************************)
EXTENDS Integers, Sequences, FiniteSets, SequencesExt

CONSTANTS None

CeilPercent(n, percent) == (n * percent + 99) \div 100

\* selectNextSpeaker: round robin, whatever the selector
SelectNextSpeaker(agents, i) == agents[((i - 1) % Len(agents)) + 1]

\* The ballots in the order they first came up, and their tallies
Ballots(responses) ==
    FoldLeft(LAMBDA acc, r : IF r.ballot \in ToSet(acc) THEN acc ELSE Append(acc, r.ballot),
             <<>>, responses)
Votes(responses) ==
    [b \in ToSet(Ballots(responses)) |-> Len(SelectSeq(responses, LAMBDA r : r.ballot = b))]
MutBeats(count, top) == count >= top
Beats(count, top) == count > top
TopBallot(responses) ==
    FoldLeft(LAMBDA acc, b : IF Beats(Votes(responses)[b], acc.count)
                             THEN [ballot |-> b, count |-> Votes(responses)[b]] ELSE acc,
             [ballot |-> None, count |-> 0], Ballots(responses))

Everything(responses) == [i \in DOMAIN responses |-> <<responses[i].agent, responses[i].text>>]
MergeResponses(responses, strategy, threshold) ==
    LET top == TopBallot(responses)
        same == SelectSeq(responses, LAMBDA r : r.ballot = top.ballot)
        everything == [result |-> Everything(responses), winner |-> None]
    IN  CASE strategy = "concatenate" -> everything
          [] strategy = "vote" /\ top.count < CeilPercent(Len(responses), threshold) -> everything
          [] OTHER -> LET first == IF strategy = "vote" THEN same ELSE responses
                      IN  IF first = <<>> THEN [result |-> <<>>, winner |-> None]
                          ELSE [result |-> <<<<first[1].agent, first[1].text>>>>, winner |-> first[1].agent]

\* runGroupChat: each agent in turn is given what was said before it, and says
\* answers[k] in turn k; with first-success the first turn is the last one
RunGroupChat(agents, rounds, answers, strategy, threshold) ==
    LET turns == IF strategy = "first-success" /\ agents # <<>> /\ rounds > 0 THEN 1
                 ELSE rounds * Len(agents)
        turn(acc, k) ==
            LET agent == SelectNextSpeaker(agents, k)
                said == answers[k]
            IN  [history |-> Append(acc.history, [from |-> agent, text |-> said.text]),
                 responses |-> Append(acc.responses, [agent |-> agent, text |-> said.text, ballot |-> said.ballot])]
        chat == FoldLeft(turn, [history |-> <<>>, responses |-> <<>>], [k \in 1..turns |-> k])
    IN  [history |-> chat.history, responses |-> chat.responses,
         merged |-> MergeResponses(chat.responses, strategy, threshold)]

\* buildSupervisorSwarm: the coordinator routes to the specialists, and each of
\* them back to it
BuildSupervisorSwarm(coordinator, specialists) ==
    [initial |-> coordinator,
     destinations |-> [a \in {coordinator} \cup ToSet(specialists) |->
                          IF a = coordinator THEN ToSet(specialists) ELSE {coordinator}],
     maxHandoffs |-> (Len(specialists) + 1) * 3]

-----------------------------------------------------------------------------
\* executeSubagent: the events of the agent's loop become events of the
\* subagent; what the loop says last is the answer, unless it throws
Emitted(e) ==
    CASE e.type = "thinking" -> <<"think-token">>
      [] e.type = "token" -> <<"token">>
      [] e.type \in {"tool-start", "tool-done", "tool-error"} -> <<e.type>>
      [] OTHER -> <<>>
Heard(acc, e) ==
    [events |-> acc.events \o Emitted(e),
     text |-> IF e.type = "done" THEN e.text
              ELSE IF e.type = "token" THEN acc.text \o e.text ELSE acc.text]
Opening == <<"add", "thinking">>
ExecuteSubagent(loop, throws) ==
    LET r == FoldLeft(Heard, [events |-> Opening, text |-> <<>>], loop)
    IN  IF throws
        THEN [events |-> r.events \o <<"error", "finalize", "session-complete", "done">>, text |-> None]
        ELSE [events |-> r.events \o <<"done", "finalize", "session-complete">>, text |-> r.text]

-----------------------------------------------------------------------------
\* What makes a vote one: the winner's ballot has at least as many responses
\* as any, at least the threshold of them, and of those with as many the one
\* that came up first
Elected(responses, merged, threshold) ==
    LET votes == Votes(responses)
        won == {i \in DOMAIN responses : <<<<responses[i].agent, responses[i].text>>>> = merged.result}
        enough(b) == votes[b] * 100 >= threshold * Len(responses)
    IN  IF merged.winner = None
        THEN \A b \in DOMAIN votes : ~enough(b)
        ELSE \E i \in won : LET mine == responses[i].ballot IN
                /\ responses[i].agent = merged.winner /\ enough(mine)
                /\ \A j \in DOMAIN responses :
                      /\ votes[responses[j].ballot] <= votes[mine]
                      /\ votes[responses[j].ballot] = votes[mine] => \E k \in 1..j : responses[k].ballot = mine

\* A subagent that was announced is closed exactly once, whatever its loop does,
\* and nothing more is told of its agent or its tools after that (a tool whose
\* loop throws is left as it was)
Closing == {"error", "done", "finalize", "session-complete"}
Closed(events) ==
    /\ Head(events) = "add"
    /\ \A kind \in {"add", "done", "finalize", "session-complete"} :
          Len(SelectSeq(events, LAMBDA e : e = kind)) = 1
    /\ \A i, j \in DOMAIN events : i < j /\ events[i] \in Closing => events[j] \in Closing
=============================================================================

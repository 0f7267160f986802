----------------------------- MODULE LlmStream -----------------------------
(***************************************************************************)
(* The streams of the model providers (llm/vllmProvider.ts,                *)
(* llm/ollamaProvider.ts) and the parser that takes reasoning out of the   *)
(* text (llm/reasoningParser.ts).  A text is a sequence of characters, and *)
(* a tag a sequence of several, so that a tag may be cut.  What arrives is *)
(* a sequence of reads; a line is the sequence of the halves of one event, *)
(* so that a line may be cut too.  Everything is a function of the reads.  *)
(***************************************************************************)
EXTENDS Integers, Sequences, FiniteSets, SequencesExt

CONSTANTS Open,        \* "<think>", as a sequence of characters
          Close,       \* "</think>"
          Lt,          \* "<", the character a tag starts with
          Events       \* the events of a stream, by number
TagsBegin == Open[1] = Lt /\ Close[1] = Lt

NoCalls == [i \in {} |-> 0]
Fresh == [buffer |-> <<>>, inside |-> FALSE, native |-> FALSE, out |-> <<>>,
          calls |-> NoCalls, usage |-> {}, ended |-> "no"]

Emit(s, kind, text) ==
    [s EXCEPT !.out = @ \o [i \in 1..Len(text) |-> [kind |-> kind, char |-> text[i]]]]
Kind(s) == IF s.inside THEN "thinking" ELSE "token"
Said(s, kind) == SelectSeq(s.out, LAMBDA f : f.kind = kind)

-----------------------------------------------------------------------------
(* ReasoningStreamParser: cut at the tag that is looked for while there is *)
(* one, then emit what cannot be the beginning of a tag                    *)

At(tag, text) ==
    {i \in 1..(Len(text) + 1 - Len(tag)) : SubSeq(text, i, i + Len(tag) - 1) = tag}
First(tag, text) == CHOOSE i \in At(tag, text) : \A j \in At(tag, text) : i <= j

Cut(s) ==
    LET tag == IF s.inside THEN Close ELSE Open
        i == First(tag, s.buffer)
    IN  IF At(tag, s.buffer) = {} THEN s
        ELSE [Emit(s, Kind(s), SubSeq(s.buffer, 1, i - 1)) EXCEPT
                 !.buffer = SubSeq(s.buffer, i + Len(tag), Len(s.buffer)),
                 !.inside = ~s.inside]

MutSafe(text) == Len(text)
Safe(text) ==    \* the length of what can be emitted
    IF At(<<Lt>>, text) = {} THEN Len(text) ELSE First(<<Lt>>, text) - 1

AllCut(s) == FoldLeft(LAMBDA t, i : Cut(t), s, s.buffer)
EmitSafe(s) ==
    LET n == Safe(s.buffer)
    IN  [Emit(s, Kind(s), SubSeq(s.buffer, 1, n)) EXCEPT !.buffer = SubSeq(s.buffer, n + 1, Len(s.buffer))]
Write(s, text) == EmitSafe(AllCut([s EXCEPT !.buffer = @ \o text]))
Flush(s) == [Emit(s, Kind(s), s.buffer) EXCEPT !.buffer = <<>>, !.inside = FALSE]

-----------------------------------------------------------------------------
(* The deltas of tool calls                                                *)

Put(calls, i, call) ==
    [j \in DOMAIN calls \cup {i} |-> IF j = i THEN call ELSE calls[j]]
Current(calls, i, delta) ==
    LET call == IF i \in DOMAIN calls THEN calls[i]
                ELSE [id |-> {}, name |-> <<>>, args |-> <<>>]
    IN  [call EXCEPT !.id = IF delta.id = {} THEN @ ELSE delta.id]

\* accumulateOpenAIToolCalls: names and arguments arrive in parts
OpenAICall(calls, delta) ==
    LET i == IF delta.index = {} THEN Cardinality(DOMAIN calls)
             ELSE CHOOSE n \in delta.index : TRUE
        call == Current(calls, i, delta)
    IN  Put(calls, i, [call EXCEPT !.name = @ \o delta.name, !.args = @ \o delta.args])
OpenAICalls(calls, deltas) == FoldLeft(OpenAICall, calls, deltas)

\* accumulateOllamaToolCalls: the index is the place in its own chunk
OllamaCalls(calls, deltas) ==
    FoldLeft(LAMBDA acc, i :
               LET call == Current(acc, i - 1, deltas[i])
               IN  Put(acc, i - 1,
                       [call EXCEPT !.name = IF deltas[i].name = <<>> THEN @ ELSE deltas[i].name,
                                    !.args = IF deltas[i].object THEN deltas[i].args
                                             ELSE @ \o deltas[i].args]),
             calls, [i \in 1..Len(deltas) |-> i])

\* buildModelResponse: by index, and only calls that have a name
BuildModelResponse(s) ==
    LET named == {i \in DOMAIN s.calls : s.calls[i].name # <<>>}
        order == SetToSortSeq(named, <)
    IN  [content |-> Said(s, "token"), reasoning |-> Said(s, "thinking"),
         toolCalls |-> [k \in 1..Len(order) |-> s.calls[order[k]]], usage |-> s.usage]

-----------------------------------------------------------------------------
(* One chunk: native reasoning, text (parsed only while no reasoning came  *)
(* natively), tool calls                                                   *)

Reasoned(s, e) ==
    IF e.reasoning = <<>> THEN s ELSE Emit([s EXCEPT !.native = TRUE], "thinking", e.reasoning)
Content(s, e) ==
    IF e.content = <<>> THEN s
    ELSE IF s.native THEN Emit(s, "token", e.content) ELSE Write(s, e.content)
Delta(s, e) == Content(Reasoned(s, e), e)
Finish(s) == [(IF s.native THEN s ELSE Flush(s)) EXCEPT !.ended = "done"]
Failed(s) == [s EXCEPT !.ended = "failed"]

\* parseSseLine and JSON.parse: a line is blank, an event, or not JSON
NL == <<0, 0>>
Halves(k) == <<<<k, 1>>, <<k, 2>>>>
IsEvent(line) == \E k \in DOMAIN Events : line = Halves(k)
EventOf(line) == Events[line[1][1]]

VllmLine(s, line) ==
    CASE s.ended # "no" \/ line = <<>>          -> s
      [] ~IsEvent(line)                         -> Failed(s)
      [] IsEvent(line) /\ EventOf(line).comment -> s
      [] IsEvent(line) /\ EventOf(line).done    -> Finish(s)
      [] IsEvent(line) /\ EventOf(line).error   -> Failed(s)
      [] OTHER -> LET e == EventOf(line)
                      d == Delta(s, e)
                  IN  [d EXCEPT !.calls = OpenAICalls(@, e.calls),
                                !.usage = IF e.usage = {} THEN @ ELSE e.usage]

OllamaLine(s, line) ==
    CASE s.ended # "no" \/ line = <<>> -> s
      [] ~IsEvent(line)                -> Failed(s)
      [] IsEvent(line) /\ (EventOf(line).error \/ EventOf(line).comment) -> Failed(s)
      [] OTHER -> LET e == EventOf(line)
                      d == Delta(s, e)
                      t == [d EXCEPT !.calls = OllamaCalls(@, e.calls)]
                  IN  IF e.done THEN [Finish(t) EXCEPT !.usage = e.usage] ELSE t

\* The plain streams: the text of each event, no parser and no tools
PlainLine(s, line) ==
    CASE s.ended # "no" \/ line = <<>> -> s
      [] ~IsEvent(line)                -> Failed(s)
      [] IsEvent(line) /\ EventOf(line).comment -> s
      [] IsEvent(line) /\ EventOf(line).done    -> [s EXCEPT !.ended = "done"]
      [] OTHER -> Emit(s, "token", EventOf(line).content)
OllamaPlainLine(s, line) ==
    CASE s.ended # "no" \/ line = <<>> -> s
      [] ~IsEvent(line) -> Failed(s)
      [] IsEvent(line) /\ (EventOf(line).error \/ EventOf(line).comment) -> Failed(s)
      [] OTHER -> Emit(s, "token", EventOf(line).content)

\* The complete lines of a buffer, and what is left of it (split, pop)
Breaks(b) == SetToSortSeq({i \in 1..Len(b) : b[i] = NL}, <)
Lines(b) ==
    LET n == Breaks(b)
    IN  [k \in 1..Len(n) |-> SubSeq(b, IF k = 1 THEN 1 ELSE n[k - 1] + 1, n[k] - 1)]
MutLeft(b) == IF Breaks(b) = <<>> THEN b ELSE <<>>
Left(b) == IF Breaks(b) = <<>> THEN b ELSE SubSeq(b, Last(Breaks(b)) + 1, Len(b))

Reading(Handle(_, _), reads) ==
    FoldLeft(LAMBDA acc, read :
               LET b == acc.buffer \o read
               IN  [buffer |-> Left(b), state |-> FoldLeft(Handle, acc.state, Lines(b))],
             [buffer |-> <<>>, state |-> Fresh], reads)
TailRead(Handle(_, _), r) == Handle(r.state, r.buffer)
WithTail(Handle(_, _), reads) == TailRead(Handle, Reading(Handle, reads))

\* A stream that stops without an end is finished
Finished(s) == IF s.ended = "no" THEN Finish(s) ELSE s
Closed(s) == IF s.ended = "no" THEN [s EXCEPT !.ended = "done"] ELSE s
StreamWithTools(reads) == Finished(WithTail(VllmLine, reads))
OllamaStreamWithTools(reads) == Finished(WithTail(OllamaLine, reads))
Stream(reads) == Closed(Reading(PlainLine, reads).state)    \* what is left in the buffer is not looked at
OllamaStream(reads) == Closed(WithTail(OllamaPlainLine, reads))
=============================================================================

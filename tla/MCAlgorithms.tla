---------------------------- MODULE MCAlgorithms ----------------------------
\* The pure algorithms: an initial state for each kind of input, whose
\* successors are the inputs of that kind.
EXTENDS Integers, Sequences, FiniteSets, SequencesExt

CONSTANTS None

VARIABLES input   \* [kind, of], where of is <<>> at first

\* Four directions; b is close to a, c and d are not
MCDirection == [a |-> 0, b |-> 1, c |-> 2, d |-> 3]
MCCosine == [angle \in 0..3 |-> <<100, 94, 77, 50>>[angle + 1]]
MCRelations == <<[relation |-> "prefers", type |-> "preference"],
                 [relation |-> "uses", type |-> "fact"]>>
Learn == INSTANCE MemoryCompression WITH Direction <- MCDirection,
    Cosine <- MCCosine, Relations <- MCRelations, Ln <- <<0, 693, 1099, 1386>>,
    ClusterThreshold <- 72, MergeThreshold <- 88, RelateThreshold <- 72,
    MaxRelated <- 1, MaxAtomsPerCluster <- 2, WindowSize <- 4, WindowOverlap <- 1

Synth == INSTANCE SkillSynthesis WITH Scale <- 12, Threshold <- 7,
    MinTrajectories <- 3, MaxIterations <- 4, Undefined <- "undefined"

\* A card number that is one by its check digit, one that is not, a short one
MCDigits == [visa  |-> <<4, 1, 1, 1, 1, 1, 1, 1, 1, 1, 1, 1, 1, 1, 1, 1>>,
             order |-> <<4, 1, 1, 1, 1, 1, 1, 1, 1, 1, 1, 1, 1, 1, 1, 2>>,
             short |-> <<0, 0, 0, 0>>]
Guard == INSTANCE Guardrails WITH InjectionPatterns <- {"override"},
    SecretPatterns <- <<"bearer_token", "credit_card", "email">>,
    Blocked <- {"codename"}, TopicThreshold <- 82, PiiLabels <- {"PER", "ORG"},
    Digits <- MCDigits

Redactor == INSTANCE Redaction WITH FastConfidence <- 95, Threshold <- 60,
    MaxScanLength <- 5, MinLengthForML <- 2, Mask <- <<0>>

\* What a server sends: a tag in two pieces, reasoning, two tool calls and a
\* piece of the first, the end, a comment, an error
Event(reasoning, content, calls, done) ==
    [reasoning |-> reasoning, content |-> content, calls |-> calls, usage |-> {},
     done |-> done, error |-> FALSE, comment |-> FALSE]
Piece(index, id, name, args) ==
    [index |-> {index}, id |-> id, name |-> name, args |-> args, object |-> FALSE]
MCEvents == <<Event(<<>>, <<"x", "<">>, <<>>, FALSE), Event(<<>>, <<"o", "y">>, <<>>, FALSE),
              Event(<<>>, <<"<", "c", "z">>, <<>>, FALSE),
              Event(<<"r">>, <<>>, <<Piece(0, {"i0"}, <<"f">>, <<>>),
                                     Piece(1, {"i1"}, <<"g">>, <<"1">>)>>, FALSE),
              Event(<<>>, <<>>, <<Piece(0, {}, <<>>, <<"a">>)>>, FALSE),
              Event(<<>>, <<>>, <<>>, TRUE),
              [Event(<<>>, <<>>, <<>>, FALSE) EXCEPT !.comment = TRUE],
              [Event(<<>>, <<>>, <<>>, FALSE) EXCEPT !.error = TRUE]>>
Stream == INSTANCE LlmStream WITH Open <- <<"<", "o">>, Close <- <<"<", "c">>,
    Lt <- "<", Events <- MCEvents

Select == INSTANCE SkillSelection WITH MaxSkills <- 2, MaxPatterns <- 1,
    MinScore <- 5, ReservePercent <- 15
Window == INSTANCE ContextWindow WITH CompactPercent <- 75, KeepPercent <- 22,
    MiddlewarePercent <- 85
Eval == INSTANCE Evals WITH PassThreshold <- 70, RegressionThreshold <- 10,
    JudgeThreshold <- 3
Team == INSTANCE Delegation

AlgorithmsAssumption ==
    /\ Learn!CompressionAssumption
    /\ Stream!TagsBegin
    /\ Synth!SynthesisBounds

-----------------------------------------------------------------------------
\* The inputs of the algorithms, by their kind
UpTo(n, S) == UNION {[1..k -> S] : k \in 0..n}

\* Messages to remember: what they are about, and the facts found in them
Uses == [relation |-> "uses", terms |-> <<"b", "uses">>]
Prefers == [relation |-> "prefers", terms |-> <<"d", "prefers">>]
Remembered == [terms : {<<>>, <<"a">>, <<"b", "a">>, <<"c", "a">>, <<"d">>},
               says : {<<>>, <<Uses>>, <<Uses, Prefers>>}]
\* What a model answers that is asked for the facts: an error, a text, a list
\* with confidences that are missing, too high or below 0
Fact(text, type, confidence) == [text |-> text, type |-> type, confidence |-> confidence]
Replies == {[kind |-> "error"], [kind |-> "text", items |-> <<Fact(<<"a">>, "summary", {})>>],
            [kind |-> "array", items |-> <<Fact(<<"a">>, "preference", {}), Fact(<<"c">>, "fact", {150}),
                                          Fact(<<>>, "fact", {50}), Fact(<<"d">>, "fact", {-1})>>]}

\* Trajectories of at most two tool calls; the names and the values of the tools
\* are interchangeable, so that the first call of all can be fixed
ToolCall(name, value) == [name |-> name, input |-> [k |-> Synth!Text(value)]]
Trajectories == UpTo(2, {ToolCall(n, v) : n \in {"a", "b"}, v \in {"1", "2"}})
\* Calls of a tool with one key, another, or both, alone or after another tool
Inputs == {[k |-> Synth!Text("1")], [k |-> Synth!Text("2")], [m |-> Synth!Text("1")],
           [k |-> Synth!Text("1"), m |-> Synth!Text("2")]}
OtherKeys == {<<[name |-> "a", input |-> x]>> : x \in Inputs}
             \cup {<<ToolCall("b", "1"), [name |-> "a", input |-> x]>> : x \in Inputs}
\* The messages of a turn: who calls which tool under which id, and is answered
Call1 == [id |-> 1, call |-> ToolCall("a", "1")]
Call2 == [id |-> 2, call |-> ToolCall("b", "1")]
Histories == UpTo(4, {[calls |-> c, answers |-> {}] : c \in {<<Call1>>, <<Call2, Call1>>}}
                     \cup {[calls |-> <<>>, answers |-> {i}] : i \in 1..2})
\* Three trajectories that ended well or not, the last of them just observed
Observed == [tools : [1..3 -> UpTo(2, {ToolCall("a", "1"), ToolCall("b", "2")}) \ {<<>>}],
             success : [1..3 -> BOOLEAN]]
MCTools == [a |-> Synth!Text("ra"), b |-> Synth!Text("rb")]

\* Texts with what each check looks for, three lists of checks, of which one
\* has a check that throws, and what the judge says
Screened == [patterns : {{}, {"override"}, {"email"}}, numbers : {{}, {"visa"}, {"order"}},
             words : {<<"hi">>, <<"hi", "codename">>}, labels : {<<>>, <<"PER", "ORG", "PER">>},
             likeness : {[x |-> 90], [x |-> 10]}]
Check(guard, tier, takes) == [guard |-> guard, tier |-> tier, takes |-> takes, throws |-> FALSE]
AllChecks == <<Check("injection", "fast", 1), Check("secret", "fast", 1), Check("blocklist", "fast", 1),
               Check("pii", "ml", 50), Check("topic", "ml", 30), Check("judge", "llm", 2000)>>
CheckLists == {AllChecks, SubSeq(AllChecks, 1, 3) \o <<AllChecks[6]>>,
               [AllChecks EXCEPT ![4].throws = TRUE]}
Verdict(violates, severity) == [violates |-> violates, severity |-> severity, action |-> "halt"]
Screening == [checks : CheckLists,
              ctx : [text : Screened, boundary : {"input", "tool"},
                     reply : {None, Verdict(FALSE, None), Verdict(TRUE, "critical")}],
              haltOn : {"warning", "critical"}, threshold : {70, 73, 76}, budget : {2, 60, 5000}]
MCOptions(of, collectAll) == [maxTier |-> "llm", escalationThreshold |-> of.threshold,
                              latencyBudgetMs |-> of.budget, haltOn |-> of.haltOn, collectAll |-> collectAll]
\* Words that begin with a capital: two that are neighbours, and a third
WordsAt(indicates) ==
    LET at == SetToSortSeq(DOMAIN indicates, <)
    IN  [k \in DOMAIN at |-> [start |-> at[k], end |-> at[k] + 1, indicates |-> indicates[at[k]]]]
Capitalized == {WordsAt(f) : f \in UNION {[S -> {None, "PER", "ORG"}] : S \in SUBSET {0, 2, 5}}}
\* Tool calls with a short text, a long one that looks like SQL and a number,
\* and the policies of the tool
Value(type, size, value, matches) == [type |-> type, size |-> size, value |-> value, matches |-> matches]
Values == {Value("string", 1, "short", {}), Value("string", 9, "long", {"sql"}), Value("number", 0, "seven", {})}
Constraints == [param : {"x"}, type : {None, "string"}, maxLength : {0, 5}, allowedValues : {{}, {"short"}},
                blockedValues : {{}, {"short"}}, pattern : {None, "sql"}, blockedPatterns : {{}, {"sql"}}]
Policies == [params : {<<c>> : c \in Constraints}, requiredParams : {<<>>, <<"x", "y">>},
             forbiddenParams : {<<>>, <<"y">>}, globalBlockedPatterns : {{}, {"sql"}}, defaultDecision : {None}]
Arguments == [order : {<<>>, <<"y">>, <<"x", "y">>}, values : [{"x", "y"} -> Values]]
NarrowOpts == [Guard!DefaultOpts EXCEPT !.minThreshold = 69, !.maxThreshold = 72]
Labelled == {s \in [label : {"EMAIL"}, start : 0..3, end : 1..5, confidence : {85, 95}] : s.start < s.end}

\* Two matches of patterns and an entity in a text of four, and one match and two
\* entities; a text of six is too long, and cut
Ranges(n) == {r \in (0..n) \X (0..n) : r[1] < r[2]}
Matches(n, most) == UpTo(most, {[start |-> r[1], end |-> r[2], valid |-> r # <<0, n>>] : r \in Ranges(n)})
Entities(most) == UpTo(most, {[start |-> r[1], end |-> r[2], confidence |-> c, pii |-> r # <<0, 4>>] :
                              r \in Ranges(4), c \in {50, 80, 99}})
Texts == [n : {4}, matches : Matches(4, 2), entities : Entities(1)]
         \cup [n : {4}, matches : Matches(4, 1), entities : Entities(2)]
         \cup [n : {6}, matches : Matches(5, 2), entities : {<<>>}]

\* The lines of a stream, the last of them whole or not
Wire(sent, whole) ==
    LET lines == FlattenSeq([i \in DOMAIN sent |-> Stream!Halves(sent[i]) \o <<Stream!NL>>])
    IN  IF whole THEN lines ELSE SubSeq(lines, 1, Len(lines) - 1)
Wires == (UpTo(2, 1..8) \ {<<>>}) \cup {<<1, 2, 3>>, <<4, 5, 6>>, <<1, 8, 2>>, <<7, 2, 4>>}

\* Three skills or patterns found for a turn, of which two are registered
Found(k, x, y) == <<[name |-> "a", kind |-> k, score |-> x], [name |-> "b", kind |-> "skill", score |-> y],
                    [name |-> "c", kind |-> "pattern", score |-> 7]>>
Routing == [nodes : {Found(k, x, y) : k \in {"skill", "pattern"}, x \in {1, 9}, y \in {6, 9}},
            skills : SUBSET {"a", "b"}, patterns : SUBSET {"a", "c"},
            cost : [{"a", "b", "c"} -> {1, 3}], window : {0, 20, 34}, reserved : {0, 30}]

Cases == {[id |-> 1, answer |-> a, expected |-> {"x"}, expectedContains |-> c, judge |-> j] :
             a \in {{}, {{"x"}}, {{"y"}}}, c \in {{}, {"y"}}, j \in {{2}, {4}}}
Scorers == {[type |-> "exact"], [type |-> "contains", required |-> {"x"}],
            [type |-> "regex", valid |-> FALSE], [type |-> "llm-judge"]}
Scored == [exact : {0, 55, 65, 75}, calls : {0, 100}]

\* Cases whose answer and tool calls are right or not, and an earlier run
Cat == [name |-> "cat", args |-> [f |-> 1]]
Judged == [actual : {{"x"}, {"y"}}, expected : {{"x"}}, expectedToolCalls : {{}, {<<Cat>>}}, calls : {{}, {Cat}}]
Numbered(cases) == [i \in DOMAIN cases |-> cases[i] @@ [id |-> i]]
Baselines == UpTo(2, [caseId : {1, 2}, scores : [{"exact_match"} -> {0, 95, 100}] \cup [{"tool_calls"} -> {100}]])

Said == {[role |-> r, text |-> t, reasoning |-> n] : r \in {"system", "user"}, t \in {1, 6}, n \in {0, 5}}

\* Who says what in a group chat: "A" and "a" are one ballot
Ballot(text) == IF text = "A" THEN "a" ELSE text
Answers(texts) == [n \in DOMAIN texts |-> [text |-> texts[n], ballot |-> Ballot(texts[n])]]
LoopEvents == {[type |-> "token", text |-> <<"t">>], [type |-> "done", text |-> <<"d">>],
               [type |-> "thinking"], [type |-> "tool-start"], [type |-> "tool-done"], [type |-> "usage"]}

Kinds == {"remember", "cluster", "windows", "replies", "subsequence", "synthesize", "history", "observe",
          "tiers", "feedback", "entities", "names", "intercept", "redact", "parse", "wire", "route", "curate",
          "suite", "regressions", "evaluate", "compact", "cache", "chat", "supervisor", "subagent"}
InputsOf(kind) ==
    CASE kind = "remember" -> UpTo(2, Remembered)
      [] kind = "cluster" -> UpTo(4, 0..3)
      [] kind = "windows" -> 0..20
      [] kind = "replies" -> [n : 1..5, replies : [1..2 -> Replies]]
      [] kind = "subsequence" -> UpTo(3, {"a", "b"}) \X UpTo(4, {"a", "b"})
      [] kind = "synthesize" -> {ts \in [1..3 -> Trajectories] : ts[1] # <<>> => ts[1][1] = ToolCall("a", "1")}
                                \cup [1..3 -> OtherKeys]
      [] kind = "history" -> Histories
      [] kind = "observe" -> Observed
      [] kind = "tiers" -> Screening
      [] kind = "feedback" -> UpTo(4, BOOLEAN \X BOOLEAN) \X {Guard!DefaultOpts, NarrowOpts}
      [] kind = "entities" -> UpTo(3, Labelled)
      [] kind = "names" -> [words : Capitalized, matches : UpTo(1, Labelled), fallback : BOOLEAN]
      [] kind = "intercept" -> Policies \X Arguments
      [] kind = "redact" -> Texts
      [] kind = "parse" -> UpTo(5, {"<", "o", "c", "x"})
      [] kind = "wire" -> [events : Wires, whole : BOOLEAN]
      [] kind = "route" -> Routing
      [] kind = "curate" -> [1..11 -> BOOLEAN]
      [] kind = "suite" -> [cases : UpTo(3, Cases), scorer : Scorers, concurrency : 1..2]
      [] kind = "regressions" -> Scored \X Scored
      [] kind = "evaluate" -> [cases : UpTo(2, Judged), scorers : {{"exact_match"}, {"exact_match", "tool_calls"}},
                               named : {{"exact_match"}, {"tool_calls"}}, baseline : Baselines]
      [] kind = "compact" -> [messages : UpTo(3, Said), prompt : {0, 2}, window : {20, 40}]
      [] kind = "cache" -> (0..6) \X (1..4)
      [] kind = "chat" -> [texts : [1..4 -> {"A", "a", "b"}], rounds : 1..2, threshold : {50, 60, 100},
                           strategy : {"vote", "first-success", "concatenate"}]
      [] kind = "supervisor" -> {SubSeq(<<"b", "c", "d">>, 1, n) : n \in 0..3}
      [] kind = "subagent" -> UpTo(3, LoopEvents) \X BOOLEAN

Init == input \in [kind : Kinds, of : {<<>>}]

Next ==
    /\ input.of = <<>>
    /\ \E x \in InputsOf(input.kind) : input' = [input EXCEPT !.of = <<x>>]

-----------------------------------------------------------------------------
\* The input of an algorithm
Given(kind) == input.kind = kind /\ input.of # <<>>
Of == input.of[1]

\* The calls of a history that were answered, each the last one made under its
\* id before the answer and not answered yet, in the order of the answers
Asked(history, p) ==
    LET id == CHOOSE i \in history[p].answers : TRUE
        calls(q) == SelectSeq(history[q].calls, LAMBDA c : c.id = id)
        open == {q \in 1..(p - 1) : /\ calls(q) # <<>>
                                    /\ \A r \in (q + 1)..(p - 1) : calls(r) = <<>> /\ id \notin history[r].answers}
    IN  IF open = {} THEN <<>> ELSE <<Last(calls(CHOOSE q \in open : TRUE)).call>>
Answered(history) ==
    FlattenSeq([p \in DOMAIN history |-> IF history[p].answers = {} THEN <<>> ELSE Asked(history, p)])

\* What is learned from the past: compressing messages loses none of their
\* sources, which lie in the range of the archived chunk, and leaves no two atoms
\* alike, clusters are apart and hold every message once, windows cover the
\* messages, the common part of two sequences is a longest one, a call is taken
\* from the history with its own answer, only successes are learned from, and a
\* workflow made from trajectories, run with the arguments of one of them, calls
\* tools that one called, in its order.  The calls are that one's own calls, if
\* it did not call a tool twice with different inputs and all trajectories call
\* a tool with the same keys; with other keys, the values under the keys that
\* both calls have are that one's.  (A tool called twice gets the input of its
\* first call at both places, synthesizer.ts:201 and 246.)
\* (memory/compression.ts, skills/synthesizer.ts, skills/annealer.ts,
\* skills/executor.ts)
LearningSound ==
    /\ Given("remember") => LET atoms == Learn!CompressWithEmbedding(Of) IN
          /\ UNION {a.sources : a \in ToSet(atoms)} = DOMAIN Of
          /\ Learn!NoDuplicates(atoms)
          /\ Of # <<>> => LET chunk == Learn!BuildArchivalChunk(atoms, Len(Of), 0) IN
                \A a \in ToSet(chunk.atoms) : \A s \in a.sources :
                    s - 1 \in chunk.sourceRange[1]..chunk.sourceRange[2]
    /\ Given("cluster") => Learn!ClustersApart(Of)
    /\ Given("windows") => Learn!WindowsCover(Of)
    /\ Given("replies") => Learn!NoDuplicates(Learn!CompressWithLLM(Of.n, Of.replies))
    /\ Given("subsequence") => LET l == Synth!LongestCommonSubsequence(Of[1], Of[2]) IN
          /\ Synth!Subsequence(l, Of[1]) /\ Synth!Subsequence(l, Of[2])
          /\ \A s \in UpTo(4, {"a", "b"}) :
                Synth!Subsequence(s, Of[1]) /\ Synth!Subsequence(s, Of[2]) => Len(s) <= Len(l)
    /\ Given("history") => Synth!ExtractTrajectory(Of) = Answered(Of)
    /\ Given("observe") =>
          LET seen == [i \in 1..3 |-> [id |-> i, tools |-> Of.tools[i], success |-> Of.success[i]]]
              well == {o.tools : o \in {s \in ToSet(seen) : s.success}}
          IN  \A p \in Synth!Observe(seen, seen[3]) :
                 /\ Of.success[3] /\ ToSet(p.sources) \subseteq well
                 /\ \A t \in ToSet(p.sources) : Synth!Subsequence(Synth!Names(p.workflow), Synth!Names(t))
    /\ Given("synthesize") =>
          /\ LET clusters == Synth!ClusterTrajectories(Of) IN
                \A i \in 1..3 : Cardinality({c \in DOMAIN clusters : i \in clusters[c]}) = 1
          /\ \A p \in Synth!Synthesize(Of) : \A t \in ToSet(p.sources) :
                LET run == Synth!ExecutePatternWorkflow(p.workflow, Synth!Arguments(p.parameters, t),
                                                        MCTools, {"a", "b"})
                IN  /\ run.success
                    /\ Synth!Subsequence(Synth!Names(run.called), Synth!Names(t))
                    /\ Synth!CallsAgree(t) =>
                          /\ Synth!AlikeSubsequence(run.called, t)
                          /\ Synth!KeysAgree(p.sources) => Synth!Subsequence(run.called, t)

\* What texts go through: what halts the tiers of the guardrails when they stop
\* at the first finding halts them when they collect all, and the other way
\* round unless the checks run one after the other used up the latency budget
\* or the escalation threshold lies above 0.70 and not above 0.75 (one warning
\* of the ml tier counts 0.75 when all are collected, tiered.ts:182, and 0.70
\* otherwise, tiered.ts:217); the older runner comes to the same verdict in both
\* modes, feedback
\* keeps a threshold in its bounds and survives being stored, entities do not
\* overlap, a policy that forbids more denies more, whatever the order of the
\* parameters; redaction cuts the text at disjoint spans
\* and loses nothing else; and a stream is read the same however the network
\* cuts it, reasoning tags and tool calls included (guardrails/,
\* telemetry/redaction.ts, llm/vllmProvider.ts, llm/ollamaProvider.ts).
TextsSound ==
    /\ Given("tiers") =>
          LET run(all) == Guard!TieredCheck(Of.checks, Of.ctx, MCOptions(Of, all))
              halts(all) == Guard!ShouldHalt(run(all).violations, Of.haltOn)
              older(all) == Guard!RunGuardrails(Of.checks, Of.ctx, MCOptions(Of, all))
          IN  /\ halts(FALSE) => halts(TRUE)
              /\ Of.threshold \notin 71..75 /\ ~run(FALSE).budgetExceeded => halts(FALSE) = halts(TRUE)
              /\ older(TRUE) # None => /\ IsPrefix(older(FALSE), older(TRUE))
                                       /\ Guard!ShouldHalt(older(FALSE), Of.haltOn) = Guard!ShouldHalt(older(TRUE), Of.haltOn)
    /\ Given("feedback") =>
          LET s == FoldLeft(LAMBDA state, f : Guard!RecordFeedback(state, f[1], f[2]),
                            Guard!NewThreshold(70, Of[2]), Of[1])
              again == Guard!Restored(s)
          IN  /\ s.threshold \in Of[2].minThreshold..Of[2].maxThreshold
              /\ \A c \in {s.threshold - 1, s.threshold} :
                    Guard!ShouldTrigger(again, c).triggers = Guard!ShouldTrigger(s, c).triggers
              /\ Of[2] = Guard!DefaultOpts => \A f \in BOOLEAN \X BOOLEAN :
                    Guard!RecordFeedback(again, f[1], f[2]) = Guard!RecordFeedback(s, f[1], f[2])
    /\ Given("entities") => LET spans == Guard!Deduped(Of) IN
          \A i, j \in DOMAIN spans : i < j => spans[i].end <= spans[j].start
    /\ Given("names") => LET spans == Guard!Detect(Of.fallback, <<>>, Of.matches, Of.words) IN
          /\ \A i, j \in DOMAIN spans : i # j => ~Guard!Overlap(spans[i], spans[j])
          /\ \A s \in ToSet(spans) \ ToSet(Of.matches) :
                \E v, w \in ToSet(Of.words) : v.start = s.start /\ w.end = s.end
          /\ \A m \in ToSet(Of.matches) : \E s \in ToSet(spans) : Guard!Overlap(m, s)
    /\ Given("intercept") =>
          LET denies(policy, args) == Guard!Intercept([t |-> policy], FALSE, "t", args).decision = "deny"
          IN  /\ denies(Of[1], Of[2]) = denies(Of[1], [Of[2] EXCEPT !.order = Reverse(@)])
              /\ denies(Of[1], Of[2]) =>
                    /\ denies([Of[1] EXCEPT !.globalBlockedPatterns = {"sql"}], Of[2])
                    /\ denies([Of[1] EXCEPT !.requiredParams = <<"x", "y">>], Of[2])
                    /\ denies([Of[1] EXCEPT !.forbiddenParams = <<"y">>], Of[2])
    /\ Given("redact") =>
          LET text == [i \in 1..Of.n |-> i]
              scanned == SubSeq(text, 1, IF Redactor!Truncated(text) THEN 5 ELSE Of.n)
              found == Redactor!RunFastRedaction(Of.matches)
                       \o (IF Redactor!Truncated(text) THEN <<>> ELSE Redactor!RunMLRedaction(Of.entities))
              merged == Redactor!MergeSpans(found)
          IN  /\ Redactor!Disjoint(merged) /\ Redactor!Masked(found, merged)
              /\ Redactor!KeepsTheRest(scanned, found, Redactor!Redact(text, Of.matches, Of.entities).text)
              /\ Redactor!RedactObject([f |-> text], [f |-> Of]).obj.f
                    = Redactor!Redact(text, Of.matches, Of.entities).text
              /\ Redactor!KeepsTheRest(text, Redactor!RunFastRedaction(Of.matches),
                                       Redactor!RedactString(text, Of.matches).text)
    /\ Given("parse") => \A cut \in 0..Len(Of) :
          LET pieces == Stream!Write(Stream!Write(Stream!Fresh, SubSeq(Of, 1, cut)), SubSeq(Of, cut + 1, Len(Of)))
          IN  Stream!Flush(pieces).out = Stream!Flush(Stream!Write(Stream!Fresh, Of)).out
    /\ Given("wire") =>
          LET wire == Wire(Of.events, Of.whole)
              all == <<Wire(Of.events, TRUE)>>
              sent == [i \in DOMAIN Of.events |-> MCEvents[Of.events[i]]]
              read == Stream!StreamWithTools(all)
              over == SelectInSeq(sent, LAMBDA e : e.done)
              pieces(i) == LET before == IF over = 0 THEN sent ELSE SubSeq(sent, 1, over) IN
                  FlattenSeq([k \in DOMAIN before |-> SelectSeq(before[k].calls, LAMBDA p : i \in p.index)])
              joined(i) == [name |-> FlattenSeq([k \in DOMAIN pieces(i) |-> pieces(i)[k].name]),
                            args |-> FlattenSeq([k \in DOMAIN pieces(i) |-> pieces(i)[k].args])]
          IN  /\ \A cut \in 1..(Len(wire) - 1) :
                    LET reads == <<SubSeq(wire, 1, cut), SubSeq(wire, cut + 1, Len(wire))>> IN
                    /\ Stream!StreamWithTools(reads) = Stream!StreamWithTools(all)
                    /\ Stream!OllamaStreamWithTools(reads) = Stream!OllamaStreamWithTools(all)
                    /\ Stream!OllamaStream(reads) = Stream!OllamaStream(all)
                    /\ Of.whole => Stream!Stream(reads) = Stream!Stream(all)
              /\ read.ended = "done" =>
                    LET calls == Stream!BuildModelResponse(read).toolCalls IN
                    [k \in DOMAIN calls |-> [name |-> calls[k].name, args |-> calls[k].args]]
                        = SelectSeq(<<joined(0), joined(1)>>, LAMBDA c : c.name # <<>>)

\* What is chosen and judged: the skills of a turn and what is reserved fit the
\* window (the router table and the headings beside them are not counted), one
\* that mostly fails is deprecated, an eval run has one result for each case in
\* their order, a regression is reported exactly when the comparison shows it, and
\* the evaluation reports the same ones, what is kept of a conversation is its end
\* and fits, trimming and the cache keep the newest, and the cache answers like
\* the conversation, a vote elects the first of the most frequent answers, a
\* supervisor has the handoffs to visit every specialist, and a subagent that was
\* announced ends once, with nothing after it (skills/, evals/, context/, swarm/,
\* subagents/runtime.ts).
JudgementsSound ==
    /\ Given("route") =>
          LET r == Select!RouteSkillsForTurn(Of.nodes, Of.skills, Of.patterns, {"a", "b"}, Of.cost,
                                             Select!Available(Of.window, Of.reserved))
          IN  /\ r.tokensUsed = 0 \/ r.tokensUsed + Of.reserved <= Of.window
              /\ Len(r.skills) <= 2 /\ Len(r.patterns) <= 1
    /\ Given("curate") => LET m == Select!Curated(Of) IN
          m.successes * 100 < 40 * m.invocations => m.status = "deprecated"
    /\ Given("suite") => LET r == Eval!RunEvalSuite(Of.cases, Of.scorer, Of.concurrency, 50) IN
          /\ r.results = [i \in DOMAIN Of.cases |-> Eval!CaseResult(Of.cases[i], Of.scorer)]
          /\ r.passCount + r.failCount + r.errorCount = Len(Of.cases)
    /\ Given("regressions") =>
          LET after == <<[caseId |-> 1, scores |-> Of[1]]>>
              before == <<[caseId |-> 1, scores |-> Of[2]]>>
          IN  Eval!DetectRegressions(after, before)
                = {p \in {1} \X {"exact", "calls"} : Eval!Compare(after, before)[p] > 10}
    /\ Given("evaluate") =>
          LET r == Eval!Evaluate(Numbered(Of.cases), Of.scorers, Of.baseline, Of.named)
          IN  /\ r.regressions = {p \in Eval!DetectRegressions(r.results, Of.baseline) : p[2] \in Of.named}
              /\ ~r.regressed => \A i \in DOMAIN Of.cases : Of.cases[i].actual = Of.cases[i].expected
    /\ Given("compact") =>
          LET keep == Window!Floor(Of.window, 22)
              recent == Window!SelectRecentMessages(Of.messages, keep)
              trimmed == Window!TrimToWindow(Of.messages, Of.prompt, Of.window \div 2)
              compacted == Window!MaybeCompact(Of.messages, Of.prompt, Of.window, 1)
          IN  /\ IsSuffix(recent, Of.messages) /\ (Of.messages # <<>> => recent # <<>>)
              /\ Len(recent) <= 1 \/ Window!SumTokens(recent) <= keep
              /\ \/ Window!CountMessagesTokens(trimmed, Of.prompt) <= Of.window \div 2
                 \/ \A i \in DOMAIN trimmed : trimmed[i].role = "system"
              /\ SelectSeq(trimmed, LAMBDA m : m.role = "system")
                    = SelectSeq(Of.messages, LAMBDA m : m.role = "system")
              /\ compacted # <<>> => Last(compacted[1].replacement) = Last(Of.messages)
    /\ Given("cache") =>
          LET messages == Window!Cached([i \in 1..Of[1] |-> i], Of[2])
          IN  /\ messages = SubSeq([i \in 1..Of[1] |-> i], IF Of[1] > Of[2] THEN Of[1] - Of[2] + 1 ELSE 1, Of[1])
              /\ \A n \in 1..Of[2] : Window!GetRecent(messages, n) = Window!GetRecent([i \in 1..Of[1] |-> i], n)
    /\ Given("chat") =>
          LET chat == Team!RunGroupChat(<<"x", "y">>, Of.rounds,
                          Answers(Of.texts), Of.strategy, Of.threshold)
              turns(a) == Len(SelectSeq(chat.responses, LAMBDA r : r.agent = a))
          IN  /\ Of.strategy = "vote" => Team!Elected(chat.responses, chat.merged, Of.threshold)
              /\ Of.strategy # "first-success" => turns("x") = Of.rounds /\ turns("y") = Of.rounds
    /\ Given("supervisor") =>
          LET s == Team!BuildSupervisorSwarm("a", Of)
          IN  /\ \A a \in DOMAIN s.destinations : \A b \in s.destinations[a] :
                    b # a /\ b \in DOMAIN s.destinations /\ (s.initial \in {a, b})
              /\ 2 * Len(Of) + 1 <= s.maxHandoffs
    /\ Given("subagent") => Team!Closed(Team!ExecuteSubagent(Of[1], Of[2]).events)
=============================================================================

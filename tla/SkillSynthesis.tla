-------------------------- MODULE SkillSynthesis ---------------------------
(***************************************************************************)
(* How the skill runtime learns a pattern from what the agent did and runs *)
(* it again (skills/synthesizer.ts, skills/annealer.ts, and the workflows  *)
(* of skills/executor.ts).  A trajectory is a sequence of tool calls       *)
(* [name, input], an input a function from keys to values; a value is a    *)
(* text or a reference "{{...}}".  Similarities are counted in Scale       *)
(* parts of one.                                                           *)
(***************************************************************************)
EXTENDS Integers, Sequences, FiniteSets, SequencesExt, FiniteSetsExt, Functions

CONSTANTS Scale,          \* a common multiple of the lengths of trajectories
          Threshold,      \* similarityThreshold, in parts of Scale
          MinTrajectories,
          MaxIterations,
          Undefined
SynthesisBounds == Scale \in Nat \ {0} /\ MinTrajectories \in Nat \ {0}

Names(t) == [i \in 1..Len(t) |-> t[i].name]
Text(v) == [ref |-> FALSE, of |-> v]
Ref(name) == [ref |-> TRUE, of |-> name]

-----------------------------------------------------------------------------
(* longestCommonSubsequence: the table, and the way back through it        *)

LongestCommonSubsequence(a, b) ==
    LET dp[p \in (0..Len(a)) \X (0..Len(b))] ==
            CASE p[1] = 0 \/ p[2] = 0 -> 0
              [] p[1] > 0 /\ p[2] > 0 /\ a[p[1]] = b[p[2]] -> dp[<<p[1] - 1, p[2] - 1>>] + 1
              [] OTHER -> Max({dp[<<p[1] - 1, p[2]>>], dp[<<p[1], p[2] - 1>>]})
        back[p \in (0..Len(a)) \X (0..Len(b))] ==
            CASE p[1] = 0 \/ p[2] = 0 -> <<>>
              [] p[1] > 0 /\ p[2] > 0 /\ a[p[1]] = b[p[2]] ->
                    Append(back[<<p[1] - 1, p[2] - 1>>], a[p[1]])
              [] OTHER -> IF dp[<<p[1] - 1, p[2]>>] > dp[<<p[1], p[2] - 1>>]
                          THEN back[<<p[1] - 1, p[2]>>] ELSE back[<<p[1], p[2] - 1>>]
    IN  back[<<Len(a), Len(b)>>]

Similarity(a, b) ==
    LET longest == Max({Len(a), Len(b)})
    IN  IF longest = 0 THEN Scale
        ELSE (Len(LongestCommonSubsequence(Names(a), Names(b))) * Scale) \div longest

-----------------------------------------------------------------------------
(* The annealer: clusters of trajectories around medoids.  A cluster is a  *)
(* set of places in the sequence of trajectories.                          *)

\* computeSimilarityMatrix
Similarities(ts) == [p \in (DOMAIN ts) \X (DOMAIN ts) |-> Similarity(ts[p[1]], ts[p[2]])]
SumOver(S, F(_)) == FoldSet(LAMBDA x, acc : F(x) + acc, 0, S)
\* The first of S that makes F least
LeastBy(S, F(_)) == CHOOSE i \in S : \A j \in S : F(i) < F(j) \/ (F(i) = F(j) /\ i <= j)

FindMedoid(sim, cluster) == LeastBy(cluster, LAMBDA i : SumOver(cluster, LAMBDA j : Scale - sim[<<i, j>>]))

\* Farthest first, beginning with the first trajectory
InitialMedoids(sim, n, k) ==
    FoldLeft(LAMBDA medoids, step :
               LET others == (1..n) \ ToSet(medoids)
                   near(i) == Max({sim[<<i, m>>] : m \in ToSet(medoids)})
               IN  Append(medoids, LeastBy(others, near)),
             <<1>>, [i \in 1..(k - 1) |-> i])
Assigned(sim, n, medoids) ==
    LET nearest(i) == LeastBy(DOMAIN medoids, LAMBDA m : Scale - sim[<<i, medoids[m]>>])
    IN  [m \in DOMAIN medoids |-> {i \in 1..n : nearest(i) = m}]

\* An empty cluster keeps its medoid
Moved(sim, clusters, medoids) ==
    [m \in DOMAIN medoids |->
        IF clusters[m] = {} THEN medoids[m] ELSE FindMedoid(sim, clusters[m])]
KMedoids(sim, n, k) ==
    LET round(s, i) ==
            IF s.settled THEN s
            ELSE LET clusters == Assigned(sim, n, s.medoids)
                     moved == Moved(sim, clusters, s.medoids)
                 IN  [medoids |-> moved, settled |-> moved = s.medoids]
        last == FoldLeft(round, [medoids |-> InitialMedoids(sim, n, k), settled |-> FALSE],
                         [i \in 1..MaxIterations |-> i])
    IN  Assigned(sim, n, last.medoids)

\* The least k with k >= sqrt(n / 2), and less than n
DefaultK(n) == Min({n - 1, Min({k \in 1..n : 2 * k * k >= n})})

\* clusterTrajectories
ClusterTrajectories(ts) ==
    CASE ts = <<>>   -> <<>>
      [] Len(ts) = 1 -> <<{1}>>
      [] OTHER -> SelectSeq(KMedoids(Similarities(ts), Len(ts), DefaultK(Len(ts))),
                            LAMBDA c : c # {})

\* clusterCohesion, as [sum, count]; a single trajectory is wholly alike
Cohesion(sim, c) ==
    IF Cardinality(c) <= 1 THEN [sum |-> Scale, count |-> 1]
    ELSE [sum |-> SumOver(c, LAMBDA i : SumOver(c \ {i}, LAMBDA j : sim[<<i, j>>])),
          count |-> Cardinality(c) * (Cardinality(c) - 1)]
Tighter(p, q) == p.sum * q.count >= q.sum * p.count

\* selectConsensusTrajectory: the tightest cluster, the first one of equals
Tightest(cs, sim) ==
    cs[FoldLeft(LAMBDA a, i : IF Tighter(Cohesion(sim, cs[a]), Cohesion(sim, cs[i])) THEN a ELSE i,
                1, [i \in DOMAIN cs |-> i])]
Consensus(ts) == SetToSortSeq(Tightest(ClusterTrajectories(ts), Similarities(ts)), <)

-----------------------------------------------------------------------------
(* The synthesizer                                                         *)

\* alignSequences
Align(ts) ==
    FoldLeft(LAMBDA acc, t : LongestCommonSubsequence(acc, Names(t)), Names(Head(ts)), Tail(ts))

First(t, tool) == SelectSeq(t, LAMBDA c : c.name = tool)[1]
Calling(ts, tool) == SelectSeq(ts, LAMBDA t : tool \in ToSet(Names(t)))

\* extractParameters: the keys whose value is not the same everywhere
ValuesOf(ts, tool, key) ==
    {First(t, tool).input[key] :
        t \in {u \in ToSet(Calling(ts, tool)) : key \in DOMAIN First(u, tool).input}}
Keys(ts, tool) == UNION {DOMAIN First(t, tool).input : t \in ToSet(Calling(ts, tool))}
MutParameters(ts, aligned) == {}
Parameters(ts, aligned) ==
    {<<tool, key>> \in UNION {{tool} \X Keys(ts, tool) : tool \in ToSet(aligned)} :
        Cardinality(ValuesOf(ts, tool, key)) > 1}

\* buildWorkflow: a placeholder for a parameter, and the value otherwise
Workflow(ts, aligned, parameters) ==
    [i \in DOMAIN aligned |->
        LET tool == aligned[i]
            input == First(Head(Calling(ts, tool)), tool).input
        IN  [name |-> tool,
             input |-> [key \in DOMAIN input |->
                          IF <<tool, key>> \in parameters THEN Ref(<<tool, key>>)
                          ELSE input[key]]]]

\* observe() and findSimilar(): what a successful trajectory is put together with
Similar(store, t) ==
    SelectSeq(store, LAMBDA o : o.id # t.id /\ o.success
                                /\ Similarity(t.tools, o.tools) >= Threshold)

\* synthesize(): the pattern, or nothing
Pattern(sources, aligned, parameters) ==
    [sources |-> sources, parameters |-> parameters,
     workflow |-> Workflow(sources, aligned, parameters)]
Generalized(sources, aligned) ==
    IF aligned = <<>> THEN {} ELSE {Pattern(sources, aligned, Parameters(sources, aligned))}
Aligned(sources) == Generalized(sources, Align(sources))
Chosen(ts, group) == [i \in DOMAIN group |-> ts[group[i]]]
Synthesize(ts) == IF Len(ts) < MinTrajectories THEN {} ELSE Aligned(Chosen(ts, Consensus(ts)))
Observe(store, t) ==
    LET similar == Similar(store, t)
    IN  IF ~t.success \/ Len(similar) < MinTrajectories - 1 THEN {}
        ELSE Synthesize(<<t.tools>> \o [i \in DOMAIN similar |-> similar[i].tools])

\* extractTrajectory: results are paired with calls by their id.  A message
\* is [calls, answers]; the whole history is read, not only the last round.
ExtractTrajectory(history) ==
    FoldLeft(LAMBDA acc, m :
               LET asked == [id \in DOMAIN acc.pending \cup {m.calls[i].id : i \in DOMAIN m.calls} |->
                               LET own == SelectSeq(m.calls, LAMBDA c : c.id = id)
                               IN  IF own = <<>> THEN acc.pending[id] ELSE Last(own).call]
               IN  IF m.answers \subseteq DOMAIN asked /\ m.answers # {}
                   THEN [tools |-> acc.tools \o <<asked[CHOOSE id \in m.answers : TRUE]>>,
                         pending |-> Restrict(asked, DOMAIN asked \ m.answers)]
                   ELSE [acc EXCEPT !.pending = asked],
             [tools |-> <<>>, pending |-> [id \in {} |-> 0]], history).tools

-----------------------------------------------------------------------------
(* executePatternWorkflow: the steps in order, until one throws            *)

\* substituteParams: a parameter that is not given leaves its placeholder
SubstituteParams(input, params) ==
    [key \in DOMAIN input |->
        IF input[key].ref /\ input[key].of \in DOMAIN params THEN params[input[key].of]
        ELSE input[key]]
\* substituteStepResults: what is still a reference is looked up in the results
SubstituteStepResults(input, results) ==
    [key \in DOMAIN input |->
        CASE ~input[key].ref -> input[key]
          [] input[key].ref /\ input[key].of \in DOMAIN results -> results[input[key].of]
          [] OTHER -> Text(Undefined)]

\* "tools" gives the result of each tool; a tool that throws is not in "works"
ExecutePatternWorkflow(workflow, params, tools, works) ==
    FoldLeft(LAMBDA acc, step :
               LET input == SubstituteStepResults(SubstituteParams(step.input, params), acc.results)
                   known == step.name \in DOMAIN tools
               IN  IF ~acc.success THEN acc
                   ELSE IF known /\ step.name \in works
                   THEN [acc EXCEPT !.called = Append(@, [name |-> step.name, input |-> input]),
                                    !.results = [n \in DOMAIN acc.results \cup {step.name} |->
                                                   IF n = step.name THEN tools[n]
                                                   ELSE acc.results[n]]]
                   ELSE [acc EXCEPT !.success = FALSE,
                                    !.called = IF known THEN Append(@, [name |-> step.name,
                                                                        input |-> input])
                                               ELSE @],
             [called |-> <<>>, results |-> [n \in {} |-> 0], success |-> TRUE], workflow)

-----------------------------------------------------------------------------
(* What is checked of them                                                 *)

Subsequence(s, t) == \E f \in [1..Len(s) -> 1..Len(t)] :
    /\ \A i, j \in 1..Len(s) : i < j => f[i] < f[j]
    /\ \A i \in 1..Len(s) : s[i] = t[f[i]]

\* Calls of one tool that are all alike, so that it does not matter which of
\* them is looked at
CallsAgree(t) == \A i, j \in DOMAIN t : t[i].name = t[j].name => t[i] = t[j]
\* Every trajectory calls a tool with the same keys
KeysAgree(ts) == \A t, u \in ToSet(ts) : \A i \in DOMAIN t, j \in DOMAIN u :
    t[i].name = u[j].name => DOMAIN t[i].input = DOMAIN u[j].input
\* Calls that could be of one input: the keys they share have the same values
Alike(c, d) == /\ c.name = d.name
               /\ \A key \in DOMAIN c.input \cap DOMAIN d.input : c.input[key] = d.input[key]
AlikeSubsequence(s, t) == \E f \in [1..Len(s) -> 1..Len(t)] :
    /\ \A i, j \in 1..Len(s) : i < j => f[i] < f[j]
    /\ \A i \in 1..Len(s) : Alike(s[i], t[f[i]])

\* The arguments a trajectory would give to the parameters of a pattern
Arguments(parameters, t) ==
    [p \in {q \in parameters : q[2] \in DOMAIN First(t, q[1]).input} |->
        First(t, p[1]).input[p[2]]]
=============================================================================

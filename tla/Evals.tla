------------------------------- MODULE Evals -------------------------------
(***************************************************************************)
(* The evaluation of agents: suites run in batches (evals/runner.ts), the  *)
(* verdicts (evals/scorer.ts), and the scored runs with their baseline     *)
(* (evals/index.ts).  A text is a set of the words in it, a score a number *)
(* of hundredths; what the agent answers to a case is part of the case,    *)
(* empty when it throws.                                                   *)
(***************************************************************************)
EXTENDS Integers, Sequences, FiniteSets, SequencesExt, FiniteSetsExt

CONSTANTS PassThreshold,       \* of EvalRunner, in hundredths
          RegressionThreshold, \* 10: one tenth
          JudgeThreshold       \* passThreshold of the llm-judge scorer

Of(s) == CHOOSE x \in s : TRUE

-----------------------------------------------------------------------------
(* score(): the verdict of one scorer.  A judge answers with a number, or  *)
(* with something that is not JSON (empty set).                            *)

Score(config, actual, expected, judge) ==
    CASE config.type = "exact"    -> IF actual = expected THEN "pass" ELSE "fail"
      [] config.type = "contains" -> IF config.required \subseteq actual THEN "pass" ELSE "fail"
      [] config.type = "regex"    -> IF ~config.valid THEN "error"
                                     ELSE IF config.matches \subseteq actual THEN "pass"
                                     ELSE "fail"
      [] OTHER                    -> IF judge = {} THEN "error"
                                     ELSE IF Of(judge) >= JudgeThreshold THEN "pass"
                                     ELSE "fail"

\* One case of a suite.  The run's own list of words goes before the suite's
\* scorer; an answer is empty when the loop ended in an error event, and
\* there is none when the run threw.
CaseResult(case, scorer) ==
    [caseId |-> case.id,
     verdict |-> IF case.answer = {} THEN "error"
                 ELSE Score(IF case.expectedContains = {} THEN scorer
                            ELSE [type |-> "contains", required |-> case.expectedContains],
                            Of(case.answer), case.expected, case.judge)]

\* runEvalSuite: batches of "concurrency" cases, the results of a batch in
\* the order of its cases
MutAfterBatch(cases, concurrency) ==
    SubSeq(cases, Min({concurrency, Len(cases)}) + 2, Len(cases))
AfterBatch(cases, concurrency) ==
    SubSeq(cases, Min({concurrency, Len(cases)}) + 1, Len(cases))
BatchOf(cases, concurrency) == SubSeq(cases, 1, Min({concurrency, Len(cases)}))
RunEvalSuite(cases, scorer, concurrency, threshold) ==
    LET batch(acc, i) ==
            LET now == BatchOf(acc.cases, concurrency)
            IN  [cases |-> AfterBatch(acc.cases, concurrency),
                 results |-> acc.results \o [k \in 1..Len(now) |-> CaseResult(now[k], scorer)]]
        results == FoldLeft(batch, [cases |-> cases, results |-> <<>>], cases).results
        count(v) == Len(SelectSeq(results, LAMBDA r : r.verdict = v))
        \* passRate is 0 when there is no result
        rate == IF results = <<>> THEN 0 ELSE count("pass") * 100
    IN  [results |-> results, passCount |-> count("pass"), failCount |-> count("fail"),
         errorCount |-> count("error"), passed |-> rate >= threshold * Max({1, Len(results)})]

-----------------------------------------------------------------------------
(* EvalRunner                                                              *)

\* ToolCallScorer.scoreCalls: the expected calls found among the actual ones
Matches(act, exp) ==
    act.name = exp.name
    /\ \A k \in DOMAIN exp.args : k \in DOMAIN act.args /\ act.args[k] = exp.args[k]
ScoreCalls(expected, actual) ==
    CASE expected = <<>> -> 100
      [] expected # <<>> /\ actual = {} -> 0
      [] OTHER -> (100 * Len(SelectSeq(expected, LAMBDA e : \E a \in actual : Matches(a, e))))
                  \div Len(expected)

\* The scores of a case: each scorer's, and the tool calls' in place of its own
Scores(case, scorers) ==
    [s \in scorers |->
        CASE s = "exact_match" -> IF case.actual = case.expected THEN 100 ELSE 0
          [] s = "contains"    -> IF case.expected \subseteq case.actual THEN 100 ELSE 0
          [] OTHER -> IF case.expectedToolCalls = {} THEN 100
                      ELSE ScoreCalls(Of(case.expectedToolCalls), case.calls)]
SumOf(scores) == FoldSet(LAMBDA s, acc : acc + scores[s], 0, DOMAIN scores)
Passes(scores) ==        \* no scorer: the average is NaN
    DOMAIN scores # {} /\ SumOf(scores) >= PassThreshold * Cardinality(DOMAIN scores)

\* The scores of a scorer that one of the runs has not are 0
ScoreIn(scores, s) == IF s \in DOMAIN scores THEN scores[s] ELSE 0
MutFell(now, before) == now > before - RegressionThreshold
Fell(now, before) == now < before - RegressionThreshold

\* A result is [caseId, scores]; find() takes the first of an id
Baseline(results, id) ==
    LET same == SelectSeq(results, LAMBDA r : r.caseId = id)
    IN  SubSeq(same, 1, Min({1, Len(same)}))
DetectRegressions(current, baseline) ==
    {<<i, s>> \in UNION {{k} \X (DOMAIN current[k].scores
                                 \cup UNION {DOMAIN b.scores : b \in ToSet(Baseline(baseline, current[k].caseId))}) :
                         k \in DOMAIN current} :
        \E b \in ToSet(Baseline(baseline, current[i].caseId)) :
            Fell(ScoreIn(current[i].scores, s), ScoreIn(b.scores, s))}

\* compare(): the differences of the cases both runs have
Compare(a, b) ==
    [p \in {q \in UNION {{i} \X (DOMAIN a[i].scores) : i \in DOMAIN a} :
              Baseline(b, a[q[1]].caseId) # <<>>} |->
        ScoreIn(Baseline(b, a[p[1]].caseId)[1].scores, p[2]) - a[p[1]].scores[p[2]]]

\* evaluate(): a run is regressed when a case fails, or falls behind the
\* baseline in one of the named scorers
Evaluate(cases, scorers, baseline, named) ==
    LET results == [i \in DOMAIN cases |->
                      [caseId |-> cases[i].id, scores |-> Scores(cases[i], scorers)]]
        passed == Len(SelectSeq(results, LAMBDA r : Passes(r.scores)))
        fallen == {<<i, s>> \in (DOMAIN results) \X named :
                     \E b \in ToSet(Baseline(baseline, results[i].caseId)) :
                        Fell(ScoreIn(results[i].scores, s), ScoreIn(b.scores, s))}
    IN  [results |-> results, passed |-> passed, failed |-> Len(results) - passed,
         regressions |-> fallen, regressed |-> fallen # {} \/ passed < Len(results)]
=============================================================================

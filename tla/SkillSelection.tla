-------------------------- MODULE SkillSelection ---------------------------
(***************************************************************************)
(* Which skills a turn gets and what becomes of them: the search of the    *)
(* index (skills/semanticIndex.ts), the registry's answer to it, the       *)
(* budget (skills/budget.ts), the router (skills/router.ts), and the       *)
(* metrics and curation (skills/registry.ts, skills/harness.ts).           *)
(* A skill is [name, cost, when]; scores are whole numbers and a success   *)
(* rate is compared in percent.                                            *)
(***************************************************************************)
EXTENDS Integers, Sequences, FiniteSets, SequencesExt, FiniteSetsExt

CONSTANTS MaxSkills, MaxPatterns,   \* maxSkillsPerTurn, maxPatternsPerTurn
          MinScore,                 \* similarityThreshold
          ReservePercent            \* skillReserveRatio

Upto(s, n) == SubSeq(s, 1, Min({n, Len(s)}))
\* Array.sort is stable: places in order of Value, greatest first
Descending(s, Value(_)) ==
    LET order == SetToSortSeq(DOMAIN s, LAMBDA i, j :
                    Value(s[i]) > Value(s[j]) \/ (Value(s[i]) = Value(s[j]) /\ i < j))
    IN  [k \in DOMAIN s |-> s[order[k]]]

-----------------------------------------------------------------------------
(* SkillIndex.search and SkillRegistry.findRelevant.  A node of the index  *)
(* is [name, kind, score].                                                 *)

Search(nodes, topK) ==
    Upto(Descending(SelectSeq(nodes, LAMBDA n : n.score >= MinScore), LAMBDA n : n.score), topK)

\* A node without an entry is dropped, and one indexed as a pattern that is
\* only a skill; an entry that is both is taken for the skill, as a pattern
FindRelevant(nodes, skills, patterns, topK) ==
    LET known(n) == n.name \in skills \cup patterns
        real(n) == n.kind = "pattern" => n.name \in patterns
        hits == SelectSeq(Search(nodes, topK), LAMBDA n : known(n) /\ real(n))
    IN  [k \in DOMAIN hits |->
            [name |-> hits[k].name, score |-> hits[k].score,
             from |-> IF hits[k].name \in skills THEN "skill" ELSE "pattern",
             kind |-> IF hits[k].name \in patterns THEN "pattern" ELSE "skill"]]

-----------------------------------------------------------------------------
(* The budget                                                              *)

\* createTokenBudget
Available(window, reserved) ==
    Max({0, Min({(window * ReservePercent) \div 100, window - reserved})})

\* selectOptimalSubset: by value for cost, what still fits, then by score
MutFits(used, cost, budget) == cost <= budget
Fits(used, cost, budget) == used + cost <= budget
SelectOptimalSubset(matches, cost, budget) ==
    LET better(i, j) == LET m == matches[i] n == matches[j]
                        IN  \/ m.score * cost[n.name] > n.score * cost[m.name]
                            \/ m.score * cost[n.name] = n.score * cost[m.name] /\ i < j
        order == SetToSortSeq(DOMAIN matches, better)
        taken == FoldLeft(LAMBDA acc, i :
                    IF Fits(acc.used, cost[matches[i].name], budget)
                    THEN [used |-> acc.used + cost[matches[i].name],
                          selected |-> Append(acc.selected, matches[i])]
                    ELSE acc,
                  [used |-> 0, selected |-> <<>>], order)
    IN  IF budget <= 0 THEN <<>> ELSE Descending(taken.selected, LAMBDA m : m.score)

Cost(ms, cost) == FoldLeft(LAMBDA acc, m : acc + cost[m.name], 0, ms)

\* routeSkillsForTurn: "valid" are the skills whose when: condition holds
RouteSkillsForTurn(nodes, skills, patterns, valid, cost, available) ==
    LET all == FindRelevant(nodes, skills, patterns, Max({MaxSkills, MaxPatterns}) * 3)
        now == SelectSeq(all, LAMBDA m : m.kind = "pattern" \/ m.name \in valid)
        ofKind(kind, n) == Upto(SelectSeq(now, LAMBDA m : m.kind = kind), n * 2)
        chosen == Upto(SelectOptimalSubset(ofKind("skill", MaxSkills), cost, available), MaxSkills)
        rest == available - Cost(chosen, cost)
        learned == Upto(SelectOptimalSubset(ofKind("pattern", MaxPatterns), cost, rest), MaxPatterns)
    IN  [skills |-> chosen, patterns |-> learned,
         tokensUsed |-> Cost(chosen, cost) + Cost(learned, cost)]

-----------------------------------------------------------------------------
(* Metrics and curation                                                    *)

NoMetrics == [invocations |-> 0, successes |-> 0, failures |-> 0, status |-> "active"]

RecordInvocation(m, success) ==
    [m EXCEPT !.invocations = @ + 1,
              !.successes = IF success THEN @ + 1 ELSE @,
              !.failures = IF success THEN @ ELSE @ + 1]

Promoted(m) == m.invocations >= 5 /\ m.successes * 100 > 80 * m.invocations /\ m.status = "active"
MutDeprecated(m) == m.invocations >= 10 /\ m.successes * 100 < 40 * m.invocations
                    /\ m.status = "active"
Deprecated(m) == m.invocations >= 10 /\ m.successes * 100 < 40 * m.invocations
                 /\ m.status # "deprecated"
Watched(m) == /\ m.invocations >= 3 /\ m.invocations < 10 /\ m.status = "active"
              /\ m.successes * 100 >= 40 * m.invocations
              /\ m.successes * 100 < 60 * m.invocations

\* updateMetrics(): the three rules, one after the other
UpdateMetrics(m) ==
    LET rule(n, Applies(_), status) == IF Applies(n) THEN [n EXCEPT !.status = status] ELSE n
    IN  rule(rule(rule(m, Promoted, "trusted"), Deprecated, "deprecated"), Watched, "watch")

Curated(outcomes) ==
    FoldLeft(LAMBDA m, success : UpdateMetrics(RecordInvocation(m, success)), NoMetrics, outcomes)
=============================================================================

----------------------------- MODULE Guardrails -----------------------------
(***************************************************************************)
(* The guardrails of src/guardrails as operators: the tiers of tiered.ts   *)
(* and their built-in checks, the policies of interceptor.ts, the feedback *)
(* of adaptive.ts, and the spans of ner.ts.                                *)
(*                                                                         *)
(* A text is what the checks look for in it: [patterns, numbers, words,    *)
(* labels, likeness], the names of the patterns that match, the digit      *)
(* groups, the words, the labels of the entities found and the similarity  *)
(* to each banned topic. Times are in milliseconds; thresholds and scores  *)
(* in hundredths, rolling rates in millionths.                             *)
(***************************************************************************)
EXTENDS Integers, Sequences, FiniteSets, SequencesExt

CONSTANTS None,
          InjectionPatterns, SecretPatterns,   \* the latter in order
          Blocked, TopicThreshold, PiiLabels,
          Digits                               \* of a number -> its digits

TierOrder == <<"fast", "ml", "llm">>
TierIndex(tier) == SelectInSeq(TierOrder, LAMBDA t : t = tier)

\* A severity the judge made up is below all others.
SeverityIndex(severity) == SelectInSeq(<<"info", "warning", "critical">>, LAMBDA s : s = severity)

Violation(guardrail, severity, action) ==
    [guardrail |-> guardrail, severity |-> severity, action |-> action]

----------------------------------------------------------------------------
(* The checks *)

PromptInjection(ctx) ==
    IF ctx.boundary = "input" /\ ctx.text.patterns \cap InjectionPatterns # {}
    THEN Violation("prompt_injection", "critical", "halt") ELSE None

\* From the last digit, every second one is doubled.
LuhnCheck(digits) ==
    LET Doubled(n) == IF 2 * n > 9 THEN 2 * n - 9 ELSE 2 * n
        Value(i) == IF (Len(digits) - i) % 2 = 1 THEN Doubled(digits[i]) ELSE digits[i]
    IN  FoldFunction(+, 0, [i \in DOMAIN digits |-> Value(i)]) % 10 = 0

\* The first pattern in order that matches with a valid value decides.
SecretLeak(ctx) ==
    LET Found(name) == IF name = "credit_card"
                       THEN \E number \in ctx.text.numbers :
                               Len(Digits[number]) >= 13 /\ LuhnCheck(Digits[number])
                       ELSE name \in ctx.text.patterns
        found == SelectSeq(SecretPatterns, Found)
    IN  IF found = <<>> THEN None ELSE Violation(found[1], "critical", "halt")

Blocklist(ctx) ==
    IF \E i \in DOMAIN ctx.text.words : ctx.text.words[i] \in Blocked
    THEN Violation("blocklist", "critical", "halt") ELSE None

NerPii(ctx) ==
    LET pii == SelectSeq(ctx.text.labels, LAMBDA label : label \in PiiLabels)
    IN  IF pii = <<>> THEN None
        ELSE Violation("pii_ner", IF Len(pii) > 2 THEN "warning" ELSE "info", "warn")

TopicDrift(ctx) ==
    IF \E topic \in DOMAIN ctx.text.likeness : ctx.text.likeness[topic] > TopicThreshold
    THEN Violation("topic_drift", "warning", "warn") ELSE None

\* reply: what the judge answers, or None when it fails or its JSON does not
\* parse, which is not a violation.
LlmPolicy(reply) ==
    IF reply = None \/ ~reply.violates THEN None
    ELSE Violation("llm_policy", IF reply.severity = None THEN "warning" ELSE reply.severity,
                   IF reply.action = "halt" THEN "halt" ELSE "warn")

\* A check is [guard, tier, takes, throws]; one that throws finds nothing.
Finds(check, ctx) ==
    IF check.throws THEN None
    ELSE CASE check.guard = "injection" -> PromptInjection(ctx)
           [] check.guard = "secret" -> SecretLeak(ctx)
           [] check.guard = "blocklist" -> Blocklist(ctx)
           [] check.guard = "pii" -> NerPii(ctx)
           [] check.guard = "topic" -> TopicDrift(ctx)
           [] check.guard = "judge" -> LlmPolicy(ctx.reply)

----------------------------------------------------------------------------
(* TieredGuardrailEngine.check *)

Halts(violation, haltOn) == SeverityIndex(violation.severity) >= SeverityIndex(haltOn)

\* collectAll runs the checks of a tier at once; otherwise they run one after
\* the other up to the first whose violation halts.
Ran(checks, ctx, opts) ==
    LET halting == SelectInSeq(checks, LAMBDA c : Finds(c, ctx) # None /\ Halts(Finds(c, ctx), opts.haltOn))
    IN  IF opts.collectAll \/ halting = 0 THEN checks ELSE SubSeq(checks, 1, halting)

TierTime(checks, opts) ==
    LET times == [i \in DOMAIN checks |-> checks[i].takes]
    IN  IF opts.collectAll THEN Max({0} \cup ToSet(times)) ELSE FoldFunction(+, 0, times)

\* How unsure the ml tier is, by its warnings.
MutUncertainty(violations, opts) ==
    LET warnings == Len(SelectSeq(violations, LAMBDA v : v.severity = "warning"))
    IN  IF warnings = 0 THEN 0
        ELSE Max({50 + 10 * warnings, IF opts.collectAll THEN 75 ELSE 0})
Uncertainty(violations, opts) ==
    LET warnings == Len(SelectSeq(violations, LAMBDA v : v.severity = "warning"))
    IN  IF warnings = 0 THEN 0
        ELSE Max({60 + 10 * warnings, IF opts.collectAll THEN 75 ELSE 0})


\* One round of the loop over the tiers. A tier the llm step skips counts as
\* executed all the same.
RunTier(run, tier, checks, ctx, opts) ==
    LET mine == SelectSeq(checks, LAMBDA c : c.tier = tier)
        ran == Ran(mine, ctx, opts)
        found == SelectSeq([i \in DOMAIN ran |-> Finds(ran[i], ctx)], LAMBDA v : v # None)
        skipped == /\ tier = "llm"
                   /\ run.uncertainty < opts.escalationThreshold
                   /\ Contains(run.tiersExecuted, "ml")
        executed == [run EXCEPT !.tiersExecuted = Append(@, tier)]
    IN  IF run.over \/ TierIndex(tier) > TierIndex(opts.maxTier) THEN [run EXCEPT !.over = TRUE]
        ELSE IF run.elapsed >= opts.latencyBudgetMs
             THEN [run EXCEPT !.over = TRUE, !.budgetExceeded = TRUE]
        ELSE IF mine = <<>> THEN run
        ELSE IF skipped THEN executed
        ELSE [executed EXCEPT
                !.violations = @ \o found,
                !.elapsed = @ + TierTime(ran, opts),
                !.escalations = IF tier = "llm" THEN @ + 1 ELSE @,
                !.uncertainty = IF tier = "ml" THEN Uncertainty(found, opts) ELSE @,
                !.over = ~opts.collectAll /\ \E i \in DOMAIN found : Halts(found[i], opts.haltOn)]

TieredCheck(checks, ctx, opts) ==
    FoldLeft(LAMBDA run, tier : RunTier(run, tier, checks, ctx, opts),
             [violations |-> <<>>, tiersExecuted |-> <<>>, escalations |-> 0, elapsed |-> 0,
              budgetExceeded |-> FALSE, uncertainty |-> 0, over |-> FALSE],
             TierOrder)

ShouldHalt(violations, haltOn) == \E i \in DOMAIN violations : Halts(violations[i], haltOn)

\* runGuardrails: here a guardrail that throws is not caught (None is what
\* the call then gives).
RunGuardrails(guardrails, ctx, opts) ==
    LET ran == Ran(guardrails, ctx, opts)
    IN  IF \E i \in DOMAIN ran : ran[i].throws THEN None
        ELSE SelectSeq([i \in DOMAIN ran |-> Finds(ran[i], ctx)], LAMBDA v : v # None)

----------------------------------------------------------------------------
(* ToolCallInterceptor.intercept *)

\* A value is [type, size, value, matches]; a constraint has None or {} where
\* the policy leaves a field out. Each reason to deny, in order.
Denied(constraint, value) ==
    LET string == value.type = "string"
    IN  \/ constraint.type # None /\ value.type # constraint.type
        \/ constraint.maxLength > 0 /\ string /\ value.size > constraint.maxLength
        \/ constraint.allowedValues # {} /\ value.value \notin constraint.allowedValues
        \/ value.value \in constraint.blockedValues
        \/ constraint.pattern # None /\ string /\ constraint.pattern \notin value.matches
        \/ string /\ constraint.blockedPatterns \cap value.matches # {}

\* The parameters are looked at in their order in the call, the patterns for
\* all of them before the constraint of the one; the first to be denied
\* triggers the decision.
DeniedParam(policy, args, param) ==
    LET value == args.values[param]
        constraints == SelectSeq(policy.params, LAMBDA c : c.param = param)
    IN  \/ value.type = "string" /\ policy.globalBlockedPatterns \cap value.matches # {}
        \/ constraints # <<>> /\ Denied(constraints[1], value)


\* args is [order, values]; policies maps a tool to its policy.
Intercept(policies, strictMode, tool, args) ==
    LET policy == policies[tool]
        present == ToSet(args.order)
        missing == SelectSeq(policy.requiredParams, LAMBDA p : p \notin present)
        forbidden == SelectSeq(policy.forbiddenParams, LAMBDA p : p \in present)
        denied == SelectSeq(args.order, LAMBDA p : DeniedParam(policy, args, p))
        triggers == missing \o forbidden \o denied
    IN  IF tool \notin DOMAIN policies
        THEN [decision |-> IF strictMode THEN "deny" ELSE "allow", triggeredParam |-> None]
        ELSE IF triggers # <<>> THEN [decision |-> "deny", triggeredParam |-> triggers[1]]
        ELSE [decision |-> IF policy.defaultDecision = None THEN "allow" ELSE policy.defaultDecision,
              triggeredParam |-> None]

----------------------------------------------------------------------------
(* AdaptiveThreshold *)

NewThreshold(initial, opts) ==
    [threshold |-> initial, totalChecks |-> 0, tp |-> 0, fp |-> 0, tn |-> 0, fn |-> 0,
     rollingAccuracy |-> 500000, rollingFPR |-> 50000, opts |-> opts]

\* The exponential moving average, alpha in hundredths.
Ema(rolling, value, alpha) == (alpha * value + (100 - alpha) * rolling) \div 100

Raised(threshold, by, opts) == Min({opts.maxThreshold, threshold + by})
MutLowered(threshold, by, opts) == threshold - by
Lowered(threshold, by, opts) == Max({opts.minThreshold, threshold - by})


RecordFeedback(state, predicted, actual) ==
    LET fp == state.fp + IF predicted /\ ~actual THEN 1 ELSE 0
        tn == state.tn + IF ~predicted /\ ~actual THEN 1 ELSE 0
        rate == IF fp + tn > 0 THEN (1000000 * fp) \div (fp + tn) ELSE 0
        rolling == Ema(state.rollingFPR, rate, state.opts.alpha)
        nudge == state.opts.nudgeSize
        nudged == IF ~predicted /\ actual THEN Lowered(state.threshold, nudge, state.opts)
                  ELSE IF predicted /\ ~actual THEN Raised(state.threshold, nudge, state.opts)
                  ELSE state.threshold
    IN  [state EXCEPT
           !.totalChecks = @ + 1, !.fp = fp, !.tn = tn,
           !.tp = @ + IF predicted /\ actual THEN 1 ELSE 0,
           !.fn = @ + IF ~predicted /\ actual THEN 1 ELSE 0,
           !.rollingAccuracy = Ema(@, IF predicted = actual THEN 1000000 ELSE 0, state.opts.alpha),
           !.rollingFPR = rolling,
           !.threshold = IF 2 * rolling > 3 * state.opts.targetFPR
                         THEN Raised(nudged, 2 * nudge, state.opts) ELSE nudged]

\* shouldTrigger counts the check; confidence in hundredths.
ShouldTrigger(state, confidence) ==
    [state |-> [state EXCEPT !.totalChecks = @ + 1], triggers |-> confidence >= state.threshold]

DefaultOpts == [alpha |-> 10, minThreshold |-> 30, maxThreshold |-> 95, nudgeSize |-> 2,
                targetFPR |-> 50000]

\* serialize and deserialize: of the options only the target rate is kept,
\* the others are the defaults again.
Restored(state) ==
    [state EXCEPT !.opts = [DefaultOpts EXCEPT !.targetFPR = state.opts.targetFPR]]

----------------------------------------------------------------------------
(* KeywordNERFallback.detect and HybridNERDetector *)

\* capitalized: the words [start, end, first, last], first and last telling
\* what they indicate; those next to each other become one chunk.
Chunks(capitalized) ==
    FoldLeft(LAMBDA chunks, w :
                 IF chunks # <<>> /\ w.start - Last(chunks).end <= 1
                 THEN Append(Front(chunks),
                        [Last(chunks) EXCEPT !.end = w.end, !.words = @ + 1, !.last = w.indicates])
                 ELSE Append(chunks, [start |-> w.start, end |-> w.end, words |-> 1,
                                      first |-> w.indicates, last |-> w.indicates]),
             <<>>, capitalized)

Label(chunk) == IF chunk.first = "PER" THEN "PER"
                ELSE IF chunk.last \in {"LOC", "ORG"} THEN chunk.last ELSE "MISC"

WordSpans(capitalized) ==
    LET kept == SelectSeq(Chunks(capitalized), LAMBDA c : c.words >= 2 \/ Label(c) # "MISC")
        Confidence(label) == CASE label = "PER" -> 70 [] label = "MISC" -> 55 [] OTHER -> 65
    IN  [i \in DOMAIN kept |-> [label |-> Label(kept[i]), start |-> kept[i].start, end |-> kept[i].end,
                                confidence |-> Confidence(Label(kept[i]))]]

Overlap(s, t) == s.end > t.start /\ s.start < t.end

\* By start, spans that start together in the order they were found.
ByStart(spans) ==
    LET Before(i, j) == spans[i].start < spans[j].start \/ (spans[i].start = spans[j].start /\ i < j)
        order == SetToSortSeq(DOMAIN spans, Before)
    IN  [k \in DOMAIN spans |-> spans[order[k]]]

\* Of two spans that overlap the one with the higher confidence.
Deduped(spans) ==
    FoldLeft(LAMBDA kept, s :
                 LET i == SelectInSeq(kept, LAMBDA t : Overlap(s, t))
                 IN  IF i = 0 THEN Append(kept, s)
                     ELSE IF s.confidence > kept[i].confidence THEN ReplaceAt(kept, i, s) ELSE kept,
             <<>>, ByStart(spans))

DetectByKeywords(matches, capitalized) == Deduped(matches \o WordSpans(capitalized))

\* The fallback also answers when the model found nothing.
Detect(useFallback, modelSpans, matches, capitalized) ==
    IF ~useFallback /\ modelSpans # <<>> THEN modelSpans
    ELSE DetectByKeywords(matches, capitalized)
=============================================================================

--------------------------- MODULE ContextWindow ---------------------------
(***************************************************************************)
(* Fitting a conversation into the model's window (context/compaction.ts,  *)
(* context/tokenizer.ts, context/cache.ts, agent/middleware.ts).  A        *)
(* message is [role, text, reasoning]: who says it and how many tokens its *)
(* text and its reasoning are.                                             *)
(***************************************************************************)
EXTENDS Integers, Sequences, SequencesExt

CONSTANTS CompactPercent,   \* COMPACTION_RATIO, in percent
          KeepPercent,      \* KEEP_RECENT_RATIO
          MiddlewarePercent \* SUMMARIZATION_THRESHOLD of the middleware

Floor(window, percent) == (window * percent) \div 100
Tokens(m) == m.text + m.reasoning
SumTokens(ms) == FoldLeft(LAMBDA acc, m : acc + Tokens(m), 0, ms)
CountMessagesTokens(ms, prompt) == prompt + SumTokens(ms)

ShouldCompact(ms, prompt, window) ==
    CountMessagesTokens(ms, prompt) >= Floor(window, CompactPercent)

\* selectRecentMessages: backwards, the last message always, until one does
\* not fit or the budget is used up
MutDoesNotFit(total, m, keep, any) == total > keep
DoesNotFit(total, m, keep, any) == any /\ total + Tokens(m) > keep
SelectRecentMessages(ms, keep) ==
    LET back(acc, m) ==
            IF acc.full \/ DoesNotFit(acc.total, m, keep, acc.recent # <<>>)
            THEN [acc EXCEPT !.full = TRUE]
            ELSE [recent |-> <<m>> \o acc.recent, total |-> acc.total + Tokens(m),
                  full |-> acc.total + Tokens(m) >= keep]
    IN  FoldLeft(back, [recent |-> <<>>, total |-> 0, full |-> FALSE], Reverse(ms)).recent

Summary(tokens) == [role |-> "system", text |-> tokens, reasoning |-> 0]
CompactMessages(ms, prompt, window, summary) ==
    LET recent == SelectRecentMessages(ms, Floor(window, KeepPercent))
        messages == <<Summary(summary)>> \o recent
    IN  [messages |-> messages, originalCount |-> CountMessagesTokens(ms, prompt),
         compressedCount |-> CountMessagesTokens(messages, prompt)]

\* SummarizationMiddleware.maybeCompact: a share of the window is passed where
\* the window is expected; nothing to do is the empty sequence
MaybeCompact(ms, prompt, window, summary) ==
    LET threshold == Floor(window, MiddlewarePercent)
    IN  IF ~ShouldCompact(ms, prompt, threshold) THEN <<>>
        ELSE LET r == CompactMessages(ms, prompt, threshold, summary)
             IN  <<[replacement |-> r.messages, removed |-> Len(ms) - Len(r.messages),
                    saved |-> r.originalCount - r.compressedCount]>>

\* trimToWindow: the oldest messages that are not the system's are dropped;
\* a message counts there without its reasoning
TrimToWindow(ms, prompt, budget) ==
    FoldLeft(LAMBDA acc, m :
               IF acc.tokens > budget /\ m.role # "system" THEN [acc EXCEPT !.tokens = @ - m.text]
               ELSE [acc EXCEPT !.kept = Append(@, m)],
             [kept |-> <<>>, tokens |-> CountMessagesTokens(ms, prompt)], ms).kept

\* MessageCache: add(), replaceAll() and what they leave in it
Add(messages, m, maxSize) ==
    LET all == Append(messages, m)
    IN  IF Len(all) > maxSize THEN SubSeq(all, Len(all) - maxSize + 1, Len(all)) ELSE all
Cached(ms, maxSize) == FoldLeft(LAMBDA acc, m : Add(acc, m, maxSize), <<>>, ms)
GetRecent(messages, n) == IF n >= Len(messages) THEN messages     \* slice(-0) is everything
                          ELSE SubSeq(messages, IF n = 0 THEN 1 ELSE Len(messages) - n + 1, Len(messages))
=============================================================================

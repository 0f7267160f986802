----------------------------- MODULE Redaction -----------------------------
(***************************************************************************)
(* The redaction of telemetry (telemetry/redaction.ts).  A text is a       *)
(* sequence of characters, a span the half-open range of a match.  What    *)
(* the patterns and the entity detector find is given.                     *)
(***************************************************************************)
EXTENDS Integers, Sequences, FiniteSets, SequencesExt

CONSTANTS FastConfidence,   \* of every match of a pattern
          Threshold,        \* nerConfidenceThreshold
          MaxScanLength, MinLengthForML,
          Mask              \* what stands in the place of a span

\* runFastRedaction: in the order of the patterns, the validated matches
RunFastRedaction(matches) ==
    LET valid == SelectSeq(matches, LAMBDA m : m.valid)
    IN  [i \in DOMAIN valid |-> [start |-> valid[i].start, end |-> valid[i].end,
                                 confidence |-> FastConfidence, tier |-> "fast"]]

\* runMLRedaction: the entities that are personal and certain enough
RunMLRedaction(entities) ==
    LET kept == SelectSeq(entities, LAMBDA e : e.pii /\ e.confidence >= Threshold)
    IN  [i \in DOMAIN kept |-> [start |-> kept[i].start, end |-> kept[i].end,
                                confidence |-> kept[i].confidence, tier |-> "ml"]]

\* mergeSpans: a span that overlaps the last one kept takes its place when it
\* is more certain, and is dropped when it is not
Sorted(spans) ==
    LET before(i, j) == LET a == spans[i] b == spans[j] IN
            \/ a.start < b.start
            \/ a.start = b.start /\ a.confidence > b.confidence
            \/ a.start = b.start /\ a.confidence = b.confidence /\ i <= j
        order == SetToSortSeq(DOMAIN spans, before)
    IN  [k \in DOMAIN spans |-> spans[order[k]]]
MutOverlaps(span, last) == span.start < last.start
Overlaps(span, last) == span.start < last.end
MergeSpans(spans) ==
    FoldLeft(LAMBDA merged, span :
               CASE merged = <<>> \/ ~Overlaps(span, merged[Len(merged)]) -> Append(merged, span)
                 [] merged # <<>> /\ Overlaps(span, merged[Len(merged)])
                    /\ span.confidence > merged[Len(merged)].confidence ->
                        [merged EXCEPT ![Len(merged)] = span]
                 [] OTHER -> merged,
             <<>>, Sorted(spans))

Slice(text, from, to) == SubSeq(text, from + 1, to)     \* text.slice(from, to)
ApplySpans(text, spans) ==
    LET last == FoldLeft(LAMBDA acc, s :
                           [text |-> acc.text \o Slice(text, acc.pos, s.start) \o Mask, pos |-> s.end],
                         [text |-> <<>>, pos |-> 0], spans)
    IN  last.text \o Slice(text, last.pos, Len(text))

\* redact(): a text that is too long is cut, and only the patterns run.  The
\* spans of the result are then those found, before they are merged.
Truncated(text) == Len(text) > MaxScanLength
Redact(text, matches, entities) ==
    LET fast == RunFastRedaction(matches)
        ml == IF Len(text) >= MinLengthForML THEN RunMLRedaction(entities) ELSE <<>>
    IN  IF Truncated(text)
        THEN [text |-> ApplySpans(Slice(text, 0, MaxScanLength), MergeSpans(fast)), spans |-> fast]
        ELSE [text |-> ApplySpans(text, MergeSpans(fast \o ml)), spans |-> MergeSpans(fast \o ml)]

ByTier(result, tier) == Len(SelectSeq(result.spans, LAMBDA s : s.tier = tier))

\* redactObject(): every string of an object, in place; the counts are summed
RedactObject(fields, found) ==
    [obj  |-> [f \in DOMAIN fields |-> Redact(fields[f], found[f].matches, found[f].entities).text],
     fast |-> FoldFunctionOnSet(LAMBDA r, n : n + ByTier(r, "fast"), 0,
                [f \in DOMAIN fields |-> Redact(fields[f], found[f].matches, found[f].entities)],
                DOMAIN fields)]

\* redactString(), the deprecated one: patterns only, and no limit
RedactString(text, matches) ==
    LET merged == MergeSpans(RunFastRedaction(matches))
    IN  [text |-> ApplySpans(text, merged), count |-> Len(merged)]

-----------------------------------------------------------------------------
\* What a merge of the spans of a text must be
Meet(a, b) == a.start < b.end /\ b.start < a.end
Positions(spans) == UNION {(spans[i].start + 1)..spans[i].end : i \in DOMAIN spans}

\* The spans that are kept are disjoint and in order, so that the text is cut
\* at each of them once
Disjoint(merged) == \A i \in 1..(Len(merged) - 1) : merged[i].end <= merged[i + 1].start
\* Outside of what was found nothing is lost
KeepsTheRest(text, found, redacted) ==
    SelectSeq(redacted, LAMBDA c : c \notin ToSet(Mask) /\ c \notin {text[p] : p \in Positions(found)})
      = SelectSeq(text, LAMBDA c : c \notin {text[p] : p \in Positions(found)})
\* A span no other one meets is masked; of two that meet only each other the
\* more certain one is
Masked(found, merged) ==
    \A i \in DOMAIN found :
        (/\ Cardinality({j \in DOMAIN found \ {i} : Meet(found[i], found[j])}) <= 1
         /\ \A j \in DOMAIN found \ {i} : Meet(found[i], found[j]) =>
                /\ found[j].confidence < found[i].confidence
                /\ \A k \in DOMAIN found \ {i, j} : ~Meet(found[j], found[k]))
        => ((found[i].start + 1)..found[i].end) \subseteq Positions(merged)
=============================================================================

------------------------- MODULE MemoryCompression -------------------------
(***************************************************************************)
(* The compressors of src/memory/compression.ts, as operators.             *)
(*                                                                         *)
(* A text is a sequence of terms that are neither short nor stop words. An *)
(* embedding is a direction: the embedder gives a text the direction of    *)
(* its first term, and the similarity of two directions depends on the     *)
(* angle between them, in percent. What an atom says is a set of texts, so *)
(* that the content of two merged atoms is a union. A message is           *)
(* [terms, says], says being the facts its predicates state, in order.     *)
(***************************************************************************)
EXTENDS Integers, Sequences, FiniteSets, SequencesExt

CONSTANTS Direction,        \* term -> direction
          Cosine,           \* angle -> similarity, in percent
          Relations,        \* relation -> type of atom, in the order of patterns
          ClusterThreshold, MergeThreshold, RelateThreshold, MaxRelated,
          MaxAtomsPerCluster, WindowSize, WindowOverlap,
          Ln                \* logarithm of 1, 2, 3, ..., in thousandths

CompressionAssumption ==
    /\ WindowOverlap \in Nat /\ WindowSize \in Nat
    /\ WindowOverlap < WindowSize     \* or slidingWindows does not return
    /\ RelateThreshold <= MergeThreshold
    /\ MaxRelated \in Nat /\ MaxAtomsPerCluster \in Nat \ {0}

Embed(text) == IF text = <<>> THEN 0 ELSE Direction[text[1]]

Similarity(d, e) == Cosine[IF d > e THEN d - e ELSE e - d]

NotEmbedded == -1

Atom(id, type, text, sources, confidence) ==
    [id |-> id, type |-> type, says |-> {text}, embedding |-> NotEmbedded,
     text |-> text, sources |-> sources, confidence |-> confidence,
     accessCount |-> 0, related |-> <<>>]

Embedded(atoms) == [i \in DOMAIN atoms |-> [atoms[i] EXCEPT !.embedding = Embed(atoms[i].text)]]

----------------------------------------------------------------------------
(* clusterByEmbedding *)

PairSum(A, B, dirs) ==
    FoldFunction(+, 0, [p \in ToSet(A) \X ToSet(B) |-> Similarity(dirs[p[1]], dirs[p[2]])])

\* The average of one pair is above that of another; <<c, d>> and <<e, f>>
\* are pairs of positions in clusters.
Above(p, q, clusters, dirs) ==
    LET Size(r) == Len(clusters[r[1]]) * Len(clusters[r[2]])
        Sum(r) == PairSum(clusters[r[1]], clusters[r[2]], dirs)
    IN  Sum(p) * Size(q) > Sum(q) * Size(p)

Earlier(p, q) == p[1] < q[1] \/ (p[1] = q[1] /\ p[2] < q[2])

\* One round of the loop: the best pair, the first of them, is merged.
MergeBest(clusters, dirs) ==
    LET Pairs == {p \in (DOMAIN clusters) \X (DOMAIN clusters) : p[1] < p[2]}
        Close == {p \in Pairs : PairSum(clusters[p[1]], clusters[p[2]], dirs)
                    >= ClusterThreshold * Len(clusters[p[1]]) * Len(clusters[p[2]])}
        best == CHOOSE p \in Close :
            \A q \in Close : Above(p, q, clusters, dirs)
                \/ (~Above(q, p, clusters, dirs) /\ ~Earlier(q, p))
    IN  IF Close = {} THEN clusters
        ELSE RemoveAt([c \in DOMAIN clusters |->
                          IF c = best[1] THEN clusters[c] \o clusters[best[2]] ELSE clusters[c]],
                      best[2])

\* Every round leaves one cluster fewer, or the clusters as they are.
ClusterByEmbedding(dirs) ==
    FoldLeft(LAMBDA clusters, round : MergeBest(clusters, dirs),
             [i \in DOMAIN dirs |-> <<i>>], dirs)

----------------------------------------------------------------------------
(* extractClusterKeywords, and the keywords of buildArchivalChunk *)

Count(term, text) == Cardinality({i \in DOMAIN text : text[i] = term})

\* The n terms with the highest scores; those of one score in the order in
\* which they first occur, as the sort is stable.
TopTerms(text, Score(_), n) ==
    LET First(t) == CHOOSE i \in DOMAIN text : text[i] = t /\ \A j \in 1..(i - 1) : text[j] # t
        Before(t, u) == Score(t) > Score(u) \/ (Score(t) = Score(u) /\ First(t) < First(u))
        sorted == SetToSortSeq(ToSet(text), Before)
    IN  SubSeq(sorted, 1, Min({n, Len(sorted)}))

\* Term frequency times inverse document frequency: a term of every text of
\* the cluster, so every term of a single one, scores nothing.
ExtractClusterKeywords(texts, n) ==
    LET DocFreq(t) == Cardinality({i \in DOMAIN texts : Contains(texts[i], t)})
        Score(t) == Count(t, FlattenSeq(texts)) * (Ln[Len(texts)] - Ln[DocFreq(t)])
    IN  TopTerms(FlattenSeq(texts), Score, n)

----------------------------------------------------------------------------
(* SemanticSynthesizer *)

MutLinkedUnbounded(related, id) == IF Contains(related, id) THEN related ELSE Append(related, id)
Linked(related, id) ==
    LET links == IF Contains(related, id) THEN related ELSE Append(related, id)
    IN  IF Len(links) > MaxRelated THEN Tail(links) ELSE links


\* mergeContent, and what else the kept atom takes from the one it absorbs
MutAbsorb(kept, atom) ==
    [kept EXCEPT !.says = @ \cup atom.says,
                 !.confidence = Min({99, @ + 5}), !.accessCount = @ + 1]
Absorb(kept, atom) ==
    [kept EXCEPT !.says = @ \cup atom.says, !.sources = @ \cup atom.sources,
                 !.confidence = Min({99, @ + 5}), !.accessCount = @ + 1]


\* One turn of the loop over incoming. Links are made with the atoms passed on
\* the way, even when the atom is then absorbed by another and its id dropped.
Integrate(result, atom) ==
    LET Sim(i) == Similarity(atom.embedding, result[i].embedding)
        Known == {i \in DOMAIN result : result[i].embedding # NotEmbedded}
        Near == {i \in Known : RelateThreshold <= Sim(i) /\ Sim(i) < MergeThreshold}
        Same == {i \in Known : Sim(i) > MergeThreshold}
        best == CHOOSE i \in Same : \A j \in Same : Sim(i) > Sim(j) \/ (Sim(i) = Sim(j) /\ i <= j)
        linked == [i \in DOMAIN result |->
            IF i \in Near THEN [result[i] EXCEPT !.related = Linked(@, atom.id)] ELSE result[i]]
        own == FoldLeft(LAMBDA related, i : Linked(related, result[i].id), atom.related,
                        SetToSortSeq(Near, <))
    IN  IF atom.embedding = NotEmbedded THEN Append(result, atom)
        ELSE IF Same = {} THEN Append(linked, [atom EXCEPT !.related = own])
        ELSE [linked EXCEPT ![best] = Absorb(@, atom)]

Synthesize(existing, incoming) == FoldLeft(Integrate, existing, incoming)

----------------------------------------------------------------------------
(* LLMSemanticCompressor *)

\* How many windows it takes for one to reach the end.
Windows(n) ==
    IF n = 0 THEN 0
    ELSE CHOOSE k \in 1..n : LET Ends(j) == (j - 1) * (WindowSize - WindowOverlap) + WindowSize >= n
                             IN  Ends(k) /\ \A j \in 1..(k - 1) : ~Ends(j)

\* The window covers the messages from + 1 .. to (numbered from one).
MutSlidingWindows(n) ==
    [k \in 1..Windows(n) |->
        LET start == (k - 1) * WindowSize
        IN  [from |-> start, to |-> Min({start + WindowSize, n})]]
SlidingWindows(n) ==
    [k \in 1..Windows(n) |->
        LET start == (k - 1) * (WindowSize - WindowOverlap)
        IN  [from |-> start, to |-> Min({start + WindowSize, n})]]


\* The model's answer: a JSON array of items [text, type, confidence], whose
\* confidence is a set of none or one, maybe out of range, and whose text may
\* be empty; other text, whose lines are taken as facts; or an error.
ParseExtractedFacts(reply) ==
    CASE reply.kind = "array" ->
           LET facts == SelectSeq(reply.items, LAMBDA item : item.text # <<>>)
               Confidence(c) == IF c = {} THEN 85 ELSE Max({0, Min(c \cup {100})})
           IN  [i \in DOMAIN facts |-> [facts[i] EXCEPT !.confidence = Confidence(@)]]
      [] reply.kind = "text" ->
           [i \in DOMAIN reply.items |-> [reply.items[i] EXCEPT !.type = "fact", !.confidence = 70]]

ExtractFromWindow(window, reply) ==
    LET length == window.to - window.from
        facts == ParseExtractedFacts(reply)
    IN  IF reply.kind = "error"
        THEN <<Atom(<<window.from, 0>>, "summary", <<>>, (window.from + 1)..window.to, 50)>>
        ELSE [i \in DOMAIN facts |->
                Atom(<<window.from, i>>, facts[i].type, facts[i].text,
                     {window.from + 1 + ((i - 1) % length)}, facts[i].confidence)]

\* replies: the answers to the windows, in order.
CompressWithLLM(n, replies) ==
    LET windows == SlidingWindows(n)
        atoms == FlattenSeq([k \in DOMAIN windows |-> ExtractFromWindow(windows[k], replies[k])])
    IN  Synthesize(<<>>, Embedded(atoms))

----------------------------------------------------------------------------
(* EmbeddingSemanticCompressor *)

\* extractPredicatePatterns: pattern by pattern, what two messages of the
\* cluster both say once.
ExtractPredicatePatterns(said, sources) ==
    LET Of(relation) == SelectSeq(said, LAMBDA f : f.relation = relation)
        Once(facts) == FoldLeft(LAMBDA seen, f : IF Contains(seen, f) THEN seen ELSE Append(seen, f),
                                <<>>, facts)
        facts == FlattenSeq([r \in DOMAIN Relations |-> Once(Of(Relations[r].relation))])
        Type(relation) == (CHOOSE r \in ToSet(Relations) : r.relation = relation).type
    IN  [i \in DOMAIN facts |->
            Atom(<<Min(sources), i>>, Type(facts[i].relation), facts[i].terms, sources, 72)]

ExtractFromCluster(messages, indices) ==
    LET texts == [i \in DOMAIN indices |-> messages[indices[i]].terms]
        said == FlattenSeq([i \in DOMAIN indices |-> messages[indices[i]].says])
        keywords == ExtractClusterKeywords(texts, 5)
        summary == Atom(<<Min(ToSet(indices)), 0>>, "summary",
                        SubSeq(keywords, 1, Min({3, Len(keywords)})), ToSet(indices),
                        60 + Min({30, 2 * Len(indices)}))
    IN  <<summary>> \o ExtractPredicatePatterns(said, ToSet(indices))

\* compress: the clusters are a partition, so that no message is an outlier.
CompressWithEmbedding(messages) ==
    LET clusters == ClusterByEmbedding([i \in DOMAIN messages |-> Embed(messages[i].terms)])
        Kept(atoms) == SubSeq(atoms, 1, Min({MaxAtomsPerCluster, Len(atoms)}))
        atoms == FlattenSeq([c \in DOMAIN clusters |-> Kept(ExtractFromCluster(messages, clusters[c]))])
    IN  Synthesize(<<>>, Embedded(atoms))

----------------------------------------------------------------------------
(* buildArchivalChunk *)

Words(atoms) == FlattenSeq([i \in DOMAIN atoms |-> FlattenSeq(SetToSeq(atoms[i].says))])

ChunkKeywords(atoms) ==
    LET Score(t) == Count(t, Words(atoms))
    IN  TopTerms(Words(atoms), Score, 8)

\* The summary is that of the first atom that is one, or made of the keywords.
BuildArchivalChunk(atoms, n, start) ==
    LET summaries == SelectSeq(atoms, LAMBDA a : a.type = "summary")
        keywords == ChunkKeywords(atoms)
    IN  [summary |-> IF summaries # <<>> THEN summaries[1].says
                     ELSE {SubSeq(keywords, 1, Min({4, Len(keywords)}))},
         keywords |-> keywords, atoms |-> atoms,
         sourceRange |-> <<start, start + n - 1>>]

----------------------------------------------------------------------------

\* The synthesis leaves no two atoms that say the same, and bounds the links.
NoDuplicates(atoms) ==
    \A i, j \in DOMAIN atoms :
        /\ (i < j /\ atoms[i].embedding # NotEmbedded /\ atoms[j].embedding # NotEmbedded)
              => Similarity(atoms[i].embedding, atoms[j].embedding) <= MergeThreshold
        /\ Len(atoms[i].related) <= MaxRelated

\* The windows cover the messages, consecutive ones share WindowOverlap of
\* them, and none lies within the one before.
WindowsCover(n) ==
    LET windows == SlidingWindows(n)
    IN  /\ UNION {(w.from + 1)..w.to : w \in ToSet(windows)} = 1..n
        /\ \A k \in 2..Len(windows) : /\ windows[k - 1].to - windows[k].from = WindowOverlap
                                      /\ windows[k].to > windows[k - 1].to

\* No two of the final clusters are close enough to be merged, and every
\* message is in exactly one.
ClustersApart(dirs) ==
    LET clusters == ClusterByEmbedding(dirs)
    IN  /\ \A i \in DOMAIN dirs : Cardinality({c \in DOMAIN clusters : Contains(clusters[c], i)}) = 1
        /\ MergeBest(clusters, dirs) = clusters
=============================================================================

-------------------------- MODULE StateGraphProofs --------------------------
(***************************************************************************)
(* The safety properties of StateGraph, proved for every set of graphs,    *)
(* every recursion limit and any number of overlapping calls.              *)
(*                                                                         *)
(* The reference is a fold over the history of a run: StateAfter replays   *)
(* its waves by what the documentation says of one.  The code merges each  *)
(* wave into what it has; the first part relates the two, and the rest     *)
(* shows that each step keeps what is known of a call (Sound) and of the   *)
(* checkpoints (Whole).                                                    *)
(***************************************************************************)
EXTENDS StateGraph, FiniteInduction, SequenceTheorems

(***************************************************************************)
(* Sequences                                                               *)
(***************************************************************************)
\* A sequence is flattened by adding its members, from the first on.
Adding(S, s) == [p \in (1..Len(s)) \X Seq(S) |-> p[2] \o s[p[1]]]

LEMMA FlattenAdds ==
    ASSUME NEW S, NEW s \in Seq(Seq(S))
    PROVE  \E f : /\ Iterates(f, Len(s), Seq(S), <<>>, Adding(S, s))
                  /\ FlattenSeq(s) = f[Len(s)]
<1> DEFINE N == Len(s)
           A == Seq(S)
           step == Adding(S, s)
           Flattening(h) == h = [i \in 1..N |-> IF i = 1 THEN s[i]
                                                ELSE h[i - 1] \o s[i]]
<1>1. N \in Nat /\ <<>> \in A /\ Len(<<>>) = 0
  BY LenProperties, EmptySeq
<1>2. ASSUME NEW i \in 1..N, NEW x \in A
      PROVE  s[i] \in A /\ x \o s[i] \in A /\ step[<<i, x>>] = x \o s[i]
  <2>1. s[i] \in A
    BY <1>2, ElementOfSeq
  <2>2. x \o s[i] \in A
    BY <1>2, <2>1, ConcatProperties
  <2> QED
    BY <1>2, <2>1, <2>2 DEF Adding
<1>3. step \in [(1..N) \X A -> A]
  <2>1. \A p \in (1..N) \X A : p[2] \o s[p[1]] \in A
    BY <1>2
  <2> QED
    BY <2>1 DEF Adding
<1>4. PICK g : Iterates(g, N, A, <<>>, step)
  <2> HIDE DEF A, step, N
  <2> QED
    BY <1>1, <1>3, IterationExists
<1>5. ASSUME NEW i \in 1..N
      PROVE  g[i] = IF i = 1 THEN s[i] ELSE g[i - 1] \o s[i]
  <2>1. i - 1 \in 0..N /\ g[i - 1] \in A /\ g[i] = step[<<i, g[i - 1]>>]
    <3> HIDE DEF A, step, N
    <3> QED
      BY <1>1, <1>4, <1>5 DEF Iterates
  <2>2. g[i] = g[i - 1] \o s[i] /\ s[i] \in A
    BY <1>2, <1>5, <2>1
  <2>3. i = 1 => g[i - 1] = <<>>
    BY <1>4 DEF Iterates
  <2>4. <<>> \o s[i] = s[i]
    BY <2>2, ConcatEmptySeq
  <2> QED
    BY <2>2, <2>3, <2>4
<1>6. Flattening([i \in 1..N |-> g[i]])
  <2> DEFINE h == [i \in 1..N |-> g[i]]
  <2>1. \A i \in 1..N : h[i] = g[i]
    OBVIOUS
  <2>2. ASSUME NEW i \in 1..N
        PROVE  h[i] = IF i = 1 THEN s[i] ELSE h[i - 1] \o s[i]
    <3>1. i # 1 => i - 1 \in 1..N
      BY <1>1
    <3> HIDE DEF h
    <3> QED
      BY <1>5, <2>1, <3>1
  <2>3. h = [i \in 1..N |-> h[i]]
    OBVIOUS
  <2> HIDE DEF h
  <2>4. h = [i \in 1..N |-> IF i = 1 THEN s[i] ELSE h[i - 1] \o s[i]]
    BY <2>2, <2>3
  <2> QED
    BY <2>4 DEF h
<1> DEFINE flat == CHOOSE h : Flattening(h)
           f == [i \in 0..N |-> IF i = 0 THEN <<>> ELSE flat[i]]
<1>7. Flattening(flat)
  <2> HIDE DEF Flattening
  <2> QED
    BY <1>6
<1>8. FlattenSeq(s) = IF N = 0 THEN s ELSE flat[N]
  BY DEF FlattenSeq
<1> HIDE DEF flat, A
<1>9. f = [i \in 0..N |-> f[i]] /\ f[0] = <<>>
      /\ \A i \in 1..N : f[i] = flat[i] /\ i - 1 \in 0..N
  BY <1>1
<1>10. ASSUME NEW i \in 1..N, f[i - 1] \in A
       PROVE  f[i] = step[<<i, f[i - 1]>>]
  <2>1. f[i] = IF i = 1 THEN s[i] ELSE flat[i - 1] \o s[i]
    <3>1. flat[i] = IF i = 1 THEN s[i] ELSE flat[i - 1] \o s[i]
      BY <1>7
    <3> HIDE DEF f
    <3> QED
      BY <1>9, <3>1
  <2>2. f[i - 1] = IF i = 1 THEN <<>> ELSE flat[i - 1]
    BY <1>1
  <2>3. step[<<i, f[i - 1]>>] = f[i - 1] \o s[i]
    BY <1>2, <1>10
  <2>4. <<>> \o s[i] = s[i]
    BY <1>1, <1>2, ConcatEmptySeq DEF A
  <2> HIDE DEF f, step
  <2> QED
    BY <2>1, <2>2, <2>3, <2>4
<1> HIDE DEF f, step
<1>11. Iterates(f, N, A, <<>>, step)
  <2> HIDE DEF N
  <2> QED
    BY <1>1, <1>3, <1>9, <1>10, IterationTyped
<1>12. FlattenSeq(s) = f[N]
  <2>1. CASE N = 0
    <3>1. s = <<>>
      BY <2>1, EmptySeq
    <3> QED
      BY <1>8, <1>9, <2>1, <3>1
  <2>2. CASE N # 0
    <3>1. N \in 1..N
      BY <1>1, <2>2
    <3> QED
      BY <1>8, <1>9, <2>2, <3>1
  <2> QED
    BY <2>1, <2>2
<1> QED
  BY <1>11, <1>12 DEF A, step

\* What is flattened is a sequence of the members' members.
LEMMA FlattenType ==
    ASSUME NEW S, NEW s \in Seq(Seq(S))
    PROVE  FlattenSeq(s) \in Seq(S)
<1>1. PICK f : /\ Iterates(f, Len(s), Seq(S), <<>>, Adding(S, s))
               /\ FlattenSeq(s) = f[Len(s)]
  BY FlattenAdds
<1>2. Len(s) \in Nat
  BY LenProperties
<1> QED
  BY <1>1, <1>2 DEF Iterates

\* Empty members at the end make no difference.
LEMMA FlattenIgnores ==
    ASSUME NEW S, NEW s \in Seq(Seq(S)), NEW t \in Seq(Seq(S)),
           Len(s) <= Len(t), \A i \in 1..Len(s) : t[i] = s[i],
           \A i \in (Len(s) + 1)..Len(t) : t[i] = <<>>
    PROVE  FlattenSeq(t) = FlattenSeq(s)
<1> DEFINE M == Len(s)
           N == Len(t)
           A == Seq(S)
<1>1. M \in Nat /\ N \in Nat
  BY LenProperties
<1>2. PICK f : Iterates(f, M, A, <<>>, Adding(S, s)) /\ FlattenSeq(s) = f[M]
  BY FlattenAdds
<1>3. PICK g : Iterates(g, N, A, <<>>, Adding(S, t)) /\ FlattenSeq(t) = g[N]
  BY FlattenAdds
<1>4. ASSUME NEW i \in 1..M, NEW x \in A
      PROVE  Adding(S, s)[<<i, x>>] = Adding(S, t)[<<i, x>>]
  BY <1>1 DEF Adding
<1>5. ASSUME NEW i \in (M + 1)..N, NEW x \in A
      PROVE  Adding(S, t)[<<i, x>>] = x
  <2>1. i \in 1..N /\ t[i] = <<>>
    BY <1>1
  <2>2. Adding(S, t)[<<i, x>>] = x \o <<>>
    BY <2>1 DEF Adding
  <2> QED
    BY <2>2, ConcatEmptySeq
<1> HIDE DEF A
<1>6. f[M] = g[M]
  <2> DEFINE p == Adding(S, s)
             q == Adding(S, t)
             a == <<>>
  <2>1. \A i \in 0..M : f[i] = g[i]
    <3>1. /\ M <= N /\ Iterates(f, M, A, a, p) /\ Iterates(g, N, A, a, q)
          /\ M \in Nat /\ N \in Nat
      BY <1>1, <1>2, <1>3
    <3>2. StepsAgree(p, q, M, A)
      BY <1>4 DEF StepsAgree
    <3> HIDE DEF M, N, p, q, a
    <3> QED
      BY <3>1, <3>2, IterationsAgree
  <2> QED
    BY <1>1, <2>1
<1>7. g[N] = g[M]
  <2> DEFINE q == Adding(S, t)
             a == <<>>
  <2>1. M <= N /\ M \in Nat /\ N \in Nat /\ Iterates(g, N, A, a, q)
    BY <1>1, <1>3
  <2>2. \A i \in (M + 1)..N, x \in A : q[<<i, x>>] = x
    BY <1>5
  <2> HIDE DEF M, N, q, a
  <2> QED
    BY <2>1, <2>2, IterationRests
<1> QED
  BY <1>2, <1>3, <1>6, <1>7

\* The members of a sequence, each once.
LEMMA DistinctType ==
    ASSUME NEW S, NEW s \in Seq(S)
    PROVE  Distinct(s) \in Seq(S)
<1> DEFINE N == Len(s)
           A == Seq(S)
           Longer(n, b) == IF s[n] \in ToSet(b) THEN b ELSE Append(b, s[n])
           step == [p \in (1..N) \X A |-> Longer(p[1], p[2])]
           Selecting(h) == h = [n \in 0..N |-> IF n = 0 THEN <<>>
                                               ELSE Longer(n, h[n - 1])]
<1>1. N \in Nat /\ <<>> \in A
  BY LenProperties, EmptySeq
<1>2. ASSUME NEW n \in 1..N, NEW b \in A
      PROVE  Longer(n, b) \in A /\ step[<<n, b>>] = Longer(n, b)
  <2>1. s[n] \in S
    BY <1>2, ElementOfSeq
  <2>2. Append(b, s[n]) \in A
    BY <1>2, <2>1, AppendProperties
  <2> QED
    BY <1>2, <2>2
<1>3. step \in [(1..N) \X A -> A]
  <2> HIDE DEF A, Longer
  <2> QED
    BY <1>2
<1> HIDE DEF Longer
<1>4. PICK g : Iterates(g, N, A, <<>>, step)
  <2> HIDE DEF A, step, N
  <2> QED
    BY <1>1, <1>3, IterationExists
<1>5. Selecting(g)
  <2>1. ASSUME NEW n \in 1..N PROVE g[n] = Longer(n, g[n - 1])
    <3>1. n - 1 \in 0..N /\ g[n - 1] \in A /\ g[n] = step[<<n, g[n - 1]>>]
      <4> HIDE DEF A, step, N
      <4> QED
        BY <1>1, <1>4, <2>1 DEF Iterates
    <3> QED
      BY <1>2, <3>1
  <2>2. g \in [0..N -> A] /\ g[0] = <<>>
    BY <1>4 DEF Iterates
  <2> HIDE DEF A
  <2> QED
    BY <1>1, <2>1, <2>2
<1> DEFINE f == CHOOSE h : Selecting(h)
<1>6. Selecting(f)
  <2> HIDE DEF Selecting
  <2> QED
    BY <1>5
<1>7. Distinct(s) = f[N]
  BY DEF Distinct, Longer
<1> HIDE DEF f, A
<1>8. f = [n \in 0..N |-> f[n]] /\ f[0] = <<>>
      /\ \A n \in 1..N : f[n] = Longer(n, f[n - 1])
  BY <1>1, <1>6
<1>9. Iterates(f, N, A, <<>>, step)
  <2>1. \A n \in 1..N : f[n - 1] \in A => f[n] = step[<<n, f[n - 1]>>]
    BY <1>2, <1>8
  <2> HIDE DEF N, step
  <2> QED
    BY <1>1, <1>3, <1>8, <2>1, IterationTyped
<1> QED
  BY <1>1, <1>7, <1>9 DEF Iterates, A

(***************************************************************************)
(* The reference: what a history leads to                                  *)
(***************************************************************************)
\* Nodes of steps are nodes, and each has a result.
LEMMA StepFields ==
    ASSUME NEW step \in Steps
    PROVE  /\ step.nodes \in Seq(Nodes) /\ step.results \in Seq(Results)
           /\ Len(step.nodes) \in Nat
           /\ DOMAIN step.nodes = 1..Len(step.nodes)
           /\ \A i \in DOMAIN step.nodes :
                  /\ step.nodes[i] \in Nodes /\ step.results[i] \in Results
                  /\ step.results[i].sends \in Seq(Nodes)
<1>1. /\ step.nodes \in Seq(Nodes) /\ step.results \in Seq(Results)
      /\ DOMAIN step.results = DOMAIN step.nodes
  BY DEF Steps
<1>2. /\ Len(step.nodes) \in Nat /\ DOMAIN step.nodes = 1..Len(step.nodes)
      /\ Len(step.results) \in Nat /\ DOMAIN step.results = 1..Len(step.results)
  BY <1>1, LenProperties
<1>3. ASSUME NEW i \in DOMAIN step.nodes
      PROVE  step.nodes[i] \in Nodes /\ step.results[i] \in Results
  BY <1>1, <1>2, <1>3, ElementOfSeq
<1>4. ASSUME NEW i \in DOMAIN step.nodes
      PROVE  step.results[i].sends \in Seq(Nodes)
  BY <1>3, <1>4 DEF Results
<1> QED
  BY <1>1, <1>2, <1>3, <1>4

\* The outputs and the Sends of a wave.
LEMMA EffectTypes ==
    ASSUME NEW finish, NEW step \in Steps
    PROVE  /\ OutputsOf(finish, step) \in Seq(Entries)
           /\ SendsOf(finish, step) \in Seq(Nodes)
<1> DEFINE n == Len(step.nodes)
           outputs == [i \in 1..n |->
                          IF i \in Counted(finish, step) /\ step.results[i] = Wrote
                          THEN <<Output(step.nodes[i])>> ELSE <<>>]
           sends == [i \in 1..n |-> step.results[i].sends]
<1>1. n \in Nat /\ DOMAIN step.nodes = 1..n
  BY StepFields
<1>2. outputs \in Seq(Seq(Entries))
  <2>1. ASSUME NEW i \in 1..n
        PROVE  <<Output(step.nodes[i])>> \in Seq(Entries) /\ <<>> \in Seq(Entries)
    <3>1. Output(step.nodes[i]) \in Entries
      BY <1>1, <2>1, StepFields DEF Output, Entries
    <3> QED
      BY <3>1, EmptySeq
  <2> QED
    BY <1>1, <2>1, IsASeq
<1>3. sends \in Seq(Seq(Nodes))
  <2>1. \A i \in 1..n : step.results[i].sends \in Seq(Nodes)
    BY <1>1, StepFields
  <2> QED
    BY <1>1, <2>1, IsASeq
<1>4. OutputsOf(finish, step) = FlattenSeq(outputs)
  BY <1>1 DEF OutputsOf
<1>5. SendsOf(finish, step) = <<>> \/ SendsOf(finish, step) = FlattenSeq(sends)
  BY <1>1 DEF SendsOf
<1> HIDE DEF outputs, sends
<1>6. FlattenSeq(outputs) \in Seq(Entries) /\ FlattenSeq(sends) \in Seq(Nodes)
  BY <1>2, <1>3, FlattenType
<1> QED
  BY <1>4, <1>5, <1>6, EmptySeq

\* The arguments of Sends are entries.
LEMMA ArgsType ==
    ASSUME NEW sent \in Seq(Nodes)
    PROVE  [i \in DOMAIN sent |-> Arg(sent[i])] \in Seq(Entries)
<1>1. Len(sent) \in Nat /\ DOMAIN sent = 1..Len(sent)
  BY LenProperties
<1>2. ASSUME NEW i \in 1..Len(sent) PROVE Arg(sent[i]) \in Entries
  <2>1. sent[i] \in Nodes
    BY <1>2, ElementOfSeq
  <2> QED
    BY <2>1 DEF Arg, Entries
<1> QED
  BY <1>1, <1>2, IsASeq

\* A step of a history leads from a state to a state.
LEMMA EffectType ==
    ASSUME NEW finish, NEW state \in Seq(Entries), NEW step \in Steps
    PROVE  Effect(finish, state, step) \in Seq(Entries)
<1>1. Update \in Entries
  BY DEF Update, Entries
<1>2. Append(state, Update) \in Seq(Entries) /\ <<Update>> \in Seq(Entries)
  BY <1>1, AppendProperties
<1> DEFINE sent == SendsOf(finish, step)
           args == [i \in DOMAIN sent |-> Arg(sent[i])]
           outputs == OutputsOf(finish, step)
<1>3. outputs \in Seq(Entries) /\ args \in Seq(Entries)
  <2>1. outputs \in Seq(Entries) /\ sent \in Seq(Nodes)
    BY EffectTypes
  <2> HIDE DEF sent, outputs
  <2> QED
    BY <2>1, ArgsType
<1>4. \/ Effect(finish, state, step) = Append(state, Update)
      \/ Effect(finish, state, step) = <<Update>>
      \/ Effect(finish, state, step) = state \o outputs \o args
  BY DEF Effect
<1> HIDE DEF outputs, args
<1>5. state \o outputs \o args \in Seq(Entries)
  <2>1. state \o outputs \in Seq(Entries)
    BY <1>3, ConcatProperties
  <2> QED
    BY <1>3, <2>1, ConcatProperties
<1> QED
  BY <1>2, <1>4, <1>5

\* A history is replayed from its first step on.
Replaying(finish, trace) ==
    [p \in (1..Len(trace)) \X Seq(Entries) |-> Effect(finish, p[2], trace[p[1]])]

LEMMA StateReplays ==
    ASSUME NEW finish, NEW trace \in Seq(Steps)
    PROVE  \E f : /\ Iterates(f, Len(trace), Seq(Entries), <<>>,
                              Replaying(finish, trace))
                  /\ StateAfter(finish, trace) = f[Len(trace)]
<1> DEFINE N == Len(trace)
           A == Seq(Entries)
           step == Replaying(finish, trace)
           After(h) == h = [n \in 0..N |->
                               IF n = 0 THEN <<>>
                               ELSE Effect(finish, h[n - 1], trace[n])]
<1>1. N \in Nat /\ <<>> \in A
  BY LenProperties, EmptySeq
<1>2. ASSUME NEW n \in 1..N, NEW x \in A
      PROVE  /\ Effect(finish, x, trace[n]) \in A
             /\ step[<<n, x>>] = Effect(finish, x, trace[n])
  <2>1. trace[n] \in Steps
    BY <1>2, ElementOfSeq
  <2>2. Effect(finish, x, trace[n]) \in A
    BY <1>2, <2>1, EffectType
  <2> QED
    BY <1>2, <2>2 DEF Replaying
<1>3. step \in [(1..N) \X A -> A]
  <2>1. \A p \in (1..N) \X A : Effect(finish, p[2], trace[p[1]]) \in A
    BY <1>2
  <2> QED
    BY <2>1 DEF Replaying
<1>4. PICK g : Iterates(g, N, A, <<>>, step)
  <2> HIDE DEF A, step, N
  <2> QED
    BY <1>1, <1>3, IterationExists
<1>5. After(g)
  <2>1. ASSUME NEW n \in 1..N PROVE g[n] = Effect(finish, g[n - 1], trace[n])
    <3>1. n - 1 \in 0..N /\ g[n - 1] \in A /\ g[n] = step[<<n, g[n - 1]>>]
      <4> HIDE DEF A, step, N
      <4> QED
        BY <1>1, <1>4, <2>1 DEF Iterates
    <3> QED
      BY <1>2, <3>1
  <2>2. g \in [0..N -> A] /\ g[0] = <<>>
    BY <1>4 DEF Iterates
  <2> HIDE DEF A
  <2> QED
    BY <1>1, <2>1, <2>2
<1> DEFINE f == CHOOSE h : After(h)
<1>6. After(f)
  <2> HIDE DEF After
  <2> QED
    BY <1>5
<1>7. StateAfter(finish, trace) = f[N]
  BY DEF StateAfter
<1> HIDE DEF f, A
<1>8. f = [n \in 0..N |-> f[n]] /\ f[0] = <<>>
      /\ \A n \in 1..N : f[n] = Effect(finish, f[n - 1], trace[n])
  BY <1>1, <1>6
<1>9. Iterates(f, N, A, <<>>, step)
  <2>1. \A n \in 1..N : f[n - 1] \in A => f[n] = step[<<n, f[n - 1]>>]
    BY <1>2, <1>8
  <2> HIDE DEF N, step
  <2> QED
    BY <1>1, <1>3, <1>8, <2>1, IterationTyped
<1> QED
  BY <1>7, <1>9 DEF A

\* A step at the end of a history changes the state it led to.
LEMMA StateAfterStep ==
    ASSUME NEW finish, NEW trace \in Seq(Steps), NEW step \in Steps
    PROVE  /\ StateAfter(finish, trace) \in Seq(Entries)
           /\ StateAfter(finish, Append(trace, step)) =
                  Effect(finish, StateAfter(finish, trace), step)
<1> DEFINE longer == Append(trace, step)
           M == Len(trace)
           N == Len(longer)
           A == Seq(Entries)
           p == Replaying(finish, trace)
           q == Replaying(finish, longer)
           a == <<>>
<1>1. /\ longer \in Seq(Steps) /\ N = M + 1 /\ M \in Nat /\ N \in Nat
      /\ \A i \in 1..M : longer[i] = trace[i]
      /\ longer[M + 1] = step
  BY AppendProperties, LenProperties
<1>2. PICK f : Iterates(f, M, A, a, p) /\ StateAfter(finish, trace) = f[M]
  BY StateReplays
<1>3. PICK g : Iterates(g, N, A, a, q) /\ StateAfter(finish, longer) = g[N]
  <2> HIDE DEF longer
  <2> QED
    BY <1>1, StateReplays
<1>4. StepsAgree(p, q, M, A)
  <2> HIDE DEF longer
  <2>1. ASSUME NEW i \in 1..M, NEW x \in A PROVE p[<<i, x>>] = q[<<i, x>>]
    <3>1. <<i, x>> \in (1..M) \X A /\ <<i, x>> \in (1..N) \X A
      BY <1>1
    <3> QED
      BY <1>1, <3>1 DEF Replaying
  <2> HIDE DEF p, q, M, A
  <2> QED
    BY <2>1 DEF StepsAgree
<1>5. \A i \in 0..M : f[i] = g[i]
  <2>1. /\ M <= N /\ M \in Nat /\ N \in Nat
        /\ Iterates(f, M, A, a, p) /\ Iterates(g, N, A, a, q)
    BY <1>1, <1>2, <1>3
  <2> HIDE DEF M, N, p, q, a, A
  <2> QED
    BY <1>4, <2>1, IterationsAgree
<1>6. g[N] = q[<<N, g[M]>>] /\ f[M] = g[M] /\ g[M] \in A
  <2>1. N \in 1..N /\ N - 1 = M /\ M \in 0..N /\ M \in 0..M
    BY <1>1
  <2> HIDE DEF N, M, q, A, a
  <2> QED
    BY <1>3, <1>5, <2>1 DEF Iterates
<1>7. q[<<N, g[M]>>] = Effect(finish, g[M], step)
  <2> HIDE DEF longer
  <2>1. <<N, g[M]>> \in (1..N) \X A
    BY <1>1, <1>6
  <2> QED
    BY <1>1, <2>1 DEF Replaying
<1> QED
  BY <1>2, <1>3, <1>6, <1>7

\* An empty history leads to an empty state.
LEMMA StateAfterNothing ==
    ASSUME NEW finish
    PROVE  StateAfter(finish, <<>>) = <<>>
<1>1. <<>> \in Seq(Steps) /\ Len(<<>>) = 0
  BY EmptySeq
<1>2. PICK f : /\ Iterates(f, 0, Seq(Entries), <<>>, Replaying(finish, <<>>))
               /\ StateAfter(finish, <<>>) = f[0]
  BY <1>1, StateReplays
<1> QED
  BY <1>2 DEF Iterates

\* A step adds the nodes of its wave to those that are completed.
LEMMA CompletedInStep ==
    ASSUME NEW finish, NEW trace \in Seq(Steps), NEW step \in Steps
    PROVE  /\ CompletedIn(finish, Append(trace, step)) =
                  CompletedIn(finish, trace)
                  \cup {step.nodes[i] : i \in Counted(finish, step)}
           /\ CompletedIn(finish, <<>>) = {}
<1> DEFINE longer == Append(trace, step)
           M == Len(trace)
<1>1. /\ longer \in Seq(Steps) /\ Len(longer) = M + 1 /\ M \in Nat
      /\ DOMAIN longer = 1..(M + 1) /\ DOMAIN trace = 1..M
      /\ \A i \in 1..M : longer[i] = trace[i]
      /\ longer[M + 1] = step
  BY AppendProperties, LenProperties
<1> HIDE DEF longer, M
<1> DEFINE CountedIn(s) == {s.nodes[i] : i \in Counted(finish, s)}
<1>2. CompletedIn(finish, longer) = UNION {CountedIn(longer[i]) : i \in 1..(M + 1)}
      /\ CompletedIn(finish, trace) = UNION {CountedIn(trace[i]) : i \in 1..M}
  BY <1>1 DEF CompletedIn
<1> HIDE DEF CountedIn
<1>3. 1..(M + 1) = 1..M \cup {M + 1}
  BY <1>1
<1>4. UNION {CountedIn(longer[i]) : i \in 1..(M + 1)} =
          (UNION {CountedIn(trace[i]) : i \in 1..M}) \cup CountedIn(step)
  BY <1>1, <1>3
<1>5. CompletedIn(finish, <<>>) = {}
  BY DEF CompletedIn
<1> QED
  BY <1>2, <1>4, <1>5 DEF longer, CountedIn

\* The nodes a wave counts are nodes.
LEMMA CountedNodes ==
    ASSUME NEW finish, NEW step \in Steps
    PROVE  {step.nodes[i] : i \in Counted(finish, step)} \subseteq Nodes
  BY StepFields DEF Counted

(***************************************************************************)
(* The inductive invariant                                                 *)
(***************************************************************************)
\* A call that is going on.
Going(u) == u.pc \in {"top", "wave", "saving"}

\* Only stream() and resume() run waves; how many they have run.
Placed(u) ==
    /\ u.pc \in {"top", "wave"} => u.kind \in {"stream", "resume"}
    /\ u.pc = "saving" /\ u.after = "top" => u.kind \in {"stream", "resume"}
    /\ Going(u) /\ u.kind = "stream" => u.waves <= u.waveCount
    /\ u.kind = "stream" /\ u.pc = "wave" => u.waves + 1 <= u.waveCount
    /\ u.kind = "resume" /\ u.pc = "wave" => u.waves <= MaxResumed

\* What a call has in hand is what its history leads to.
Whole(c, finish) ==
    /\ c.state = StateAfter(finish, c.trace)
    /\ c.completed = CompletedIn(finish, c.trace)

\* A call that is about to end, or has ended, at a finish point.
Finishing(u, finish) ==
    /\ u.pc = "saving" /\ u.after = "end" => finish \cap u.completed # {}
    /\ u.kind = "stream" /\ u.outcome = "end" /\ finish # {} =>
           finish \cap u.completed # {}

\* What was saved is continued by a call that nobody else saved behind.
Continues(u, cp) ==
    /\ u.overlaid \/ IsPrefix(cp.state, u.state)
    /\ cp.completed \subseteq u.completed
    /\ IsPrefix(cp.trace, u.trace)

Bounded(u, g) ==
    /\ u.waveCount <= g.recursionLimit
    /\ u.waves <= IF u.kind = "stream" THEN g.recursionLimit ELSE MaxResumed + 1
    /\ DOMAIN u.results = IF u.pc = "wave" THEN DOMAIN u.runnable ELSE {}

Sound(u, g, saved) ==
    /\ u \in RunType /\ Bounded(u, g) /\ Placed(u)
    /\ Going(u) => Whole(u, g.finish)
    /\ Finishing(u, g.finish)
    /\ u.alone => Going(u) /\ \A cp \in saved : Continues(u, cp)

IInv ==
    /\ graph \in Graphs
    /\ latest \subseteq Checkpoints
    /\ \A cp \in latest : cp.waveCount <= graph.recursionLimit
                          /\ Whole(cp, graph.finish)
    /\ run \in [Runs -> RunType]
    /\ \A r \in Runs : Sound(run[r], graph, latest)

(***************************************************************************)
(* Prefixes, and steps of one call                                         *)
(***************************************************************************)
LEMMA PrefixIs ==
    ASSUME NEW S, NEW s \in Seq(S), NEW t \in Seq(S)
    PROVE  IsPrefix(s, t) <=> /\ Len(s) <= Len(t)
                              /\ \A i \in 1..Len(s) : s[i] = t[i]
<1>1. Len(s) \in Nat /\ Len(t) \in Nat
  BY LenProperties
<1>2. SubSeq(s, 1, Len(s)) = [i \in 1..Len(s) |-> s[i]]
  BY <1>1, SubSeqProperties
<1>3. ASSUME Len(s) <= Len(t)
      PROVE  SubSeq(t, 1, Len(s)) = [i \in 1..Len(s) |-> t[i]]
  BY <1>1, <1>3, SubSeqProperties
<1>4. [i \in 1..Len(s) |-> s[i]] = [i \in 1..Len(s) |-> t[i]]
      <=> \A i \in 1..Len(s) : s[i] = t[i]
  <2> DEFINE f == [i \in 1..Len(s) |-> s[i]]
             g == [i \in 1..Len(s) |-> t[i]]
  <2>1. \A i \in 1..Len(s) : f[i] = s[i] /\ g[i] = t[i]
    OBVIOUS
  <2> QED
    BY <2>1
<1> QED
  BY <1>2, <1>3, <1>4 DEF IsPrefix

\* A prefix of what is there is one of what is made of it by adding.
LEMMA PrefixKept ==
    ASSUME NEW S, NEW s \in Seq(S), NEW t \in Seq(S), NEW x \in Seq(S)
    PROVE  /\ IsPrefix(s, s)
           /\ IsPrefix(s, t) => IsPrefix(s, t \o x)
<1>1. IsPrefix(s, s)
  BY PrefixIs, LenProperties
<1>2. ASSUME IsPrefix(s, t) PROVE IsPrefix(s, t \o x)
  <2>1. /\ t \o x \in Seq(S) /\ Len(t \o x) = Len(t) + Len(x)
        /\ \A i \in 1..(Len(t) + Len(x)) :
               (t \o x)[i] = IF i <= Len(t) THEN t[i] ELSE x[i - Len(t)]
        /\ Len(s) \in Nat /\ Len(t) \in Nat /\ Len(x) \in Nat
    BY ConcatProperties, LenProperties
  <2>2. Len(s) <= Len(t) /\ \A i \in 1..Len(s) : s[i] = t[i]
    BY <1>2, PrefixIs
  <2> DEFINE u == t \o x
  <2>3. Len(s) <= Len(u) /\ \A i \in 1..Len(s) : s[i] = u[i]
    BY <2>1, <2>2
  <2> HIDE DEF u
  <2>4. u \in Seq(S)
    BY <2>1 DEF u
  <2>5. IsPrefix(s, u)
    BY <2>3, <2>4, PrefixIs
  <2> QED
    BY <2>5 DEF u
<1> QED
  BY <1>1, <1>2

LEMMA PrefixAppended ==
    ASSUME NEW S, NEW s \in Seq(S), NEW t \in Seq(S), NEW x \in S
    PROVE  IsPrefix(s, t) => IsPrefix(s, Append(t, x))
<1>1. <<x>> \in Seq(S) /\ Append(t, x) = t \o <<x>>
  BY AppendIsConcat
<1> QED
  BY <1>1, PrefixKept

\* The graph of the thread.
LEMMA GraphFields ==
    ASSUME NEW g \in Graphs
    PROVE  /\ g.start \in Seq(Nodes) /\ g.edges \in [Nodes -> Seq(Nodes)]
           /\ g.routes \in [Nodes -> SUBSET Seq(Nodes)]
           /\ g.sends \in [Nodes -> SUBSET Seq(Nodes)]
           /\ g.finish \subseteq Nodes /\ g.recursionLimit \in Nat
  BY GraphAssumption DEF GraphType

\* A call does something, and the others and the checkpoints stay.
LEMMA OneCallChanges ==
    ASSUME IInv, UNCHANGED <<graph, latest>>, NEW r \in Runs, NEW u,
           run' = [run EXCEPT ![r] = u], Sound(u, graph, latest)
    PROVE  IInv'
<1>1. run' \in [Runs -> RunType]
  BY DEF IInv, Sound
<1>2. \A q \in Runs : run'[q] = IF q = r THEN u ELSE run[q]
  BY DEF IInv
<1>3. \A q \in Runs : Sound(run'[q], graph, latest)
  BY <1>2 DEF IInv
<1> QED
  BY <1>1, <1>3 DEF IInv

\* Calls do not begin or end with anything in hand.
LEMMA UnusedType == Unused \in RunType
<1>1. <<>> \in Seq(Nodes) /\ <<>> \in Seq(Entries) /\ <<>> \in Seq(Steps)
      /\ <<>> \in Seq(Results \cup {None})
  BY EmptySeq
<1> QED
  BY <1>1 DEF Unused, RunType, Pcs

\* A call ends: what it had is gone.
LEMMA EndedIsSound ==
    ASSUME IInv, NEW r \in Runs, NEW how \in Outcomes \cup {None}, NEW saved,
           how = "end" /\ run[r].kind = "stream" /\ graph.finish # {} =>
               graph.finish \cap run[r].completed # {}
    PROVE  /\ Ended(r, how) = [run EXCEPT ![r] = Ended(r, how)[r]]
           /\ Sound(Ended(r, how)[r], graph, saved)
<1> DEFINE over == [Unused EXCEPT !.kind = run[r].kind, !.pc = "ended",
                                  !.outcome = how]
           u == IF how # "end" THEN over
                ELSE [over EXCEPT !.completed = run[r].completed,
                                  !.queued = run[r].queued, !.ran = run[r].ran]
<1>1. Ended(r, how) = [run EXCEPT ![r] = u] /\ Ended(r, how)[r] = u
  BY DEF Ended, IInv
<1>2. run[r] \in RunType /\ graph.recursionLimit \in Nat
  BY GraphFields DEF IInv
<1>3. u \in RunType
  <2> DEFINE v == run[r]
  <2>1. v.kind \in Kinds \cup {None} /\ v.completed \subseteq Nodes
        /\ v.queued \subseteq Nodes /\ v.ran \subseteq Nodes
    BY <1>2 DEF RunType
  <2>2. "ended" \in Pcs
    BY DEF Pcs
  <2> HIDE DEF v
  <2>3. u = IF how # "end" THEN over
            ELSE [over EXCEPT !.completed = v.completed, !.queued = v.queued,
                              !.ran = v.ran]
    BY DEF v
  <2>4. over = [Unused EXCEPT !.kind = v.kind, !.pc = "ended", !.outcome = how]
    BY DEF v
  <2> HIDE DEF u, over
  <2>5. over \in RunType
    BY <2>1, <2>2, <2>4, UnusedType DEF RunType
  <2> QED
    BY <2>1, <2>3, <2>5 DEF RunType
<1>4. /\ u.kind = run[r].kind /\ u.pc = "ended"
      /\ u.outcome = how /\ u.waveCount = 0 /\ u.waves = 0
      /\ u.results = <<>> /\ u.alone = FALSE
      /\ how = "end" => u.completed = run[r].completed
  BY DEF Unused
<1> HIDE DEF u
<1>5. DOMAIN u.results = {}
  BY <1>4
<1>6. Sound(u, graph, saved)
  BY <1>2, <1>3, <1>4, <1>5, GraphAssumption
  DEF Sound, Bounded, Placed, Going, Finishing
<1> QED
  BY <1>1, <1>6

LEMMA CallEnds ==
    ASSUME IInv, UNCHANGED <<graph, latest>>, NEW r \in Runs,
           NEW how \in Outcomes, run' = Ended(r, how),
           how = "end" /\ run[r].kind = "stream" /\ graph.finish # {} =>
               graph.finish \cap run[r].completed # {}
    PROVE  IInv'
<1>1. /\ run' = [run EXCEPT ![r] = Ended(r, how)[r]]
      /\ Sound(Ended(r, how)[r], graph, latest)
  BY EndedIsSound
<1> QED
  BY <1>1, OneCallChanges

\* A call goes on with what it has.
LEMMA CallGoesOn ==
    ASSUME IInv, UNCHANGED <<graph, latest>>, NEW r \in Runs, NEW u \in RunType,
           run' = [run EXCEPT ![r] = u],
           Going(run[r]), Going(u), Bounded(u, graph), Placed(u),
           Finishing(u, graph.finish),
           u.state = run[r].state, u.completed = run[r].completed,
           u.trace = run[r].trace, u.overlaid = run[r].overlaid,
           u.alone = run[r].alone
    PROVE  IInv'
<1>1. Sound(run[r], graph, latest)
  BY DEF IInv
<1>2. Sound(u, graph, latest)
  BY <1>1 DEF Sound, Whole, Continues
<1> QED
  BY <1>2, OneCallChanges

\* A call begins with a checkpoint.
LEMMA CallBegins ==
    ASSUME IInv, UNCHANGED <<graph, latest>>, NEW r \in Runs, NEW u \in RunType,
           run' = [run EXCEPT ![r] = u],
           NEW cp \in Checkpoints, cp.waveCount <= graph.recursionLimit,
           u.completed = cp.completed, u.waveCount = cp.waveCount,
           u.alone = (latest \subseteq {cp}), u.waves = 0,
           u.outcome = None, u.after # "end", Going(u),
           u.overlaid \/ IsPrefix(cp.state, u.state),
           IsPrefix(cp.trace, u.trace), Whole(u, graph.finish), Placed(u),
           DOMAIN u.results = IF u.pc = "wave" THEN DOMAIN u.runnable ELSE {}
    PROVE  IInv'
<1>1. graph.recursionLimit \in Nat /\ MaxResumed \in Nat
  BY GraphFields, GraphAssumption DEF IInv
<1>2. Bounded(u, graph)
  BY <1>1 DEF Bounded
<1>3. Finishing(u, graph.finish)
  <2>1. u.outcome # "end"
    BY GraphAssumption DEF Outcomes
  <2> QED
    BY <2>1 DEF Finishing
<1>4. u.alone => \A old \in latest : Continues(u, old)
  BY DEF Continues
<1>5. Sound(u, graph, latest)
  BY <1>2, <1>3, <1>4 DEF Sound
<1> QED
  BY <1>5, OneCallChanges

(***************************************************************************)
(* A merged wave                                                           *)
(***************************************************************************)
\* A wave whose nodes have all settled is a step of a history.
LEMMA WaveIsStep ==
    ASSUME IInv, NEW r \in Runs, Settled(r)
    PROVE  /\ Wave(r) \in Steps
           /\ Wave(r).kind = run[r].kind /\ run[r].kind \in {"stream", "resume"}
           /\ Wave(r).nodes = run[r].runnable
           /\ Wave(r).results = run[r].results
<1>1. run[r] \in RunType /\ Bounded(run[r], graph) /\ Placed(run[r])
  BY DEF IInv, Sound
<1>2. /\ run[r].pc = "wave" /\ run[r].kind \in {"stream", "resume"}
      /\ DOMAIN run[r].results = DOMAIN run[r].runnable
      /\ \A i \in DOMAIN run[r].runnable : run[r].results[i] # None
  BY <1>1 DEF Settled, Placed, Bounded
<1>3. run[r].runnable \in Seq(Nodes) /\ run[r].results \in Seq(Results \cup {None})
  BY <1>1 DEF RunType
<1>4. run[r].results \in Seq(Results)
  <2> DEFINE s == run[r].results
  <2>1. s \in Seq(Results \cup {None}) /\ \A i \in DOMAIN s : s[i] # None
    BY <1>2, <1>3
  <2> HIDE DEF s
  <2>2. /\ Len(s) \in Nat /\ DOMAIN s = 1..Len(s)
        /\ s \in [1..Len(s) -> Results \cup {None}]
    BY <2>1, LenProperties
  <2>3. \A i \in 1..Len(s) : s[i] \in Results
    BY <2>1, <2>2
  <2>4. [i \in 1..Len(s) |-> s[i]] \in Seq(Results)
    BY <2>2, <2>3, IsASeq
  <2>5. s = [i \in 1..Len(s) |-> s[i]]
    BY <2>2
  <2>6. s \in Seq(Results)
    BY <2>4, <2>5
  <2> QED
    BY <2>6 DEF s
<1> QED
  BY <1>2, <1>3, <1>4 DEF Wave, Steps, Kinds

\* What is merged of a wave is what counts of it: all of it, or what comes
\* before the first finish point, and that.
LEMMA UsedIsCounted ==
    ASSUME IInv, NEW r \in Runs, Settled(r)
    PROVE  /\ Used(r) = Counted(graph.finish, Wave(r))
           /\ \E k \in 0..Len(run[r].runnable) : Used(r) = 1..k
           /\ Finishers(r) # {} =>
                  graph.finish \cap {run[r].runnable[i] : i \in Used(r)} # {}
<1> DEFINE s == run[r].runnable
           F == Finishers(r)
<1>1. s \in Seq(Nodes) /\ Wave(r).nodes = s
  BY WaveIsStep DEF IInv, RunType
<1>2. Len(s) \in Nat /\ DOMAIN s = 1..Len(s)
  BY <1>1, LenProperties
<1>3. F = {i \in 1..Len(s) : s[i] \in graph.finish}
  BY <1>2 DEF Finishers
<1>4. Counted(graph.finish, Wave(r)) =
          {i \in 1..Len(s) : \A j \in 1..(i - 1) : j \notin F}
  <2>1. \A i \in 1..Len(s) : \A j \in 1..(i - 1) : j \in 1..Len(s)
    BY <1>2
  <2> HIDE DEF s, F
  <2>2. Counted(graph.finish, Wave(r)) =
            {i \in 1..Len(s) : \A j \in 1..(i - 1) : s[j] \notin graph.finish}
    BY <1>1, <1>2 DEF Counted
  <2> QED
    BY <1>3, <2>1, <2>2
<1>5. Used(r) = IF F = {} THEN 1..Len(s)
                ELSE 1..(CHOOSE i \in F : \A j \in F : i <= j)
  BY <1>2 DEF Used
<1>6. CASE F = {}
  <2>1. Used(r) = 1..Len(s)
    BY <1>5, <1>6
  <2>2. Counted(graph.finish, Wave(r)) = 1..Len(s)
    BY <1>4, <1>6
  <2> QED
    BY <1>2, <1>6, <2>1, <2>2
<1>7. CASE F # {}
  <2>1. F \subseteq Nat
    BY <1>2, <1>3
  <2> DEFINE m == CHOOSE i \in F : \A j \in F : i <= j
  <2>2. m \in F /\ \A j \in F : m <= j
    <3> HIDE DEF F
    <3>1. \E i \in F : \A j \in F : i <= j
      BY <1>7, <2>1, SmallestMember
    <3> QED
      BY <3>1
  <2>3. Used(r) = 1..m
    BY <1>5, <1>7
  <2> HIDE DEF m, F
  <2>4. m \in 1..Len(s) /\ s[m] \in graph.finish
    BY <1>3, <2>2
  <2>5. Counted(graph.finish, Wave(r)) = 1..m
    <3>1. ASSUME NEW i \in 1..Len(s)
          PROVE  i <= m <=> \A j \in 1..(i - 1) : j \notin F
      BY <1>2, <2>1, <2>2, <2>4, <3>1
    <3> HIDE DEF s
    <3> QED
      BY <1>2, <1>4, <2>4, <3>1
  <2>6. graph.finish \cap {s[i] : i \in Used(r)} # {}
    BY <1>2, <2>3, <2>4
  <2>7. m \in 0..Len(s)
    BY <1>2, <2>4
  <2> QED
    BY <2>3, <2>5, <2>6, <2>7
<1> QED
  BY <1>6, <1>7

\* The outputs merged are those of the members that count.
LEMMA WrittenIsOutputs ==
    ASSUME IInv, NEW r \in Runs, Settled(r)
    PROVE  /\ Written(r, Used(r)) = OutputsOf(graph.finish, Wave(r))
           /\ Written(r, Used(r)) \in Seq(Entries)
<1> DEFINE s == run[r].runnable
           one(i) == IF run[r].results[i] = Wrote THEN <<Output(s[i])>> ELSE <<>>
           counted == Counted(graph.finish, Wave(r))
<1>1. PICK k \in 0..Len(s) : Used(r) = 1..k
  BY UsedIsCounted
<1>2. /\ Wave(r) \in Steps /\ Wave(r).nodes = s
      /\ Wave(r).results = run[r].results
  BY WaveIsStep
<1>3. /\ Len(s) \in Nat /\ DOMAIN s = 1..Len(s)
      /\ \A i \in 1..Len(s) : s[i] \in Nodes
  BY <1>2, StepFields
<1>4. counted = 1..k
  BY <1>1, UsedIsCounted
<1> DEFINE a == [i \in 1..k |-> one(i)]
           b == [i \in 1..Len(s) |->
                    IF i \in counted /\ run[r].results[i] = Wrote
                    THEN <<Output(s[i])>> ELSE <<>>]
<1>5. Written(r, Used(r)) = FlattenSeq(a)
  BY <1>1 DEF Written
<1>6. OutputsOf(graph.finish, Wave(r)) = FlattenSeq(b)
  BY <1>2, <1>3 DEF OutputsOf
<1>7. OutputsOf(graph.finish, Wave(r)) \in Seq(Entries)
  BY <1>2, EffectTypes
<1>8. \A i \in 1..Len(s) : /\ <<Output(s[i])>> \in Seq(Entries)
                           /\ <<>> \in Seq(Entries)
  <2>1. ASSUME NEW i \in 1..Len(s) PROVE Output(s[i]) \in Entries
    BY <1>3, <2>1 DEF Output, Entries
  <2> QED
    BY <2>1, EmptySeq
<1>9. k \in Nat /\ k <= Len(s)
  BY <1>1, <1>3
<1>10. a \in Seq(Seq(Entries)) /\ b \in Seq(Seq(Entries))
       /\ Len(a) = k /\ Len(b) = Len(s)
  <2> HIDE DEF s, counted
  <2>1. \A i \in 1..k : one(i) \in Seq(Entries)
    BY <1>3, <1>8, <1>9
  <2>2. \A i \in 1..Len(s) : b[i] \in Seq(Entries)
    BY <1>8
  <2>3. a \in Seq(Seq(Entries))
    <3> HIDE DEF one
    <3> QED
      BY <1>9, <2>1, IsASeq
  <2>4. b \in Seq(Seq(Entries))
    <3> DEFINE e(i) == IF i \in counted /\ run[r].results[i] = Wrote
                    THEN <<Output(s[i])>> ELSE <<>>
    <3>1. \A i \in 1..Len(s) : e(i) \in Seq(Entries)
      BY <1>8
    <3>2. b = [i \in 1..Len(s) |-> e(i)]
      OBVIOUS
    <3> HIDE DEF e, b
    <3>3. [i \in 1..Len(s) |-> e(i)] \in Seq(Seq(Entries))
      BY <1>3, <3>1, IsASeq
    <3> QED
      BY <3>2, <3>3
  <2>5. DOMAIN a = 1..k /\ DOMAIN b = 1..Len(s)
    OBVIOUS
  <2> HIDE DEF a, b
  <2> QED
    BY <1>3, <1>9, <2>3, <2>4, <2>5, LenProperties
<1>11. /\ \A i \in 1..k : b[i] = a[i]
       /\ \A i \in (k + 1)..Len(s) : b[i] = <<>>
  <2> HIDE DEF s, counted
  <2> QED
    BY <1>3, <1>4, <1>9
<1>12. FlattenSeq(b) = FlattenSeq(a)
  <2> HIDE DEF a, b, s
  <2> QED
    BY <1>9, <1>10, <1>11, FlattenIgnores
<1> QED
  BY <1>5, <1>6, <1>7, <1>12

\* The Sends extracted are those the wave is known for.
LEMMA SendsAreSends ==
    ASSUME IInv, NEW r \in Runs, Settled(r)
    PROVE  IF Finishers(r) = {}
           THEN /\ Sends(r) = SendsOf(graph.finish, Wave(r))
                /\ Sends(r) \in Seq(Nodes)
           ELSE SendsOf(graph.finish, Wave(r)) = <<>>
<1> DEFINE s == run[r].runnable
<1>1. /\ Wave(r) \in Steps /\ Wave(r).nodes = s /\ Wave(r).kind = run[r].kind
      /\ Wave(r).results = run[r].results
  BY WaveIsStep
<1>2. ToSet(s) \cap graph.finish = {} <=> Finishers(r) = {}
  BY DEF Finishers, ToSet
<1>3. SendsOf(graph.finish, Wave(r)) \in Seq(Nodes)
  BY <1>1, EffectTypes
<1>4. CASE Finishers(r) = {}
  <2>1. Used(r) = DOMAIN s
    BY <1>4 DEF Used
  <2>2. Sends(r) = SendsOf(graph.finish, Wave(r))
    BY <1>1, <1>2, <1>4, <2>1 DEF Sends, SendsOf
  <2> QED
    BY <1>3, <1>4, <2>2
<1>5. CASE Finishers(r) # {}
  BY <1>1, <1>2, <1>5 DEF SendsOf
<1> QED
  BY <1>4, <1>5

\* What the code makes of a state is what the wave is said to make of it.
LEMMA MergeIsEffect ==
    ASSUME IInv, NEW r \in Runs, Settled(r), NEW h \in Seq(Entries)
    PROVE  /\ Finishers(r) = {} =>
                  /\ Args(r) \in Seq(Entries)
                  /\ h \o Written(r, Used(r)) \o Args(r) =
                         Effect(graph.finish, h, Wave(r))
           /\ Finishers(r) # {} =>
                  h \o Written(r, Used(r)) \o <<>> =
                      Effect(graph.finish, h, Wave(r))
<1> DEFINE sent == SendsOf(graph.finish, Wave(r))
           outputs == Written(r, Used(r))
<1>1. Wave(r).kind \in {"stream", "resume"}
  BY WaveIsStep
<1>2. outputs = OutputsOf(graph.finish, Wave(r)) /\ outputs \in Seq(Entries)
  BY WrittenIsOutputs
<1>3. Effect(graph.finish, h, Wave(r)) =
          h \o outputs \o [i \in DOMAIN sent |-> Arg(sent[i])]
  BY <1>1, <1>2 DEF Effect
<1>4. CASE Finishers(r) = {}
  <2>1. Sends(r) = sent /\ sent \in Seq(Nodes)
    BY <1>4, SendsAreSends
  <2>2. Args(r) = [i \in DOMAIN sent |-> Arg(sent[i])]
    BY <2>1 DEF Args
  <2>3. [i \in DOMAIN sent |-> Arg(sent[i])] \in Seq(Entries)
    <3> HIDE DEF sent
    <3> QED
      BY <2>1, ArgsType
  <2> QED
    BY <1>3, <1>4, <2>2, <2>3
<1>5. CASE Finishers(r) # {}
  <2>1. sent = <<>>
    BY <1>5, SendsAreSends
  <2>2. [i \in DOMAIN sent |-> Arg(sent[i])] = <<>>
    BY <2>1
  <2> QED
    BY <1>3, <1>5, <2>2
<1> QED
  BY <1>4, <1>5

(***************************************************************************)
(* Beginning                                                               *)
(***************************************************************************)
LEMMA NothingSaved ==
    ASSUME NEW finish
    PROVE  /\ NoCheckpoint \in Checkpoints /\ Whole(NoCheckpoint, finish)
           /\ NoCheckpoint.waveCount = 0
<1>1. <<>> \in Seq(Entries) /\ <<>> \in Seq(Nodes) /\ <<>> \in Seq(Steps)
  BY EmptySeq
<1>2. NoCheckpoint \in Checkpoints
  BY <1>1 DEF NoCheckpoint, Checkpoints
<1>3. CompletedIn(finish, <<>>) = {}
  BY DEF CompletedIn
<1> QED
  BY <1>2, <1>3, StateAfterNothing DEF NoCheckpoint, Whole

\* An input or an update is a step of a history, and completes no node.
LEMMA UpdateIsStep ==
    ASSUME NEW finish, NEW trace \in Seq(Steps),
           NEW kind \in {"update", "overlay"}
    PROVE  /\ Step(kind) \in Steps /\ Append(trace, Step(kind)) \in Seq(Steps)
           /\ StateAfter(finish, trace) \in Seq(Entries)
           /\ StateAfter(finish, Append(trace, Step(kind))) =
                  IF kind = "update" THEN Append(StateAfter(finish, trace), Update)
                  ELSE <<Update>>
           /\ CompletedIn(finish, Append(trace, Step(kind))) =
                  CompletedIn(finish, trace)
<1>1. <<>> \in Seq(Nodes) /\ <<>> \in Seq(Results)
  BY EmptySeq
<1>2. Step(kind) \in Steps
  BY <1>1 DEF Step, Steps, Kinds
<1>3. StateAfter(finish, trace) \in Seq(Entries)
      /\ StateAfter(finish, Append(trace, Step(kind))) =
             Effect(finish, StateAfter(finish, trace), Step(kind))
  BY <1>2, StateAfterStep
<1>4. Step(kind).kind = kind /\ Step(kind).nodes = <<>>
  BY DEF Step
<1>5. Effect(finish, StateAfter(finish, trace), Step(kind)) =
          IF kind = "update" THEN Append(StateAfter(finish, trace), Update)
          ELSE <<Update>>
  BY <1>4 DEF Effect
<1>6. Counted(finish, Step(kind)) = {}
  BY <1>4 DEF Counted
<1>7. CompletedIn(finish, Append(trace, Step(kind))) = CompletedIn(finish, trace)
  <2>1. {Step(kind).nodes[i] : i \in Counted(finish, Step(kind))} = {}
    BY <1>6
  <2> DEFINE step == Step(kind)
  <2>2. step \in Steps /\ {step.nodes[i] : i \in Counted(finish, step)} = {}
    BY <1>2, <2>1
  <2> HIDE DEF step
  <2>3. CompletedIn(finish, Append(trace, step)) =
            CompletedIn(finish, trace)
            \cup {step.nodes[i] : i \in Counted(finish, step)}
    BY <2>2, CompletedInStep
  <2>4. CompletedIn(finish, Append(trace, step)) = CompletedIn(finish, trace)
    BY <2>2, <2>3
  <2> QED
    BY <2>4 DEF step
<1> QED
  BY <1>2, <1>3, <1>5, <1>7, AppendProperties

LEMMA FromType ==
    ASSUME NEW cp \in Checkpoints, NEW kind \in Kinds
    PROVE  From(cp, kind) \in RunType
<1>1. ToSet(cp.next) \subseteq Nodes /\ cp.completed \subseteq Nodes
      /\ cp.waveCount \in Nat
  <2>1. cp.next \in Seq(Nodes) /\ cp.completed \subseteq Nodes
        /\ cp.waveCount \in Nat
    BY DEF Checkpoints
  <2>2. cp.next \in [1..Len(cp.next) -> Nodes]
    BY <2>1, LenProperties
  <2> QED
    BY <2>1, <2>2 DEF ToSet
<1> DEFINE queued == IF Active = {} THEN ToSet(cp.next) ELSE {}
           only == latest \subseteq {cp}
<1>2. queued \subseteq Nodes /\ only \in BOOLEAN
  BY <1>1
<1>3. From(cp, kind) = [Unused EXCEPT !.kind = kind,
          !.completed = cp.completed, !.waveCount = cp.waveCount,
          !.alone = only, !.queued = queued]
  BY DEF From
<1> HIDE DEF queued, only
<1> QED
  BY <1>1, <1>2, <1>3, UnusedType DEF RunType

LEMMA InitialRunnableType ==
    ASSUME IInv, NEW completed
    PROVE  GetInitialRunnable(completed) \in Seq(Nodes)
<1> DEFINE s == graph.start
           one(i) == IF s[i] \in completed THEN <<>> ELSE <<s[i]>>
<1>1. s \in Seq(Nodes)
  BY GraphFields DEF IInv
<1>2. Len(s) \in Nat /\ DOMAIN s = 1..Len(s)
  BY <1>1, LenProperties
<1>3. ASSUME NEW i \in 1..Len(s) PROVE one(i) \in Seq(Nodes)
  <2>1. s[i] \in Nodes
    BY <1>1, <1>3, ElementOfSeq
  <2> QED
    BY <2>1, EmptySeq
<1>4. GetInitialRunnable(completed) = FlattenSeq([i \in 1..Len(s) |-> one(i)])
  BY <1>2 DEF GetInitialRunnable
<1> HIDE DEF one, s
<1>5. [i \in 1..Len(s) |-> one(i)] \in Seq(Seq(Nodes))
  BY <1>2, <1>3, IsASeq
<1> QED
  BY <1>4, <1>5, FlattenType

LEMMA StreamKeeps ==
    ASSUME IInv, NEW r \in Runs, Stream(r)
    PROVE  IInv'
<1>1. PICK cp \in latest \cup {NoCheckpoint} :
          /\ Loads(r, cp)
          /\ run' = [run EXCEPT ![r] =
                  [From(cp, "stream") EXCEPT
                      !.pc = "top",
                      !.state = IF latest = {} THEN <<Update>>
                                ELSE Restored(<<Update>>, cp),
                      !.trace = IF latest = {} THEN <<Step("update")>>
                                ELSE cp.trace,
                      !.runnable = GetInitialRunnable(cp.completed)]]
          /\ UNCHANGED <<graph, latest>>
  BY DEF Stream
<1> DEFINE finish == graph.finish
           state == IF latest = {} THEN <<Update>> ELSE Restored(<<Update>>, cp)
           trace == IF latest = {} THEN <<Step("update")>> ELSE cp.trace
           runnable == GetInitialRunnable(cp.completed)
           u == [From(cp, "stream") EXCEPT !.pc = "top", !.state = state,
                     !.trace = trace, !.runnable = runnable]
<1>2. /\ cp \in Checkpoints /\ Whole(cp, finish)
      /\ cp.waveCount <= graph.recursionLimit /\ cp.waveCount >= 0
      /\ latest = {} => cp = NoCheckpoint
  <2>1. CASE cp \in latest
    BY <2>1 DEF IInv, Checkpoints
  <2>2. CASE cp = NoCheckpoint
    <3>1. graph.recursionLimit \in Nat
      BY GraphFields DEF IInv
    <3> QED
      BY <2>2, <3>1, NothingSaved
  <2> QED
    BY <2>1, <2>2, <1>1
<1>3. /\ state \in Seq(Entries) /\ trace \in Seq(Steps)
      /\ state = StateAfter(finish, trace)
      /\ cp.completed = CompletedIn(finish, trace)
      /\ IsPrefix(cp.state, state) /\ IsPrefix(cp.trace, trace)
  <2>1. cp.state \in Seq(Entries) /\ cp.trace \in Seq(Steps)
    BY <1>2 DEF Checkpoints
  <2>2. CASE latest = {}
    <3>1. /\ cp.state = <<>> /\ cp.trace = <<>> /\ cp.completed = {}
      BY <1>2, <2>2 DEF NoCheckpoint
    <3>2. state = Append(<<>>, Update) /\ trace = Append(<<>>, Step("update"))
      BY <2>2
    <3>3. /\ Append(<<>>, Step("update")) \in Seq(Steps)
          /\ StateAfter(finish, Append(<<>>, Step("update"))) = Append(<<>>, Update)
          /\ CompletedIn(finish, Append(<<>>, Step("update"))) = {}
          /\ Step("update") \in Steps
      <4>1. <<>> \in Seq(Steps) /\ "update" \in {"update", "overlay"}
        BY <2>1, <3>1
      <4>2. StateAfter(finish, <<>>) = <<>> /\ CompletedIn(finish, <<>>) = {}
        BY <4>1, StateAfterNothing DEF CompletedIn
      <4> QED
        BY <4>1, <4>2, UpdateIsStep
    <3>4. Update \in Entries
      BY DEF Update, Entries
    <3>5. IsPrefix(<<>>, Append(<<>>, Update))
          /\ Append(<<>>, Update) \in Seq(Entries)
      <4>1. <<>> \in Seq(Entries)
        BY <2>1, <3>1
      <4>2. IsPrefix(<<>>, <<>>)
        BY <4>1, PrefixKept
      <4> QED
        BY <3>4, <4>1, <4>2, PrefixAppended, AppendProperties
    <3>6. IsPrefix(<<>>, Append(<<>>, Step("update")))
      <4>1. <<>> \in Seq(Steps)
        BY <2>1, <3>1
      <4>2. IsPrefix(<<>>, <<>>)
        BY <4>1, PrefixKept
      <4> QED
        BY <3>3, <4>1, <4>2, PrefixAppended
    <3> QED
      BY <3>1, <3>2, <3>3, <3>5, <3>6
  <2>3. CASE latest # {}
    <3>1. state = cp.state /\ trace = cp.trace
      BY <2>3 DEF Restored
    <3> QED
      BY <1>2, <2>1, <3>1, PrefixKept DEF Whole
  <2> QED
    BY <2>2, <2>3
<1>4. runnable \in Seq(Nodes)
  BY InitialRunnableType
<1>5. run' = [run EXCEPT ![r] = u] /\ UNCHANGED <<graph, latest>>
  BY <1>1
<1> HIDE DEF state, trace, runnable, finish
<1>6. u \in RunType
  <2>1. From(cp, "stream") \in RunType
    BY <1>2, FromType DEF Kinds
  <2> QED
    BY <1>3, <1>4, <2>1 DEF RunType, Pcs
<1>7. /\ u.kind = "stream" /\ u.pc = "top" /\ u.outcome = None
      /\ u.state = state /\ u.trace = trace /\ u.completed = cp.completed
      /\ u.waveCount = cp.waveCount /\ u.waves = 0 /\ u.results = <<>>
      /\ u.after = None /\ u.alone = (latest \subseteq {cp})
  BY DEF From, Unused
<1> HIDE DEF u
<1>8. Going(u) /\ Whole(u, graph.finish) /\ Placed(u)
  BY <1>2, <1>3, <1>7 DEF Going, Whole, Placed, finish
<1>9. DOMAIN u.results = {} /\ u.after # "end"
  BY <1>7, GraphAssumption DEF Outcomes
<1> QED
  BY <1>2, <1>3, <1>5, <1>6, <1>7, <1>8, <1>9, CallBegins

LEMMA ResumeKeeps ==
    ASSUME IInv, NEW r \in Runs, NEW overlay \in BOOLEAN,
           NEW named \in ResumeNodes \cup {None}, Resume(r, overlay, named)
    PROVE  IInv'
<1>1. PICK cp \in latest :
          /\ named # None \/ cp.next # <<>>
          /\ run' = [run EXCEPT ![r] =
               [From(cp, "resume") EXCEPT
                   !.pc = "wave",
                   !.queued = IF named = None THEN @ ELSE {},
                   !.state = IF overlay THEN <<Update>> ELSE cp.state,
                   !.trace = IF overlay THEN Append(cp.trace, Step("overlay"))
                             ELSE cp.trace,
                   !.overlaid = overlay,
                   !.runnable = IF named = None THEN <<Head(cp.next)>>
                                ELSE <<named>>,
                   !.results = <<None>>]]
          /\ UNCHANGED <<graph, latest>>
  BY DEF Resume
<1> DEFINE finish == graph.finish
           begun == From(cp, "resume")
           queued == IF named = None THEN begun.queued ELSE {}
           state == IF overlay THEN <<Update>> ELSE cp.state
           trace == IF overlay THEN Append(cp.trace, Step("overlay"))
                    ELSE cp.trace
           runnable == IF named = None THEN <<Head(cp.next)>> ELSE <<named>>
           u == [begun EXCEPT !.pc = "wave", !.queued = queued, !.state = state,
                     !.trace = trace, !.overlaid = overlay,
                     !.runnable = runnable, !.results = <<None>>]
<1>2. /\ cp \in Checkpoints /\ Whole(cp, finish)
      /\ cp.waveCount <= graph.recursionLimit
      /\ cp.state \in Seq(Entries) /\ cp.trace \in Seq(Steps)
      /\ cp.next \in Seq(Nodes)
  BY DEF IInv, Checkpoints
<1>3. /\ state \in Seq(Entries) /\ trace \in Seq(Steps)
      /\ state = StateAfter(finish, trace)
      /\ cp.completed = CompletedIn(finish, trace)
      /\ overlay \/ IsPrefix(cp.state, state)
      /\ IsPrefix(cp.trace, trace)
  <2>1. CASE overlay
    <3>1. /\ Append(cp.trace, Step("overlay")) \in Seq(Steps)
          /\ Step("overlay") \in Steps
          /\ StateAfter(finish, Append(cp.trace, Step("overlay"))) = <<Update>>
          /\ CompletedIn(finish, Append(cp.trace, Step("overlay"))) =
                 CompletedIn(finish, cp.trace)
      BY <1>2, UpdateIsStep
    <3>2. <<Update>> \in Seq(Entries)
      BY DEF Update, Entries
    <3>3. IsPrefix(cp.trace, Append(cp.trace, Step("overlay")))
      BY <1>2, <3>1, PrefixKept, PrefixAppended
    <3> QED
      BY <1>2, <2>1, <3>1, <3>2, <3>3 DEF Whole
  <2>2. CASE ~overlay
    <3>1. IsPrefix(cp.state, cp.state) /\ IsPrefix(cp.trace, cp.trace)
      BY <1>2, PrefixKept
    <3> QED
      BY <1>2, <2>2, <3>1 DEF Whole
  <2> QED
    BY <2>1, <2>2
<1>4. runnable \in Seq(Nodes) /\ DOMAIN runnable = 1..1
  <2>1. CASE named = None
    <3>1. Head(cp.next) \in Nodes
      BY <1>1, <1>2, <2>1, HeadTailProperties
    <3> QED
      BY <2>1, <3>1
  <2>2. CASE named # None
    BY <2>2, GraphAssumption
  <2> QED
    BY <2>1, <2>2
<1>5. begun \in RunType /\ queued \subseteq Nodes
  <2>1. begun \in RunType
    BY <1>2, FromType DEF Kinds
  <2> HIDE DEF begun
  <2> QED
    BY <2>1 DEF RunType
<1>6. run' = [run EXCEPT ![r] = u] /\ UNCHANGED <<graph, latest>>
  BY <1>1
<1>7. /\ u.kind = "resume" /\ u.pc = "wave" /\ u.outcome = None
      /\ u.state = state /\ u.trace = trace /\ u.completed = cp.completed
      /\ u.waveCount = cp.waveCount /\ u.waves = 0 /\ u.results = <<None>>
      /\ u.runnable = runnable /\ u.overlaid = overlay
      /\ u.after = None /\ u.alone = (latest \subseteq {cp})
  <2> HIDE DEF queued, state, trace, runnable
  <2> QED
    BY DEF From, Unused
<1>8. u \in RunType
  <2>1. <<None>> \in Seq(Results \cup {None}) /\ "wave" \in Pcs
    BY DEF Pcs
  <2> HIDE DEF queued, state, trace, runnable, begun
  <2> QED
    BY <1>3, <1>4, <1>5, <2>1 DEF RunType
<1> HIDE DEF u, state, trace, runnable, queued, begun
<1>9. Going(u) /\ Whole(u, graph.finish) /\ Placed(u)
  BY <1>3, <1>7, GraphAssumption DEF Going, Whole, Placed, finish
<1>10. DOMAIN u.results = DOMAIN u.runnable /\ u.after # "end"
  <2>1. None # "end"
    BY GraphAssumption DEF Outcomes
  <2> QED
    BY <1>4, <1>7, <2>1
<1> QED
  BY <1>2, <1>3, <1>6, <1>7, <1>8, <1>9, <1>10, CallBegins

LEMMA UpdateStateKeeps ==
    ASSUME IInv, NEW r \in Runs, UpdateState(r)
    PROVE  IInv'
<1>1. PICK cp \in latest :
          /\ run' = [run EXCEPT ![r] =
               [From(cp, "update") EXCEPT
                   !.pc = "saving", !.after = "updated",
                   !.state = Append(cp.state, Update),
                   !.trace = Append(cp.trace, Step("update")),
                   !.runnable = cp.next]]
          /\ UNCHANGED <<graph, latest>>
  BY DEF UpdateState
<1> DEFINE finish == graph.finish
           begun == From(cp, "update")
           state == Append(cp.state, Update)
           trace == Append(cp.trace, Step("update"))
           u == [begun EXCEPT !.pc = "saving", !.after = "updated",
                     !.state = state, !.trace = trace, !.runnable = cp.next]
<1>2. /\ cp \in Checkpoints /\ Whole(cp, finish)
      /\ cp.waveCount <= graph.recursionLimit
      /\ cp.state \in Seq(Entries) /\ cp.trace \in Seq(Steps)
      /\ cp.next \in Seq(Nodes)
  BY DEF IInv, Checkpoints
<1>3. /\ state \in Seq(Entries) /\ trace \in Seq(Steps)
      /\ state = StateAfter(finish, trace)
      /\ cp.completed = CompletedIn(finish, trace)
      /\ IsPrefix(cp.state, state)
      /\ IsPrefix(cp.trace, trace)
  <2>1. /\ trace \in Seq(Steps) /\ Step("update") \in Steps
        /\ StateAfter(finish, trace) = Append(StateAfter(finish, cp.trace), Update)
        /\ CompletedIn(finish, trace) = CompletedIn(finish, cp.trace)
    BY <1>2, UpdateIsStep
  <2>2. Update \in Entries
    BY DEF Update, Entries
  <2>3. state \in Seq(Entries) /\ IsPrefix(cp.state, state)
    BY <1>2, <2>2, PrefixKept, PrefixAppended, AppendProperties
  <2>4. IsPrefix(cp.trace, trace)
    BY <1>2, <2>1, PrefixKept, PrefixAppended
  <2> QED
    BY <1>2, <2>1, <2>3, <2>4 DEF Whole
<1>4. begun \in RunType
  BY <1>2, FromType DEF Kinds
<1>5. run' = [run EXCEPT ![r] = u] /\ UNCHANGED <<graph, latest>>
  BY <1>1
<1>6. /\ u.kind = "update" /\ u.pc = "saving" /\ u.outcome = None
      /\ u.state = state /\ u.trace = trace /\ u.completed = cp.completed
      /\ u.waveCount = cp.waveCount /\ u.waves = 0 /\ u.results = <<>>
      /\ u.after = "updated" /\ u.alone = (latest \subseteq {cp})
  <2> HIDE DEF state, trace
  <2> QED
    BY DEF From, Unused
<1>7. u \in RunType
  <2>1. "saving" \in Pcs /\ "updated" \in Outcomes
    BY DEF Pcs, Outcomes
  <2> HIDE DEF state, trace, begun
  <2> QED
    BY <1>2, <1>3, <1>4, <2>1 DEF RunType
<1> HIDE DEF u, state, trace, begun
<1>8. Going(u) /\ Whole(u, graph.finish) /\ Placed(u)
  BY <1>3, <1>6 DEF Going, Whole, Placed, finish
<1>9. DOMAIN u.results = {}
  BY <1>6
<1> QED
  BY <1>2, <1>3, <1>5, <1>6, <1>7, <1>8, <1>9, CallBegins

(***************************************************************************)
(* Waves                                                                   *)
(***************************************************************************)
\* The waiting results of a wave.
LEMMA WaitingType ==
    ASSUME NEW runnable \in Seq(Nodes)
    PROVE  /\ [i \in DOMAIN runnable |-> None] \in Seq(Results \cup {None})
           /\ DOMAIN [i \in DOMAIN runnable |-> None] = DOMAIN runnable
<1>1. Len(runnable) \in Nat /\ DOMAIN runnable = 1..Len(runnable)
  BY LenProperties
<1>2. [i \in 1..Len(runnable) |-> None] \in Seq(Results \cup {None})
  BY <1>1, IsASeq
<1> QED
  BY <1>1, <1>2

LEMMA StreamWaveKeeps ==
    ASSUME IInv, NEW r \in Runs, StreamWave(r)
    PROVE  IInv'
<1> DEFINE v == run[r]
           waiting == [i \in DOMAIN v.runnable |-> None]
           seen == v.seen \cup {<<v.state, v.completed>>}
           u == [v EXCEPT !.pc = "wave", !.results = waiting,
                          !.waveCount = v.waveCount + 1, !.seen = seen]
<1>1. /\ v \in RunType /\ Sound(v, graph, latest)
      /\ v.kind = "stream" /\ v.pc = "top" /\ v.waveCount < graph.recursionLimit
  <2>1. v \in RunType /\ Sound(v, graph, latest) /\ graph.recursionLimit \in Nat
    BY GraphFields DEF IInv
  <2>2. v.kind = "stream" /\ v.pc = "top" /\ ~(v.waveCount >= graph.recursionLimit)
    BY DEF StreamWave, AtTop, OverLimit
  <2>3. v.waveCount \in Nat
    BY <2>1 DEF RunType
  <2> HIDE DEF v
  <2> QED
    BY <2>1, <2>2, <2>3
<1>2. v.runnable \in Seq(Nodes) /\ v.waveCount \in Nat /\ v.waves \in Nat
      /\ v.state \in Seq(Entries) /\ v.completed \in SUBSET Nodes
      /\ v.seen \subseteq Seq(Entries) \X SUBSET Nodes
  <2> HIDE DEF v
  <2> QED
    BY <1>1 DEF RunType
<1>3. waiting \in Seq(Results \cup {None}) /\ DOMAIN waiting = DOMAIN v.runnable
  BY <1>2, WaitingType
<1>4. seen \subseteq Seq(Entries) \X SUBSET Nodes
  BY <1>2
<1>5. run' = [run EXCEPT ![r] = u] /\ UNCHANGED <<graph, latest>>
  BY DEF StreamWave, BeginsWave, Fingerprint, IInv
<1> HIDE DEF waiting, seen
<1>6. /\ u.pc = "wave" /\ u.kind = v.kind /\ u.waveCount = v.waveCount + 1
      /\ u.waves = v.waves /\ u.results = waiting /\ u.runnable = v.runnable
      /\ u.after = v.after /\ u.outcome = v.outcome
      /\ u.state = v.state /\ u.completed = v.completed /\ u.trace = v.trace
      /\ u.overlaid = v.overlaid /\ u.alone = v.alone
  <2> HIDE DEF v
  <2> QED
    BY <1>1 DEF RunType
<1>7. u \in RunType
  <2> DEFINE count == v.waveCount + 1
  <2>1. "wave" \in Pcs /\ count \in Nat
    BY <1>2 DEF Pcs
  <2>2. u = [v EXCEPT !.pc = "wave", !.results = waiting,
                      !.waveCount = count, !.seen = seen]
    OBVIOUS
  <2> HIDE DEF v, u, count
  <2> QED
    BY <1>1, <1>3, <1>4, <2>1, <2>2 DEF RunType
<1> HIDE DEF u
<1>8. Going(v) /\ Going(u)
  BY <1>1, <1>6 DEF Going
<1> HIDE DEF v
<1>9. Bounded(u, graph) /\ Placed(u)
  <2>1. v.waves <= v.waveCount /\ v.waves <= graph.recursionLimit
    BY <1>1, <1>8 DEF Sound, Placed, Bounded
  <2>2. graph.recursionLimit \in Nat
    BY GraphFields DEF IInv
  <2>3. u.kind = "stream" /\ u.waves <= graph.recursionLimit
        /\ u.waveCount <= graph.recursionLimit
        /\ u.waves <= u.waveCount /\ u.waves + 1 <= u.waveCount
    BY <1>1, <1>2, <1>6, <2>1, <2>2
  <2> QED
    BY <1>3, <1>6, <2>3 DEF Bounded, Placed
<1>10. Finishing(u, graph.finish)
  BY <1>1, <1>6 DEF Sound, Finishing
<1> QED
  BY <1>5, <1>6, <1>7, <1>8, <1>9, <1>10, CallGoesOn DEF v

LEMMA ResumedWaveKeeps ==
    ASSUME IInv, NEW r \in Runs, ResumedWave(r)
    PROVE  IInv'
<1> DEFINE v == run[r]
           waiting == [i \in DOMAIN v.runnable |-> None]
           u == [v EXCEPT !.pc = "wave", !.results = waiting]
<1>1. /\ v \in RunType /\ Sound(v, graph, latest)
      /\ v.kind = "resume" /\ v.pc = "top" /\ v.waves < MaxResumed
  BY DEF IInv, ResumedWave, AtTop
<1>2. v.runnable \in Seq(Nodes) /\ v.waves \in Nat
  <2> HIDE DEF v
  <2> QED
    BY <1>1 DEF RunType
<1>3. waiting \in Seq(Results \cup {None}) /\ DOMAIN waiting = DOMAIN v.runnable
  BY <1>2, WaitingType
<1>4. run' = [run EXCEPT ![r] = u] /\ UNCHANGED <<graph, latest>>
  BY DEF ResumedWave, BeginsWave, IInv
<1> HIDE DEF waiting
<1>5. /\ u.pc = "wave" /\ u.kind = v.kind /\ u.waveCount = v.waveCount
      /\ u.waves = v.waves /\ u.results = waiting /\ u.runnable = v.runnable
      /\ u.after = v.after /\ u.outcome = v.outcome
      /\ u.state = v.state /\ u.completed = v.completed /\ u.trace = v.trace
      /\ u.overlaid = v.overlaid /\ u.alone = v.alone
  <2> HIDE DEF v
  <2> QED
    BY <1>1 DEF RunType
<1>6. u \in RunType
  <2>1. "wave" \in Pcs
    BY DEF Pcs
  <2> HIDE DEF v
  <2> QED
    BY <1>1, <1>3, <2>1 DEF RunType
<1> HIDE DEF u
<1>7. Going(v) /\ Going(u)
  BY <1>1, <1>5 DEF Going
<1> HIDE DEF v
<1>8. Bounded(u, graph) /\ Placed(u)
  <2>1. v.waves <= MaxResumed
    BY <1>1, <1>2, GraphAssumption
  <2> QED
    BY <1>1, <1>3, <1>5, <2>1 DEF Sound, Bounded, Placed
<1>9. Finishing(u, graph.finish)
  BY <1>1, <1>5 DEF Sound, Finishing
<1> QED
  BY <1>4, <1>5, <1>6, <1>7, <1>8, <1>9, CallGoesOn DEF v

\* A node settles.
LEMMA SettlesKeeps ==
    ASSUME IInv, NEW r \in Runs, NEW i \in DOMAIN run[r].runnable,
           NEW result \in Results, Settles(r, i, result)
    PROVE  IInv'
<1> DEFINE v == run[r]
           results == [v.results EXCEPT ![i] = result]
           u == [v EXCEPT !.results = results]
<1>1. /\ v \in RunType /\ Sound(v, graph, latest) /\ v.pc = "wave"
      /\ run' = [run EXCEPT ![r] = u] /\ UNCHANGED <<graph, latest>>
  BY DEF IInv, Settles, Running
<1>2. results \in Seq(Results \cup {None}) /\ DOMAIN results = DOMAIN v.runnable
  <2> DEFINE s == v.results
  <2>1. s \in Seq(Results \cup {None}) /\ DOMAIN s = DOMAIN v.runnable
    BY <1>1 DEF RunType, Sound, Bounded
  <2>2. i \in 1..Len(s)
    BY <2>1, LenProperties
  <2> HIDE DEF s
  <2>3. [s EXCEPT ![i] = result] \in Seq(Results \cup {None})
    BY <2>1, <2>2, ExceptSeq
  <2> QED
    BY <2>1, <2>3 DEF s
<1> HIDE DEF results
<1>3. /\ u.pc = "wave" /\ u.kind = v.kind /\ u.waveCount = v.waveCount
      /\ u.waves = v.waves /\ u.results = results /\ u.runnable = v.runnable
      /\ u.after = v.after /\ u.outcome = v.outcome
      /\ u.state = v.state /\ u.completed = v.completed /\ u.trace = v.trace
      /\ u.overlaid = v.overlaid /\ u.alone = v.alone
  <2> HIDE DEF v
  <2> QED
    BY <1>1 DEF RunType
<1>4. u \in RunType
  <2> HIDE DEF v
  <2> QED
    BY <1>1, <1>2 DEF RunType
<1> HIDE DEF u
<1>5. Going(v) /\ Going(u)
  BY <1>1, <1>3 DEF Going
<1>6. run[r] = v
  OBVIOUS
<1> HIDE DEF v
<1>7. Bounded(u, graph) /\ Placed(u) /\ Finishing(u, graph.finish)
  BY <1>1, <1>2, <1>3, <1>5 DEF Sound, Bounded, Placed, Finishing, Going
<1> QED
  BY <1>1, <1>3, <1>4, <1>5, <1>6, <1>7, CallGoesOn

LEMMA NodeReturnsKeeps ==
    ASSUME IInv, NEW r \in Runs, NEW i \in DOMAIN run[r].runnable,
           NodeReturns(r, i)
    PROVE  IInv'
<1>1. PICK result \in {IF run[r].runnable[i] \in graph.silent THEN Nothing
                       ELSE Wrote}
                      \cup {Sent(s) : s \in graph.sends[run[r].runnable[i]]} :
          Settles(r, i, result)
  BY DEF NodeReturns
<1>2. run[r].runnable[i] \in Nodes
  <2>1. run[r].runnable \in Seq(Nodes)
    BY DEF IInv, RunType
  <2>2. i \in 1..Len(run[r].runnable)
    BY <2>1, LenProperties
  <2> QED
    BY <2>1, <2>2, ElementOfSeq
<1>3. \A s \in graph.sends[run[r].runnable[i]] : s \in Seq(Nodes)
  BY <1>2, GraphFields DEF IInv
<1>4. Nothing \in Results /\ Wrote \in Results
      /\ \A s \in Seq(Nodes) : Sent(s) \in Results
  <2>1. <<>> \in Seq(Nodes)
    BY EmptySeq
  <2> QED
    BY <2>1 DEF Nothing, Wrote, Sent, Results
<1>5. result \in Results
  BY <1>1, <1>3, <1>4
<1> QED
  BY <1>1, <1>5, SettlesKeeps

LEMMA NodeFailsKeeps ==
    ASSUME IInv, NEW r \in Runs, NEW i \in DOMAIN run[r].runnable,
           NodeFails(r, i)
    PROVE  IInv'
<1>1. Error \in Results
  <2>1. <<>> \in Seq(Nodes)
    BY EmptySeq
  <2> QED
    BY <2>1 DEF Error, Results
<1> QED
  BY <1>1, SettlesKeeps DEF NodeFails

LEMMA NodeInterruptsKeeps ==
    ASSUME IInv, NEW r \in Runs, NEW i \in DOMAIN run[r].runnable,
           NodeInterrupts(r, i)
    PROVE  IInv'
<1> DEFINE v == run[r]
           runnable == <<v.runnable[i]>>
           u == [v EXCEPT !.pc = "saving", !.after = "interrupt",
                          !.state = v.state, !.runnable = runnable,
                          !.results = <<>>]
<1>1. CASE v.kind = "resume"
  <2>1. run' = Ended(r, "failed") /\ UNCHANGED <<graph, latest>>
    BY <1>1 DEF NodeInterrupts
  <2> QED
    BY <2>1, CallEnds DEF Outcomes
<1>2. CASE v.kind # "resume"
  <2>1. /\ v \in RunType /\ Sound(v, graph, latest) /\ v.pc = "wave"
        /\ run' = [run EXCEPT ![r] = u] /\ UNCHANGED <<graph, latest>>
    BY <1>2 DEF IInv, NodeInterrupts, Running, InterruptedState
  <2>2. runnable \in Seq(Nodes)
    <3>1. v.runnable \in Seq(Nodes)
      BY <2>1 DEF RunType
    <3>2. i \in 1..Len(v.runnable)
      BY <3>1, LenProperties
    <3>3. v.runnable[i] \in Nodes
      BY <3>1, <3>2, ElementOfSeq
    <3> QED
      BY <3>3
  <2>3. /\ <<>> \in Seq(Results \cup {None}) /\ "saving" \in Pcs
        /\ "interrupt" \in Outcomes
    BY EmptySeq DEF Pcs, Outcomes
  <2> HIDE DEF runnable
  <2>4. run[r] = v
    OBVIOUS
  <2> HIDE DEF v
  <2>5. /\ u.pc = "saving" /\ u.kind = v.kind /\ u.waveCount = v.waveCount
        /\ u.waves = v.waves /\ u.results = <<>> /\ u.outcome = v.outcome
        /\ u.after = "interrupt"
        /\ u.state = v.state /\ u.completed = v.completed /\ u.trace = v.trace
        /\ u.overlaid = v.overlaid /\ u.alone = v.alone
    BY <2>1 DEF RunType
  <2>6. u \in RunType
    BY <2>1, <2>2, <2>3 DEF RunType
  <2> HIDE DEF u
  <2>7. Going(v) /\ Going(u)
    BY <2>1, <2>5 DEF Going
  <2>8. DOMAIN u.results = {}
    BY <2>5
  <2>9. Bounded(u, graph) /\ Placed(u) /\ Finishing(u, graph.finish)
    BY <2>1, <2>5, <2>7, <2>8 DEF Sound, Bounded, Placed, Finishing, Going
  <2> QED
    BY <2>1, <2>4, <2>5, <2>6, <2>7, <2>9, CallGoesOn
<1> QED
  BY <1>1, <1>2

(***************************************************************************)
(* Merging                                                                 *)
(***************************************************************************)
\* After a wave, with its Sends' arguments or, at a finish point, without, the
\* call has in hand what its history, longer by the wave, leads to.
LEMMA MergedIsWhole ==
    ASSUME IInv, NEW r \in Runs, Settled(r), NEW args,
           IF Finishers(r) = {} THEN args = Args(r) ELSE args = <<>>,
           NEW u, u = Merged(r, args)[r]
    PROVE  /\ Merged(r, args) = [run EXCEPT ![r] = u]
           /\ u \in RunType /\ Whole(u, graph.finish)
           /\ u.kind = run[r].kind /\ u.waveCount = run[r].waveCount
           /\ u.waves = run[r].waves + 1 /\ u.results = <<>>
           /\ u.outcome = run[r].outcome /\ u.alone = run[r].alone
           /\ run[r].completed \subseteq u.completed
           /\ \A old \in latest : Continues(run[r], old) => Continues(u, old)
           /\ Finishers(r) # {} => graph.finish \cap u.completed # {}
<1> DEFINE v == run[r]
           finish == graph.finish
           outputs == Written(r, Used(r))
           ended == {v.runnable[i] : i \in Used(r)}
           state == v.state \o outputs \o args
           trace == Append(v.trace, Wave(r))
           w == [v EXCEPT !.state = state, !.completed = v.completed \cup ended,
                          !.ran = v.ran \cup ended, !.trace = trace,
                          !.waves = v.waves + 1, !.results = <<>>]
<1>1. Merged(r, args) = [run EXCEPT ![r] = w] /\ u = w
  BY DEF Merged, IInv
<1>2. /\ v \in RunType /\ Whole(v, finish)
      /\ Wave(r) \in Steps /\ Wave(r).nodes = v.runnable
  <2>1. v \in RunType /\ Sound(v, graph, latest) /\ v.pc = "wave"
    BY DEF IInv, Settled
  <2> HIDE DEF v
  <2>2. Whole(v, finish)
    BY <2>1 DEF Sound, Going
  <2> QED
    BY <2>1, <2>2, WaveIsStep DEF v
<1>3. /\ v.state \in Seq(Entries) /\ v.completed \subseteq Nodes
      /\ v.ran \subseteq Nodes /\ v.trace \in Seq(Steps) /\ v.waves \in Nat
  <2> HIDE DEF v
  <2> QED
    BY <1>2 DEF RunType
<1>4. outputs \in Seq(Entries) /\ args \in Seq(Entries)
      /\ state = Effect(finish, v.state, Wave(r))
  <2>1. <<>> \in Seq(Entries)
    BY EmptySeq
  <2> HIDE DEF v
  <2> QED
    BY <1>3, <2>1, WrittenIsOutputs, MergeIsEffect
<1>5. /\ ended = {Wave(r).nodes[i] : i \in Counted(finish, Wave(r))}
      /\ ended \subseteq Nodes
      /\ Finishers(r) # {} => finish \cap ended # {}
  <2>1. Used(r) = Counted(finish, Wave(r))
        /\ (Finishers(r) # {} =>
               finish \cap {v.runnable[i] : i \in Used(r)} # {})
    BY UsedIsCounted
  <2> QED
    BY <1>2, <2>1, CountedNodes
<1>6. state \in Seq(Entries) /\ trace \in Seq(Steps)
  BY <1>2, <1>3, <1>4, EffectType, AppendProperties
<1>7. state = StateAfter(finish, trace)
      /\ v.completed \cup ended = CompletedIn(finish, trace)
  <2>1. StateAfter(finish, trace) =
            Effect(finish, StateAfter(finish, v.trace), Wave(r))
    BY <1>2, <1>3, StateAfterStep
  <2>2. CompletedIn(finish, trace) = CompletedIn(finish, v.trace) \cup ended
    <3>1. /\ v.trace \in Seq(Steps) /\ Wave(r) \in Steps
          /\ ended = {Wave(r).nodes[i] : i \in Counted(finish, Wave(r))}
      BY <1>2, <1>3, <1>5
    <3>2. CompletedIn(finish, Append(v.trace, Wave(r))) =
              CompletedIn(finish, v.trace)
              \cup {Wave(r).nodes[i] : i \in Counted(finish, Wave(r))}
      <4> HIDE DEF v, finish, ended
      <4> QED
        BY <3>1, CompletedInStep
    <3> HIDE DEF v, finish, ended
    <3> QED
      BY <3>1, <3>2
  <2> QED
    BY <1>2, <1>4, <2>1, <2>2 DEF Whole
<1>8. ASSUME NEW old \in latest, Continues(v, old)
      PROVE  /\ v.overlaid \/ IsPrefix(old.state, state)
             /\ old.completed \subseteq v.completed \cup ended
             /\ IsPrefix(old.trace, trace)
  <2>1. old.state \in Seq(Entries) /\ old.trace \in Seq(Steps)
    BY DEF IInv, Checkpoints
  <2>2. IsPrefix(old.trace, trace)
    BY <1>2, <1>3, <1>8, <2>1, PrefixAppended DEF Continues
  <2>3. ASSUME IsPrefix(old.state, v.state) PROVE IsPrefix(old.state, state)
    <3>1. v.state \o outputs \in Seq(Entries)
      BY <1>3, <1>4, ConcatProperties
    <3>2. IsPrefix(old.state, v.state \o outputs)
      BY <1>3, <1>4, <2>1, <2>3, PrefixKept
    <3> DEFINE before == v.state \o outputs
    <3> HIDE DEF before
    <3>3. before \in Seq(Entries) /\ IsPrefix(old.state, before)
      BY <3>1, <3>2 DEF before
    <3>4. IsPrefix(old.state, before \o args)
      BY <1>4, <2>1, <3>3, PrefixKept
    <3> QED
      BY <3>4 DEF before
  <2> QED
    BY <1>8, <2>2, <2>3 DEF Continues
<1> DEFINE count == v.waves + 1
           completed == v.completed \cup ended
           ran == v.ran \cup ended
<1>9. count \in Nat /\ completed \subseteq Nodes /\ ran \subseteq Nodes
  BY <1>3, <1>5
<1>10. w = [v EXCEPT !.state = state, !.completed = completed, !.ran = ran,
                     !.trace = trace, !.waves = count, !.results = <<>>]
  OBVIOUS
<1> HIDE DEF w, count, completed, ran, state, trace, v
<1>11. /\ w.kind = v.kind /\ w.waveCount = v.waveCount /\ w.waves = count
       /\ w.results = <<>> /\ w.outcome = v.outcome /\ w.alone = v.alone
       /\ w.state = state /\ w.completed = completed /\ w.trace = trace
       /\ w.overlaid = v.overlaid
  BY <1>2, <1>10 DEF RunType
<1>12. w \in RunType
  <2>1. <<>> \in Seq(Results \cup {None})
    BY EmptySeq
  <2> QED
    BY <1>2, <1>6, <1>9, <1>10, <2>1 DEF RunType
<1>13. Whole(w, finish)
  BY <1>7, <1>11 DEF Whole, completed
<1>14. \A old \in latest : Continues(v, old) => Continues(w, old)
  BY <1>8, <1>11 DEF Continues, completed
<1>15. /\ Finishers(r) # {} => finish \cap w.completed # {}
       /\ v.completed \subseteq w.completed
  BY <1>5, <1>11 DEF completed
<1> QED
  BY <1>1, <1>11, <1>12, <1>13, <1>14, <1>15 DEF v, count

LEMMA WaveFinishesKeeps ==
    ASSUME IInv, NEW r \in Runs, WaveFinishes(r)
    PROVE  IInv'
<1> DEFINE w == Merged(r, <<>>)[r]
           u == [w EXCEPT !.pc = "saving", !.after = "end", !.runnable = <<>>]
<1>1. Settled(r) /\ Finishers(r) # {} /\ UNCHANGED <<graph, latest>>
      /\ run' = [Merged(r, <<>>) EXCEPT ![r].pc = "saving", ![r].after = "end",
                                        ![r].runnable = <<>>]
  BY DEF WaveFinishes
<1>2. /\ Merged(r, <<>>) = [run EXCEPT ![r] = w]
      /\ w \in RunType /\ Whole(w, graph.finish)
      /\ w.kind = run[r].kind /\ w.waveCount = run[r].waveCount
      /\ w.waves = run[r].waves + 1 /\ w.results = <<>>
      /\ w.outcome = run[r].outcome /\ w.alone = run[r].alone
      /\ run[r].completed \subseteq w.completed
      /\ \A old \in latest : Continues(run[r], old) => Continues(w, old)
      /\ graph.finish \cap w.completed # {}
  BY <1>1, MergedIsWhole
<1> HIDE DEF w
<1>3. run' = [run EXCEPT ![r] = u]
  BY <1>1, <1>2 DEF IInv
<1>4. Sound(run[r], graph, latest) /\ run[r].pc = "wave" /\ run[r] \in RunType
  BY <1>1 DEF IInv, Settled
<1>5. run[r].waveCount \in Nat /\ run[r].waves \in Nat
      /\ graph.recursionLimit \in Nat /\ MaxResumed \in Nat
  BY <1>4, GraphFields, GraphAssumption DEF RunType, IInv
<1>6. /\ u.pc = "saving" /\ u.after = "end"
      /\ u.kind = w.kind /\ u.waveCount = w.waveCount /\ u.waves = w.waves
      /\ u.results = w.results /\ u.outcome = w.outcome /\ u.alone = w.alone
      /\ u.state = w.state /\ u.completed = w.completed /\ u.trace = w.trace
      /\ u.overlaid = w.overlaid
  BY <1>2 DEF RunType
<1>7. u \in RunType
  <2>1. <<>> \in Seq(Nodes) /\ "saving" \in Pcs /\ "end" \in Outcomes
    BY EmptySeq DEF Pcs, Outcomes
  <2> QED
    BY <1>2, <2>1 DEF RunType
<1> HIDE DEF u
<1>8. Bounded(u, graph) /\ Placed(u)
  <2>1. DOMAIN u.results = {}
    BY <1>2, <1>6
  <2> QED
    BY <1>2, <1>4, <1>5, <1>6, <2>1 DEF Sound, Bounded, Placed, Going
<1>9. Whole(u, graph.finish) /\ Finishing(u, graph.finish) /\ Going(u)
  BY <1>2, <1>6 DEF Whole, Finishing, Going
<1>10. u.alone => \A old \in latest : Continues(u, old)
  BY <1>2, <1>4, <1>6 DEF Sound, Continues
<1>11. Sound(u, graph, latest)
  BY <1>7, <1>8, <1>9, <1>10 DEF Sound
<1> QED
  BY <1>1, <1>3, <1>11, OneCallChanges

\* The nodes that run next are nodes.
LEMMA NextRunnableType ==
    ASSUME IInv, NEW route \in Routes, NEW justRan \in Seq(Nodes)
    PROVE  GetNextRunnable(justRan, route) \in Seq(Nodes)
<1> DEFINE one(i) == graph.edges[justRan[i]] \o route[justRan[i]]
<1>1. Len(justRan) \in Nat /\ DOMAIN justRan = 1..Len(justRan)
  BY LenProperties
<1>2. ASSUME NEW i \in 1..Len(justRan) PROVE one(i) \in Seq(Nodes)
  <2>1. justRan[i] \in Nodes
    BY <1>2, ElementOfSeq
  <2>2. graph.edges[justRan[i]] \in Seq(Nodes)
    BY <2>1, GraphFields DEF IInv
  <2>3. route[justRan[i]] \in graph.routes[justRan[i]]
    BY <2>1 DEF Routes
  <2>4. route[justRan[i]] \in Seq(Nodes)
    BY <2>1, <2>3, GraphFields DEF IInv
  <2> QED
    BY <2>2, <2>4, ConcatProperties
<1>3. GetNextRunnable(justRan, route) =
          Distinct(FlattenSeq([i \in 1..Len(justRan) |-> one(i)]))
  BY <1>1 DEF GetNextRunnable
<1> HIDE DEF one
<1>4. [i \in 1..Len(justRan) |-> one(i)] \in Seq(Seq(Nodes))
  BY <1>1, <1>2, IsASeq
<1>5. FlattenSeq([i \in 1..Len(justRan) |-> one(i)]) \in Seq(Nodes)
  BY <1>4, FlattenType
<1> QED
  BY <1>3, <1>5, DistinctType

LEMMA WaveMergedKeeps ==
    ASSUME IInv, NEW r \in Runs, WaveMerged(r)
    PROVE  IInv'
<1> DEFINE w == Merged(r, Args(r))[r]
<1>1. Settled(r) /\ Finishers(r) = {} /\ UNCHANGED <<graph, latest>>
  BY DEF WaveMerged
<1>2. PICK route \in Routes :
          run' = [Merged(r, Args(r)) EXCEPT
               ![r].pc = IF run[r].kind = "resume" /\ run[r].waves = 0
                         THEN "top" ELSE "saving",
               ![r].after = "top",
               ![r].runnable = GetNextRunnable(run[r].runnable, route)
                               \o Sends(r)]
  BY DEF WaveMerged
<1> DEFINE pc == IF run[r].kind = "resume" /\ run[r].waves = 0
                 THEN "top" ELSE "saving"
           runnable == GetNextRunnable(run[r].runnable, route) \o Sends(r)
           u == [w EXCEPT !.pc = pc, !.after = "top", !.runnable = runnable]
<1>3. /\ Merged(r, Args(r)) = [run EXCEPT ![r] = w]
      /\ w \in RunType /\ Whole(w, graph.finish)
      /\ w.kind = run[r].kind /\ w.waveCount = run[r].waveCount
      /\ w.waves = run[r].waves + 1 /\ w.results = <<>>
      /\ w.outcome = run[r].outcome /\ w.alone = run[r].alone
      /\ run[r].completed \subseteq w.completed
      /\ \A old \in latest : Continues(run[r], old) => Continues(w, old)
  BY <1>1, MergedIsWhole
<1> HIDE DEF w
<1>4. run' = [run EXCEPT ![r] = u]
  BY <1>2, <1>3 DEF IInv
<1>5. Sound(run[r], graph, latest) /\ run[r].pc = "wave" /\ run[r] \in RunType
      /\ run[r].kind \in {"stream", "resume"}
  BY <1>1 DEF IInv, Settled, Sound, Placed
<1>6. run[r].waveCount \in Nat /\ run[r].waves \in Nat
      /\ graph.recursionLimit \in Nat /\ MaxResumed \in Nat
  BY <1>5, GraphFields, GraphAssumption DEF RunType, IInv
<1>7. runnable \in Seq(Nodes) /\ pc \in {"top", "saving"}
  <2>1. run[r].runnable \in Seq(Nodes)
    BY <1>5 DEF RunType
  <2>2. GetNextRunnable(run[r].runnable, route) \in Seq(Nodes)
    BY <2>1, NextRunnableType
  <2>3. Sends(r) \in Seq(Nodes)
    BY <1>1, SendsAreSends
  <2> QED
    BY <2>2, <2>3, ConcatProperties
<1> HIDE DEF runnable, pc
<1>8. /\ u.pc = pc /\ u.after = "top"
      /\ u.kind = w.kind /\ u.waveCount = w.waveCount /\ u.waves = w.waves
      /\ u.results = w.results /\ u.outcome = w.outcome /\ u.alone = w.alone
      /\ u.state = w.state /\ u.completed = w.completed /\ u.trace = w.trace
      /\ u.overlaid = w.overlaid
  BY <1>3 DEF RunType
<1>9. u \in RunType
  <2>1. pc \in Pcs
    BY <1>7 DEF Pcs
  <2> QED
    BY <1>3, <1>7, <2>1 DEF RunType
<1> HIDE DEF u
<1>10. Bounded(u, graph) /\ Placed(u)
  <2>1. DOMAIN u.results = {}
    BY <1>3, <1>8
  <2> QED
    BY <1>3, <1>5, <1>6, <1>7, <1>8, <2>1 DEF Sound, Bounded, Placed, Going
<1>11. Whole(u, graph.finish) /\ Finishing(u, graph.finish) /\ Going(u)
  <2>1. ~(run[r].kind = "stream" /\ run[r].outcome = "end" /\ graph.finish # {})
        \/ graph.finish \cap run[r].completed # {}
    BY <1>5 DEF Sound, Finishing
  <2> QED
    BY <1>3, <1>7, <1>8, <2>1 DEF Whole, Finishing, Going
<1>12. u.alone => \A old \in latest : Continues(u, old)
  BY <1>3, <1>5, <1>8 DEF Sound, Continues
<1>13. Sound(u, graph, latest)
  BY <1>9, <1>10, <1>11, <1>12 DEF Sound
<1> QED
  BY <1>1, <1>4, <1>13, OneCallChanges

(***************************************************************************)
(* Saving and ending                                                       *)
(***************************************************************************)
\* What a call saves.
LEMMA CheckpointSound ==
    ASSUME IInv, NEW r \in Runs, run[r].pc = "saving"
    PROVE  /\ Checkpoint(r) \in Checkpoints
           /\ Whole(Checkpoint(r), graph.finish)
           /\ Checkpoint(r).waveCount <= graph.recursionLimit
           /\ Continues(run[r], Checkpoint(r))
<1>1. Sound(run[r], graph, latest) /\ run[r] \in RunType
  BY DEF IInv
<1>2. Checkpoint(r) \in Checkpoints
  BY <1>1 DEF RunType, Checkpoint, Checkpoints
<1>3. Whole(run[r], graph.finish) /\ run[r].waveCount <= graph.recursionLimit
  BY <1>1 DEF Sound, Going, Bounded
<1>4. IsPrefix(run[r].state, run[r].state) /\ IsPrefix(run[r].trace, run[r].trace)
  <2>1. run[r].state \in Seq(Entries) /\ run[r].trace \in Seq(Steps)
    BY <1>1 DEF RunType
  <2> QED
    BY <2>1, PrefixKept
<1> QED
  BY <1>2, <1>3, <1>4 DEF Checkpoint, Whole, Continues

LEMMA SaveCheckpointKeeps ==
    ASSUME IInv, NEW r \in Runs, NEW same \in BOOLEAN, SaveCheckpoint(r, same)
    PROVE  IInv'
<1> DEFINE only == latest' = {Checkpoint(r)}
           onward == [run[r] EXCEPT !.pc = "top", !.alone = only]
           over == Ended(r, run[r].after)[r]
           u == IF run[r].after = "top" THEN onward ELSE over
           other(q) == [run[q] EXCEPT !.alone = FALSE]
<1>1. /\ run[r].pc = "saving" /\ graph' = graph
      /\ latest' \subseteq latest \cup {Checkpoint(r)}
      /\ run' = [q \in Runs |-> IF q = r THEN u ELSE other(q)]
  BY DEF SaveCheckpoint
<1>2. /\ Checkpoint(r) \in Checkpoints
      /\ Whole(Checkpoint(r), graph.finish)
      /\ Checkpoint(r).waveCount <= graph.recursionLimit
      /\ Continues(run[r], Checkpoint(r))
  BY <1>1, CheckpointSound
<1>3. /\ latest' \subseteq Checkpoints
      /\ \A cp \in latest' : cp.waveCount <= graph.recursionLimit
                             /\ Whole(cp, graph.finish)
  BY <1>1, <1>2 DEF IInv
<1>4. ASSUME NEW q \in Runs, q # r PROVE Sound(other(q), graph, latest')
  <2>1. Sound(run[q], graph, latest) /\ run[q] \in RunType
    BY DEF IInv
  <2>2. other(q) \in RunType
    BY <2>1 DEF RunType
  <2> DEFINE v == run[q]
             w == other(q)
  <2>3. /\ w.kind = v.kind /\ w.pc = v.pc /\ w.after = v.after
        /\ w.waveCount = v.waveCount /\ w.waves = v.waves
        /\ w.results = v.results /\ w.runnable = v.runnable
        /\ w.outcome = v.outcome /\ w.alone = FALSE
        /\ w.state = v.state /\ w.completed = v.completed /\ w.trace = v.trace
    BY <2>1 DEF RunType
  <2> HIDE DEF v, w
  <2>4. Sound(v, graph, latest)
    BY <2>1 DEF v
  <2>5. w \in RunType
    BY <2>2 DEF w
  <2>6. Sound(w, graph, latest')
    BY <2>3, <2>4, <2>5
    DEF Sound, Bounded, Placed, Going, Whole, Finishing
  <2> QED
    BY <2>6 DEF w
<1>5. Sound(u, graph, latest')
  <2>1. Sound(run[r], graph, latest) /\ run[r] \in RunType
    BY DEF IInv
  <2>2. CASE run[r].after = "top"
    <3> DEFINE v == run[r]
    <3>1. onward \in RunType
      <4>1. "top" \in Pcs /\ only \in BOOLEAN
        BY DEF Pcs
      <4> HIDE DEF v, only
      <4> QED
        BY <2>1, <4>1 DEF RunType
    <3>2. /\ onward.kind = v.kind /\ onward.pc = "top" /\ onward.after = "top"
          /\ onward.waveCount = v.waveCount /\ onward.waves = v.waves
          /\ onward.results = v.results
          /\ onward.outcome = v.outcome /\ onward.alone = only
          /\ onward.state = v.state /\ onward.completed = v.completed
          /\ onward.trace = v.trace /\ onward.overlaid = v.overlaid
      BY <2>1, <2>2 DEF RunType
    <3>3. v.pc = "saving" /\ v.after = "top" /\ Sound(v, graph, latest)
          /\ Continues(v, Checkpoint(r))
      BY <1>1, <1>2, <2>1, <2>2
    <3>4. u = onward
      BY <2>2
    <3> HIDE DEF onward, v, u
    <3>5. only => \A cp \in latest' : Continues(onward, cp)
      BY <3>2, <3>3 DEF Continues
    <3>6. DOMAIN onward.results = {}
      BY <3>2, <3>3 DEF Sound, Bounded
    <3>7. Sound(onward, graph, latest')
      BY <3>1, <3>2, <3>3, <3>5, <3>6
      DEF Sound, Bounded, Placed, Going, Whole, Finishing
    <3> QED
      BY <3>4, <3>7
  <2>3. CASE run[r].after # "top"
    <3>1. run[r].after \in Outcomes \cup {None}
      BY <2>1, <2>3 DEF RunType
    <3>2. run[r].after = "end" => graph.finish \cap run[r].completed # {}
      BY <1>1, <2>1 DEF Sound, Finishing
    <3> DEFINE how == run[r].after
               saved == latest'
    <3>3. how \in Outcomes \cup {None}
          /\ (how = "end" /\ run[r].kind = "stream" /\ graph.finish # {} =>
                 graph.finish \cap run[r].completed # {})
      BY <3>1, <3>2
    <3> HIDE DEF how, saved
    <3>4. Sound(Ended(r, how)[r], graph, saved)
      BY <3>3, EndedIsSound
    <3> QED
      BY <2>3, <3>4 DEF how, saved
  <2> QED
    BY <2>2, <2>3
<1> HIDE DEF u, other, only
<1>6. \A q \in Runs : Sound(run'[q], graph, latest')
  BY <1>1, <1>4, <1>5
<1>7. run' \in [Runs -> RunType]
  BY <1>1, <1>6 DEF Sound
<1> QED
  BY <1>1, <1>3, <1>6, <1>7 DEF IInv

\* The ways in which a call ends without saving anything.
LEMMA EndsKeep ==
    ASSUME IInv, NEW r \in Runs,
           \/ WaveRefused(r) \/ NothingRunnable(r) \/ WaveFails(r)
           \/ WaveAborted(r) \/ SaveRefused(r) \/ Stops(r)
    PROVE  IInv'
<1>1. CASE NothingRunnable(r)
  <2>1. CASE Deadlocked(r)
    <3>1. run' = Ended(r, "deadlock") /\ UNCHANGED <<graph, latest>>
      BY <1>1, <2>1 DEF NothingRunnable
    <3> QED
      BY <3>1, CallEnds DEF Outcomes
  <2>2. CASE ~Deadlocked(r)
    <3>1. run' = Ended(r, "end") /\ UNCHANGED <<graph, latest>>
      BY <1>1, <2>2 DEF NothingRunnable
    <3>2. run[r].kind = "stream" /\ graph.finish # {} =>
              graph.finish \cap run[r].completed # {}
      BY <2>2 DEF Deadlocked
    <3> QED
      BY <3>1, <3>2, CallEnds DEF Outcomes
  <2> QED
    BY <2>1, <2>2
<1>2. CASE WaveRefused(r) \/ WaveFails(r) \/ WaveAborted(r) \/ SaveRefused(r)
  <2>1. run' = Ended(r, "failed") /\ UNCHANGED <<graph, latest>>
    BY <1>2 DEF WaveRefused, WaveFails, WaveAborted, SaveRefused
  <2> QED
    BY <2>1, CallEnds DEF Outcomes
<1>3. CASE Stops(r)
  <2>1. run' = Ended(r, "stopped") /\ UNCHANGED <<graph, latest>>
    BY <1>3 DEF Stops
  <2> QED
    BY <2>1, CallEnds DEF Outcomes
<1> QED
  BY <1>1, <1>2, <1>3

(***************************************************************************)
(* The theorems                                                            *)
(***************************************************************************)
LEMMA InitIInv ==
    ASSUME Init
    PROVE  IInv
<1>1. graph \in Graphs /\ latest = {} /\ run = [r \in Runs |-> Unused]
  BY DEF Init
<1>2. graph.recursionLimit \in Nat /\ MaxResumed \in Nat
  BY <1>1, GraphFields, GraphAssumption
<1>3. Sound(Unused, graph, latest)
  <2>1. DOMAIN <<>> = {}
    OBVIOUS
  <2>2. None # "end"
    BY GraphAssumption DEF Outcomes
  <2> QED
    BY <1>1, <1>2, <2>1, <2>2, UnusedType
    DEF Unused, Sound, Bounded, Placed, Going, Finishing
<1> QED
  BY <1>1, <1>3, UnusedType DEF IInv

\* What a call has in hand, and what is saved, is always what whole waves lead
\* to: kept by every step of every call, whatever the others do meanwhile.
THEOREM Invariance == Spec => []IInv
<1>1. Init => IInv
  BY InitIInv
<1>2. IInv /\ [Next]_vars => IInv'
  <2>1. SUFFICES ASSUME IInv, Next \/ UNCHANGED vars
                 PROVE  IInv'
    OBVIOUS
  <2>2. CASE UNCHANGED vars
    BY <2>1, <2>2 DEF vars, IInv
  <2>3. ASSUME NEW r \in Runs, Stream(r) PROVE IInv'
    BY <2>1, <2>3, StreamKeeps
  <2>4. ASSUME NEW r \in Runs, UpdateState(r) PROVE IInv'
    BY <2>1, <2>4, UpdateStateKeeps
  <2>5. ASSUME NEW r \in Runs, NEW overlay \in BOOLEAN,
               NEW named \in ResumeNodes \cup {None}, Resume(r, overlay, named)
        PROVE  IInv'
    BY <2>1, <2>5, ResumeKeeps
  <2>6. ASSUME NEW r \in Runs, GraphStep(r) PROVE IInv'
    <3>1. CASE StreamWave(r)
      BY <2>1, <3>1, StreamWaveKeeps
    <3>2. CASE ResumedWave(r)
      BY <2>1, <3>2, ResumedWaveKeeps
    <3>3. CASE WaveRefused(r) \/ NothingRunnable(r) \/ WaveFails(r)
      BY <2>1, <3>3, EndsKeep
    <3>4. CASE WaveFinishes(r)
      BY <2>1, <3>4, WaveFinishesKeeps
    <3>5. CASE WaveMerged(r)
      BY <2>1, <3>5, WaveMergedKeeps
    <3>6. ASSUME NEW same \in BOOLEAN, SaveCheckpoint(r, same) PROVE IInv'
      BY <2>1, <3>6, SaveCheckpointKeeps
    <3> QED
      BY <2>6, <3>1, <3>2, <3>3, <3>4, <3>5, <3>6 DEF GraphStep
  <2>7. ASSUME NEW r \in Runs, WaveAborted(r) \/ SaveRefused(r) \/ Stops(r)
        PROVE  IInv'
    BY <2>1, <2>7, EndsKeep
  <2>8. ASSUME NEW r \in Runs, NEW i \in DOMAIN run[r].runnable,
               NodeReturns(r, i) \/ NodeFails(r, i) \/ NodeInterrupts(r, i)
        PROVE  IInv'
    BY <2>1, <2>8, NodeReturnsKeeps, NodeFailsKeeps, NodeInterruptsKeeps
  <2> QED
    BY <2>1, <2>2, <2>3, <2>4, <2>5, <2>6, <2>7, <2>8 DEF Next
<1> QED
  BY <1>1, <1>2, PTL DEF Spec

\* Every variable keeps its type; no stream() passes the recursion limit.
THEOREM TypeCorrect == Spec => []TypeOK
<1>1. IInv => TypeOK
  BY DEF IInv, Sound, Bounded, TypeOK
<1> QED
  BY Invariance, <1>1, PTL

\* A checkpoint is what the waves of its history lead to, merged in the order
\* of the nodes and as far as the first finish point.
THEOREM WholeWaves == Spec => []CheckpointsHoldWholeWaves
<1>1. IInv => CheckpointsHoldWholeWaves
  BY DEF IInv, Whole, CheckpointsHoldWholeWaves
<1> QED
  BY Invariance, <1>1, PTL

\* A stream() that says it has come to the end has reached a finish point.
THEOREM EndsAtFinish == Spec => []EndReachesFinish
<1>1. IInv => EndReachesFinish
  BY DEF IInv, Sound, Finishing, EndReachesFinish
<1> QED
  BY Invariance, <1>1, PTL

\* A call saves nothing that is behind what it began with or saved last, when
\* nobody else saved in between.
THEOREM NotSetBack == Spec => ProgressKept
<1> DEFINE Kept == \A r \in Runs :
                       /\ run[r].pc = "saving" /\ run[r].alone
                       /\ run'[r].pc # "saving" /\ latest' # latest
                       => \A old \in latest, new \in latest' \ latest :
                              /\ run[r].overlaid \/ IsPrefix(old.state, new.state)
                              /\ old.completed \subseteq new.completed
                              /\ IsPrefix(old.trace, new.trace)
<1>1. ASSUME IInv, [Next]_vars PROVE [Kept]_vars
  <2>1. SUFFICES ASSUME NEW r \in Runs, run[r].pc = "saving", run[r].alone,
                        run'[r].pc # "saving", latest' # latest,
                        NEW old \in latest, NEW new \in latest' \ latest
                 PROVE  /\ run[r].overlaid \/ IsPrefix(old.state, new.state)
                        /\ old.completed \subseteq new.completed
                        /\ IsPrefix(old.trace, new.trace)
    OBVIOUS
  <2>2. PICK q \in Runs, same \in BOOLEAN : SaveCheckpoint(q, same)
    <3>1. Next
      BY <1>1, <2>1 DEF vars
    <3>2. ASSUME NEW q \in Runs, GraphStep(q)
          PROVE  \E same \in BOOLEAN : SaveCheckpoint(q, same)
      BY <2>1, <3>2 DEF GraphStep, StreamWave, ResumedWave, WaveRefused,
         NothingRunnable, WaveFails, WaveFinishes, WaveMerged
    <3> QED
      BY <2>1, <3>1, <3>2 DEF Next, Stream, UpdateState, Resume, WaveAborted,
         SaveRefused, Stops, NodeReturns, NodeFails, NodeInterrupts, Settles
  <2>3. q = r
    <3>1. CASE q # r
      <4>1. run'[r] = [run[r] EXCEPT !.alone = FALSE]
        BY <2>2, <3>1 DEF SaveCheckpoint
      <4>2. run[r] \in RunType
        BY <1>1 DEF IInv
      <4>3. run'[r].pc = run[r].pc
        BY <4>1, <4>2 DEF RunType
      <4> QED
        BY <2>1, <4>3
    <3> QED
      BY <3>1
  <2>4. new = Checkpoint(r)
    BY <2>1, <2>2, <2>3 DEF SaveCheckpoint
  <2>5. Continues(run[r], old)
    BY <1>1, <2>1 DEF IInv, Sound
  <2> QED
    BY <2>4, <2>5 DEF Continues, Checkpoint
<1> QED
  BY Invariance, <1>1, PTL DEF Spec, ProgressKept

=============================================================================

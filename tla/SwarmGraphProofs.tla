-------------------------- MODULE SwarmGraphProofs --------------------------
(***************************************************************************)
(* The invariants of SwarmGraph and its action property hold for any       *)
(* agents, artifact keys, configurations, costs and budget, and any number *)
(* of runs.                                                                *)
(*                                                                         *)
(* First, what computeWaves computes: its loop is a recursive function on  *)
(* sets of agents, which is shown to be well defined and to return layers  *)
(* in dependency order.  Each induction takes, of the sets for which the   *)
(* claim fails, a maximal one: MaximalSet.  Then one inductive invariant   *)
(* for all the properties: the waves that are counted, in memory or in the *)
(* checkpoint, were finished, and what the agents of the wave in progress  *)
(* cost is counted or queued.                                              *)
(***************************************************************************)
EXTENDS SwarmGraph, FiniteSetTheorems, SequenceTheorems, TLAPS

(***************************************************************************)
(* computeWaves                                                            *)
(***************************************************************************)
\* Among the sets of agents in a collection there is one no other contains.
LEMMA MaximalSet ==
    ASSUME NEW T \in SUBSET (SUBSET Agents), T # {}
    PROVE  \E c \in T : \A d \in T : c \subseteq d => d = c
<1> DEFINE Rest == {Agents \ c : c \in T}
           R == StrictSubsetOrdering(Agents)
<1>1. Rest \subseteq FiniteSubsetsOf(Agents) /\ Rest # {}
  <2>1. FiniteSubsetsOf(Agents) = SUBSET Agents
    BY SwarmAssumption, FS_FiniteSubsetsOfFinite
  <2>2. \A m \in Rest : m \in SUBSET Agents
    OBVIOUS
  <2>3. \E c \in T : Agents \ c \in Rest
    OBVIOUS
  <2> HIDE DEF Rest
  <2> QED
    BY <2>1, <2>2, <2>3
<1>2. PICK m \in Rest : \A y \in Rest : <<y, m>> \notin R
  <2>1. IsWellFoundedOn(R, FiniteSubsetsOf(Agents))
    BY FS_StrictSubsetOrderingWellFounded
  <2> HIDE DEF R, Rest
  <2> QED
    BY <1>1, <2>1, WFMin
<1>3. PICK c \in T : m = Agents \ c
  OBVIOUS
<1>4. ASSUME NEW d \in T, c \subseteq d PROVE d = c
  <2>1. Agents \ d \in Rest /\ <<Agents \ d, m>> \notin R
    BY <1>2
  <2>2. Agents \ d = m
    BY <1>3, <1>4, <2>1 DEF StrictSubsetOrdering
  <2> QED
    BY <1>3, <2>2
<1> QED
  BY <1>4

\* One round of the loop, f being what the later rounds compute.
LayersFrom(deps, c, f) ==
    IF Ready(deps, c) = {} THEN <<>>
    ELSE <<Ready(deps, c)>> \o f[c \cup Ready(deps, c)]

\* The recursive function of ComputeWaves.
After(deps) == CHOOSE f : f = [c \in SUBSET Agents |-> LayersFrom(deps, c, f)]

\* ComputeWaves is that function at the empty set, if no agent is left over.
LEMMA WavesOfAfter ==
    ASSUME NEW deps
    PROVE  ComputeWaves(deps) = IF UNION Range(After(deps)[{}]) = Agents
                                THEN After(deps)[{}] ELSE <<>>
  BY DEF ComputeWaves, After, LayersFrom

\* A function that obeys the recursion on the sets that contain c.
Upward(c) == {d \in SUBSET Agents : c \subseteq d}
Computes(deps, g, c) == g = [d \in Upward(c) |-> LayersFrom(deps, d, g)]

\* Two such functions agree wherever both are defined.
LEMMA ComputesUnique ==
    ASSUME NEW deps, NEW b, NEW c, NEW g, NEW h,
           Computes(deps, g, b), Computes(deps, h, c),
           NEW d \in Upward(b) \cap Upward(c)
    PROVE  g[d] = h[d]
<1> DEFINE Differ == {e \in Upward(b) \cap Upward(c) : g[e] # h[e]}
<1>1. SUFFICES ASSUME Differ # {} PROVE FALSE
  OBVIOUS
<1>2. PICK e \in Differ : \A d2 \in Differ : e \subseteq d2 => d2 = e
  <2>1. Differ \in SUBSET (SUBSET Agents)
    BY DEF Upward
  <2> HIDE DEF Differ
  <2> QED
    BY <1>1, <2>1, MaximalSet
<1>3. g[e] = LayersFrom(deps, e, g) /\ h[e] = LayersFrom(deps, e, h)
  BY DEF Computes
<1>4. Ready(deps, e) # {}
  BY <1>3 DEF LayersFrom
<1> DEFINE n == e \cup Ready(deps, e)
<1>5. n \in Upward(b) \cap Upward(c) /\ n # e /\ e \subseteq n
  BY <1>4 DEF Upward, Ready
<1>6. g[n] = h[n]
  BY <1>2, <1>5
<1> QED
  BY <1>3, <1>4, <1>6 DEF LayersFrom

\* There is one for every set: it takes each larger set's value from that set's.
LEMMA ComputesExists ==
    ASSUME NEW deps, NEW c0 \in SUBSET Agents
    PROVE  \E g : Computes(deps, g, c0)
<1> DEFINE Bad == {c \in SUBSET Agents : ~ \E g : Computes(deps, g, c)}
<1>1. SUFFICES ASSUME Bad # {} PROVE FALSE
  OBVIOUS
<1>2. PICK c \in Bad : \A d \in Bad : c \subseteq d => d = c
  <2>1. Bad \in SUBSET (SUBSET Agents)
    OBVIOUS
  <2> HIDE DEF Bad
  <2> QED
    BY <1>1, <2>1, MaximalSet
<1> DEFINE G(d) == CHOOSE g : Computes(deps, g, d)
           r == Ready(deps, c)
           h == [d \in Upward(c) |->
                    IF d = c THEN IF r = {} THEN <<>>
                                  ELSE <<r>> \o G(c \cup r)[c \cup r]
                    ELSE G(d)[d]]
<1>3. ASSUME NEW d \in Upward(c), d # c PROVE Computes(deps, G(d), d)
  <2>1. \E g : Computes(deps, g, d)
    BY <1>2, <1>3 DEF Upward
  <2> QED
    BY <2>1
<1>4. ASSUME NEW d \in Upward(c) PROVE h[d] = LayersFrom(deps, d, h)
  <2> DEFINE e == d \cup Ready(deps, d)
  <2>1. CASE Ready(deps, d) = {}
    <3>1. CASE d = c
      BY <2>1, <3>1 DEF LayersFrom
    <3>2. CASE d # c
      <4>1. G(d)[d] = LayersFrom(deps, d, G(d))
        BY <1>3, <3>2 DEF Computes, Upward
      <4> QED
        BY <2>1, <3>2, <4>1 DEF LayersFrom
    <3> QED
      BY <3>1, <3>2
  <2>2. CASE Ready(deps, d) # {}
    <3>1. e \in Upward(c) /\ e # c /\ e \in Upward(d)
      BY <2>2 DEF Upward, Ready
    <3>2. h[e] = G(e)[e]
      BY <3>1
    <3>3. CASE d = c
      <4>1. c \in Upward(c) /\ e = c \cup r /\ r # {}
        BY <2>2, <3>3 DEF Upward
      <4>2. h[c] = <<r>> \o G(c \cup r)[c \cup r]
        BY <4>1
      <4> QED
        BY <3>2, <3>3, <4>1, <4>2 DEF LayersFrom
    <3>4. CASE d # c
      <4>1. G(d)[d] = LayersFrom(deps, d, G(d))
        BY <1>3, <3>4 DEF Computes, Upward
      <4>2. G(d)[e] = G(e)[e]
        <5>1. Computes(deps, G(d), d) /\ Computes(deps, G(e), e)
          BY <1>3, <3>1, <3>4
        <5>2. e \in Upward(d) \cap Upward(e)
          BY <3>1 DEF Upward
        <5> HIDE DEF G, e
        <5> QED
          BY <5>1, <5>2, ComputesUnique
      <4> QED
        BY <2>2, <3>2, <3>4, <4>1, <4>2 DEF LayersFrom
    <3> QED
      BY <3>3, <3>4
  <2> QED
    BY <2>1, <2>2
<1>5. Computes(deps, h, c)
  <2>1. h = [d \in Upward(c) |-> h[d]]
    OBVIOUS
  <2> HIDE DEF h
  <2> QED
    BY <1>4, <2>1 DEF Computes
<1> QED
  BY <1>5, <1>2

\* So the recursive function exists and obeys its own equation.
LEMMA AfterEquation ==
    ASSUME NEW deps
    PROVE  After(deps) = [c \in SUBSET Agents |->
                             LayersFrom(deps, c, After(deps))]
<1>1. Upward({}) = SUBSET Agents
  BY DEF Upward
<1>2. \E g : g = [c \in SUBSET Agents |-> LayersFrom(deps, c, g)]
  <2>1. PICK g : Computes(deps, g, {})
    BY ComputesExists
  <2> QED
    BY <1>1, <2>1 DEF Computes
<1> QED
  BY <1>2 DEF After

\* The agents of the first n layers.
Upto(l, n) == UNION {l[j] : j \in 1..n}

\* Agents none of which can ever run: each waits for another of them or for an
\* agent that is not configured.
Stuck(deps, S) ==
    S # {} /\ \A a \in S : ~(deps[a] \subseteq Agents \ S)

\* What the loop has computed when it stops: from the agents of c on, each layer
\* holds what is ready after those before it; nothing is ready any more, and
\* no stuck agent got in.
Layered(deps, c, l) ==
    /\ l \in Seq(SUBSET Agents)
    /\ Len(l) <= Cardinality(Agents \ c)
    /\ \A i \in 1..Len(l) : l[i] = Ready(deps, c \cup Upto(l, i - 1))
    /\ Ready(deps, c \cup Upto(l, Len(l))) = {}
    /\ \A S \in SUBSET Agents :
           Stuck(deps, S) /\ S \cap c = {} => S \cap Upto(l, Len(l)) = {}

\* By the same induction the function returns such layers.
LEMMA AfterLayered ==
    ASSUME NEW deps, NEW c0 \in SUBSET Agents
    PROVE  Layered(deps, c0, After(deps)[c0])
<1> DEFINE Bad == {c \in SUBSET Agents : ~Layered(deps, c, After(deps)[c])}
<1>1. SUFFICES ASSUME Bad # {} PROVE FALSE
  OBVIOUS
<1>2. PICK c \in Bad : \A d \in Bad : c \subseteq d => d = c
  <2>1. Bad \in SUBSET (SUBSET Agents)
    OBVIOUS
  <2> HIDE DEF Bad
  <2> QED
    BY <1>1, <2>1, MaximalSet
<1> DEFINE l == After(deps)[c]
           r == Ready(deps, c)
           n == c \cup r
           rest == After(deps)[n]
<1>3. l = IF r = {} THEN <<>> ELSE <<r>> \o rest
  BY AfterEquation DEF LayersFrom
<1>4. Cardinality(Agents \ c) \in Nat
  BY SwarmAssumption, FS_Subset, FS_CardinalityType
<1>5. CASE r = {}
  <2>1. l = <<>>
    BY <1>3, <1>5
  <2>2. Len(<<>>) = 0 /\ Upto(<<>>, 0) = {} /\ c \cup {} = c
    BY EmptySeq DEF Upto
  <2>3. Ready(deps, c \cup Upto(<<>>, Len(<<>>))) = {}
    BY <1>5, <2>2
  <2>4. Layered(deps, c, <<>>)
    <3>1. <<>> \in Seq(SUBSET Agents) /\ Len(<<>>) <= Cardinality(Agents \ c)
      BY <1>4, <2>2, EmptySeq
    <3>2. \A i \in 1..Len(<<>>) : FALSE
      BY <2>2
    <3>3. \A S \in SUBSET Agents : S \cap Upto(<<>>, Len(<<>>)) = {}
      BY <2>2
    <3> QED
      BY <2>3, <3>1, <3>2, <3>3 DEF Layered
  <2> QED
    BY <1>2, <2>1, <2>4
<1>6. CASE r # {}
  <2>1. n \in SUBSET Agents /\ n # c /\ c \subseteq n /\ r \in SUBSET Agents
    BY <1>6 DEF Ready
  <2>2. Layered(deps, n, rest)
    BY <1>2, <2>1
  <2>3. rest \in Seq(SUBSET Agents) /\ Len(rest) \in Nat
    BY <2>2 DEF Layered
  <2>4. /\ l \in Seq(SUBSET Agents)
        /\ Len(l) = Len(rest) + 1
        /\ l[1] = r
        /\ \A j \in 1..Len(rest) : l[j + 1] = rest[j]
    <3>1. l = <<r>> \o rest /\ <<r>> \in Seq(SUBSET Agents) /\ Len(<<r>>) = 1
      BY <1>3, <1>6, <2>1
    <3> HIDE DEF l, r, rest
    <3> QED
      BY <2>3, <3>1, ConcatProperties
  <2>5. Len(l) <= Cardinality(Agents \ c)
    <3>1. IsFiniteSet(Agents \ c) /\ Agents \ n \in SUBSET (Agents \ c)
      BY <2>1, SwarmAssumption, FS_Subset
    <3>2. Agents \ n # Agents \ c
      BY <2>1
    <3>3. Cardinality(Agents \ n) \in Nat
          /\ Cardinality(Agents \ n) <= Cardinality(Agents \ c)
          /\ Cardinality(Agents \ n) # Cardinality(Agents \ c)
      BY <3>1, <3>2, FS_Subset, FS_CardinalityType
    <3> QED
      BY <1>4, <2>2, <2>3, <2>4, <3>3 DEF Layered
  <2> HIDE DEF l, rest
  <2>6. ASSUME NEW m \in 1..Len(l)
        PROVE  Upto(l, m) = r \cup Upto(rest, m - 1)
    <3>1. ASSUME NEW a \in Upto(l, m) PROVE a \in r \cup Upto(rest, m - 1)
      <4>1. PICK j \in 1..m : a \in l[j]
        BY DEF Upto
      <4>2. j = 1 \/ (j - 1 \in 1..(m - 1) /\ l[j] = rest[j - 1])
        BY <2>3, <2>4
      <4> QED
        BY <2>4, <4>1, <4>2 DEF Upto
    <3>2. r \subseteq Upto(l, m)
      BY <2>3, <2>4 DEF Upto
    <3>3. ASSUME NEW a \in Upto(rest, m - 1) PROVE a \in Upto(l, m)
      <4>1. PICK j \in 1..(m - 1) : a \in rest[j]
        BY DEF Upto
      <4>2. j + 1 \in 1..m /\ l[j + 1] = rest[j]
        BY <2>3, <2>4
      <4> QED
        BY <4>1, <4>2 DEF Upto
    <3> QED
      BY <3>1, <3>2, <3>3
  <2>7. ASSUME NEW i \in 1..Len(l)
        PROVE  l[i] = Ready(deps, c \cup Upto(l, i - 1))
    <3>1. CASE i = 1
      <4>1. c \cup Upto(l, 0) = c
        BY DEF Upto
      <4>2. i - 1 = 0
        BY <3>1
      <4>3. l[i] = r
        BY <2>4, <3>1
      <4> QED
        BY <4>1, <4>2, <4>3
    <3>2. CASE i # 1
      <4>1. /\ i - 1 \in 1..Len(rest) /\ i - 1 \in 1..Len(l)
            /\ l[i] = rest[i - 1] /\ (i - 1) - 1 = i - 2
        BY <2>3, <2>4, <3>2
      <4>2. rest[i - 1] = Ready(deps, n \cup Upto(rest, i - 2))
        BY <2>2, <4>1 DEF Layered
      <4>3. n \cup Upto(rest, i - 2) = c \cup Upto(l, i - 1)
        BY <2>6, <4>1
      <4> QED
        BY <4>1, <4>2, <4>3
    <3> QED
      BY <3>1, <3>2
  <2>8. Upto(l, Len(l)) = r \cup Upto(rest, Len(rest))
    <3>1. Len(l) \in 1..Len(l) /\ Len(l) - 1 = Len(rest)
      BY <2>3, <2>4
    <3> QED
      BY <2>6, <3>1
  <2>9. Ready(deps, c \cup Upto(l, Len(l))) = {}
    <3>1. c \cup Upto(l, Len(l)) = n \cup Upto(rest, Len(rest))
      BY <2>8
    <3> QED
      BY <2>2, <3>1 DEF Layered
  <2>10. ASSUME NEW S \in SUBSET Agents, Stuck(deps, S), S \cap c = {}
         PROVE  S \cap Upto(l, Len(l)) = {}
    <3>1. S \cap r = {}
      BY <2>10 DEF Stuck, Ready
    <3> QED
      BY <2>2, <2>8, <2>10, <3>1 DEF Layered
  <2>11. Layered(deps, c, l)
    BY <2>4, <2>5, <2>7, <2>9, <2>10 DEF Layered
  <2> QED
    BY <1>2, <2>11 DEF l
<1> QED
  BY <1>5, <1>6

\* The agents computeWaves has placed are those of all the layers.
LEMMA CoveredAgents ==
    ASSUME NEW deps
    PROVE  UNION Range(After(deps)[{}]) = Upto(After(deps)[{}], Len(After(deps)[{}]))
<1> DEFINE l == After(deps)[{}]
<1>1. l \in Seq(SUBSET Agents)
  BY AfterLayered DEF Layered
<1> HIDE DEF l
<1>2. Range(l) = {l[i] : i \in 1..Len(l)}
  BY <1>1, RangeEquality
<1>3. UNION Range(l) = Upto(l, Len(l))
  BY <1>2 DEF Upto
<1> QED
  BY <1>3 DEF l

\* computeWaves throws exactly for the configurations with an unknown or a
\* circular dependency.
THEOREM WavesComplete ==
    ASSUME NEW deps, Agents # {}
    PROVE  ComputeWaves(deps) = <<>> <=> \E S \in SUBSET Agents : Stuck(deps, S)
<1> DEFINE l == After(deps)[{}]
           done == Upto(l, Len(l))
<1>1. /\ l \in Seq(SUBSET Agents) /\ Ready(deps, {} \cup done) = {}
      /\ \A S \in SUBSET Agents : Stuck(deps, S) => S \cap done = {}
  <2>1. Layered(deps, {}, l) /\ \A S : S \cap {} = {}
    BY AfterLayered
  <2> QED
    BY <2>1 DEF Layered
<1>2. ComputeWaves(deps) = IF done = Agents THEN l ELSE <<>>
  BY WavesOfAfter, CoveredAgents
<1>3. done \subseteq Agents
  <2>1. \A i \in 1..Len(l) : l[i] \subseteq Agents
    BY <1>1, ElementOfSeq
  <2> QED
    BY <2>1 DEF Upto
<1>4. l = <<>> => done = {}
  BY EmptySeq DEF Upto
<1> HIDE DEF l, done
<1>5. ASSUME done # Agents PROVE Stuck(deps, Agents \ done)
  <2>1. Agents \ (Agents \ done) = done /\ {} \cup done = done
    BY <1>3
  <2> QED
    BY <1>1, <1>3, <1>5, <2>1 DEF Stuck, Ready
<1>6. ASSUME done = Agents, NEW S \in SUBSET Agents, Stuck(deps, S) PROVE FALSE
  BY <1>1, <1>6 DEF Stuck
<1> QED
  BY <1>2, <1>4, <1>5, <1>6
(***************************************************************************)
(* The inductive invariant                                                 *)
(***************************************************************************)
\* The waves of a configuration.
Layers(cfg) == ComputeWaves(cfg.deps)

\* The agents of the first n waves, see Before.
Earlier(cfg, n) == UNION {Layers(cfg)[i] : i \in 1..n}

\* A wave is in progress; a run has been validated and has not ended.
InWave == pc \in {"merging", "closing"}
Started == pc \in {"top", "announced"} \/ InWave

\* Where the generator is: the waves are those of the configuration, the wave
\* in progress is one of them, and agents are at work only during a wave.
Control ==
    /\ Started => waves = Layers(config)
    /\ wave <= Len(Layers(config))
    /\ pc = "announced" \/ InWave => wave < Len(Layers(config))
    /\ pc # "down" => run # 0
    /\ ~InWave => ~cancelled /\ queue = <<>> /\ agent = [a \in Agents |-> "idle"]
    /\ InWave => /\ snapshot = artifacts
                 /\ \A a \in Agents : agent[a] = "idle" <=> a \notin Wave
    /\ pc \notin {"down", "closing"} => outcome = None
    /\ pc = "merging" /\ cancelled => aborted
    /\ pc = "closing" => cancelled
    /\ aborted => cutShort

\* n finished waves that left these artifacts: each required one is there, and
\* unless a wave was cut short each agent of those waves came to its end and
\* each artifact was written in the run in which its writer did.
Finishes(cfg, n, arts, ended, short) ==
    /\ \A d \in Earlier(cfg, n) : \A k \in cfg.requires[d] : arts[k] # None
    /\ ~short =>
          /\ \A a \in Earlier(cfg, n) : ended[a] # 0
          /\ \A k \in Keys : arts[k] # None =>
                 /\ arts[k].by \in Earlier(cfg, n)
                 /\ arts[k].run = ended[arts[k].by]

\* The waves counted in memory and in the checkpoint are finished ones, and
\* the checkpoint is never ahead of the run.
Progress ==
    /\ pc # "down" => Finishes(config, wave, artifacts, endedIn, cutShort)
    /\ saved # None =>
          /\ saved.waves <= Len(Layers(config))
          /\ pc # "down" => saved.waves <= wave
          /\ Finishes(config, saved.waves, saved.artifacts, endedIn, cutShort)

\* What the agents of the wave in progress wrote and how they ended.  One that
\* threw has left a circuit-break event that nobody has taken yet.
WaveWork ==
    /\ InWave =>
          /\ \A a \in Agents : \A k \in Keys :
                 stores[a][k] # None => stores[a][k] = [by |-> a, run |-> run]
          /\ \A a \in Wave : endedIn[a] \in {0, run}
    /\ pc = "merging" =>
          \A a \in Wave : agent[a] = "ended" /\ endedIn[a] = 0 =>
              \E i \in 1..Len(queue) : queue[i].type = "circuit-break"
    /\ pc = "closing" /\ outcome = None /\ ~aborted =>
          \A a \in Wave : endedIn[a] # 0

\* What agents put in the queue.
Event == [type : {"agent-done", "circuit-break"}, cost : Nat]

\* f[i] is what has been counted once the first i of the events are taken:
\* from low before the first to high after the last.
PartialSums(f, events, low, high) ==
    /\ f \in [0..Len(events) -> Nat]
    /\ f[0] = low
    /\ \A i \in 1..Len(events) : f[i] = f[i - 1] + events[i].cost
    /\ f[Len(events)] = high

\* What the ended agents cost is what was counted and what is in the queue,
\* until events are given up.
Ledger ==
    /\ pc = "down" => cost = 0
    /\ pc = "announced" \/ (pc \in {"validate", "top"} /\ ~aborted) =>
          charged = cost /\ cost <= Budget
    /\ pc = "merging" => cost <= Budget
    /\ pc = "merging" /\ ~cancelled => \E f : PartialSums(f, queue, cost, charged)
    /\ pc = "closing" /\ outcome = None /\ ~aborted =>
          charged = cost /\ cost <= Budget

IInv == TypeOK /\ Control /\ Progress /\ WaveWork /\ Ledger

\* The waves of a configuration: at most one for each agent, and each made of
\* the agents that are ready after the waves before it.
LEMMA WavesLayered ==
    ASSUME NEW cfg
    PROVE
    /\ Layers(cfg) \in Seq(SUBSET Agents)
    /\ Len(Layers(cfg)) \in Nat /\ Len(Layers(cfg)) <= Cardinality(Agents)
    /\ \A n \in 1..Len(Layers(cfg)) : Layers(cfg)[n] = Ready(cfg.deps, Earlier(cfg, n - 1))
<1> DEFINE l == After(cfg.deps)[{}]
<1>1. Layered(cfg.deps, {}, l)
  BY AfterLayered
<1>2. Cardinality(Agents) \in Nat /\ Agents \ {} = Agents
  BY SwarmAssumption, FS_CardinalityType
<1>3. Layers(cfg) = l \/ Layers(cfg) = <<>>
  BY WavesOfAfter DEF Layers
<1>4. CASE Layers(cfg) = l
  <2>1. l \in Seq(SUBSET Agents) /\ Len(l) <= Cardinality(Agents)
    BY <1>1, <1>2 DEF Layered
  <2>2. \A n : Earlier(cfg, n) = {} \cup Upto(l, n)
    BY <1>4 DEF Earlier, Upto, Layers
  <2> HIDE DEF l
  <2> QED
    BY <1>1, <1>4, <2>1, <2>2, LenProperties DEF Layered
<1>5. CASE Layers(cfg) = <<>>
  BY <1>2, <1>5, EmptySeq
<1> QED
  BY <1>3, <1>4, <1>5

\* The wave after the first n is disjoint from them and depends on them only.
LEMMA NextWave ==
    ASSUME NEW cfg, NEW n \in Nat, n < Len(Layers(cfg))
    PROVE  /\ Layers(cfg)[n + 1] \in SUBSET Agents
           /\ Layers(cfg)[n + 1] \cap Earlier(cfg, n) = {}
           /\ \A a \in Layers(cfg)[n + 1] : cfg.deps[a] \subseteq Earlier(cfg, n)
           /\ Earlier(cfg, n + 1) = Earlier(cfg, n) \cup Layers(cfg)[n + 1]
<1>1. n + 1 \in 1..Len(Layers(cfg)) /\ (n + 1) - 1 = n
  BY WavesLayered
<1>2. Layers(cfg)[n + 1] = Ready(cfg.deps, Earlier(cfg, n))
  BY <1>1, WavesLayered
<1>3. Earlier(cfg, n + 1) = Earlier(cfg, n) \cup Layers(cfg)[n + 1]
  <2>1. \A i : i \in 1..(n + 1) <=> i \in 1..n \/ i = n + 1
    OBVIOUS
  <2> QED
    BY <2>1 DEF Earlier, Layers
<1> QED
  BY <1>2, <1>3 DEF Ready

\* The agents of the first waves are agents, and more waves hold more of them.
LEMMA EarlierGrows ==
    ASSUME NEW cfg
    PROVE
    /\ Earlier(cfg, 0) = {}
    /\ \A m, n \in Nat : m <= n => Earlier(cfg, m) \subseteq Earlier(cfg, n)
    /\ \A n \in 0..Len(Layers(cfg)) : Earlier(cfg, n) \subseteq Agents
<1>1. Earlier(cfg, 0) = {}
  BY DEF Earlier
<1>2. ASSUME NEW m \in Nat, NEW n \in Nat, m <= n
      PROVE  Earlier(cfg, m) \subseteq Earlier(cfg, n)
  <2>1. \A i : i \in 1..m => i \in 1..n
    BY <1>2
  <2> QED
    BY <2>1 DEF Earlier
<1>3. ASSUME NEW n \in 0..Len(Layers(cfg)) PROVE Earlier(cfg, n) \subseteq Agents
  <2>1. \A i : i \in 1..n => i \in 1..Len(Layers(cfg))
    BY <1>3, WavesLayered
  <2>2. \A i \in 1..Len(Layers(cfg)) : Layers(cfg)[i] \subseteq Agents
    BY WavesLayered, ElementOfSeq
  <2> QED
    BY <2>1, <2>2 DEF Earlier, Layers
<1> QED
  BY <1>1, <1>2, <1>3

(***************************************************************************)
(* The steps                                                               *)
(***************************************************************************)
\* A run ends, leaving the checkpoint or deleting it, and no agent is at work.
Over ==
    \E how \in Endings :
        Ends(how) /\ (saved' = saved \/ saved' = None)
           /\ (Running = {} \/ how = "crashed" \/ ~InWave)

\* Every step is one of these; the ways a run may end are taken together.
LEMMA Steps ==
    ASSUME TypeOK, Control, [Next]_vars
    PROVE  \/ Over \/ Launch \/ Valid \/ WaveStart \/ AgentsStart
           \/ \E a \in Agents, k \in Keys : Write(a, k)
           \/ \E a \in Agents, usd \in Costs : AgentEnds(a, usd)
           \/ \E a \in Agents : AgentThrows(a) \/ AgentClosed(a)
           \/ AgentDone \/ CircuitBreak \/ MergeEnds \/ WaveSaved \/ Abort
           \/ pc = "merging" /\ Abandon
           \/ UNCHANGED vars
<1>1. ASSUME Invalid \/ AbortSeen \/ SwarmDone \/ Crash PROVE Over
  BY <1>1 DEF Invalid, AbortSeen, SwarmDone, Crash, Over, Endings, Delete,
              InWave
<1>2. ASSUME WaveBroken PROVE Over
  <2>1. outcome \in Endings
    BY <1>2 DEF WaveBroken, TypeOK
  <2> QED
    BY <1>2, <2>1 DEF WaveBroken, Over, Closed
<1>3. ASSUME ArtifactMissing PROVE Over
  BY <1>3 DEF ArtifactMissing, Over, Endings, Delete, Closed
<1>4. ASSUME Abandon, pc # "merging" PROVE Over
  BY <1>4 DEF Abandon, Over, Endings, InWave
<1> QED
  BY <1>1, <1>2, <1>3, <1>4 DEF Next, GraphStep, AgentStep

\* The configuration does not change, nor what is computed from it.
LEMMA ConfigFixed ==
    ASSUME [Next]_vars
    PROVE  /\ config' = config
           /\ Layers(config)' = Layers(config)
<1>1. config' = config
  BY DEF Next, vars, GraphStep, AgentStep, Launch, Valid, Invalid, AbortSeen,
         WaveStart, AgentsStart, AgentDone, CircuitBreak, MergeEnds,
         WaveBroken, ArtifactMissing, WaveSaved, SwarmDone, AgentThrows,
         AgentClosed, AgentEnds, Write, Abort, Abandon, Crash, Ends
<1> QED
  BY <1>1

(***************************************************************************)
(* Type correctness                                                        *)
(***************************************************************************)
\* A store without artifacts is one.
LEMMA EmptyType == Empty \in ArtifactMap /\ NoStores \in [Agents -> ArtifactMap]
BY DEF Empty, NoStores, ArtifactMap

\* Of the writers of a key there is a last one.
LEMMA LastWriter ==
    ASSUME NEW S \in SUBSET Agents, S # {}
    PROVE  LastOf(S) \in S
<1> DEFINE UpTo(a) == {b \in S : b <= a}
           T == {UpTo(a) : a \in S}
<1>1. T \in SUBSET (SUBSET Agents) /\ T # {}
  OBVIOUS
<1>2. PICK c \in T : \A d \in T : c \subseteq d => d = c
  <2> HIDE DEF T
  <2> QED
    BY <1>1, MaximalSet
<1>3. PICK a \in S : c = UpTo(a)
  OBVIOUS
<1>n. \A x \in S : x \in Nat
  BY SwarmAssumption
<1>4. ASSUME NEW b \in S PROVE b <= a
  <2>1. a \in Nat /\ b \in Nat
    BY <1>n
  <2>2. SUFFICES ASSUME a <= b PROVE b <= a
    BY <2>1
  <2>3. UpTo(a) \subseteq UpTo(b)
    <3>1. ASSUME NEW x \in S, x <= a PROVE x <= b
      BY <1>n, <2>1, <2>2, <3>1
    <3> QED
      BY <3>1
  <2>4. UpTo(b) = UpTo(a)
    <3>1. UpTo(b) \in T
      OBVIOUS
    <3> HIDE DEF T, UpTo
    <3> QED
      BY <1>2, <1>3, <2>3, <3>1
  <2>5. b \in UpTo(b)
    BY <2>1
  <2> QED
    BY <2>4, <2>5
<1> QED
  BY <1>4 DEF LastOf

\* The wave in progress is one of the configuration's.
LEMMA WaveInProgress ==
    ASSUME TypeOK, Control, InWave \/ pc = "announced"
    PROVE  /\ wave \in Nat /\ wave < Len(Layers(config))
           /\ Wave = Layers(config)[wave + 1]
           /\ Wave \in SUBSET Agents
BY NextWave DEF TypeOK, Control, InWave, Started, Wave

\* A merged artifact was there before or was written by an agent of the wave.
LEMMA MergedArtifacts ==
    ASSUME TypeOK, Control, InWave
    PROVE  /\ Merged \in ArtifactMap
           /\ \A k \in Keys : \/ Merged[k] = artifacts[k]
                             \/ \E a \in Wave : /\ Merged[k] = stores[a][k]
                                            /\ stores[a][k] # None
<1>0. Wave \in SUBSET Agents
  BY WaveInProgress
<1>1. ASSUME NEW k \in Keys
      PROVE  /\ Merged[k] \in Artifact \cup {None}
             /\ \/ Merged[k] = artifacts[k]
                \/ \E a \in Wave : Merged[k] = stores[a][k] /\ stores[a][k] # None
  <2>1. CASE Writers(k) = {}
    BY <2>1 DEF Merged, TypeOK, ArtifactMap
  <2>2. CASE Writers(k) # {}
    <3>1. Writers(k) \in SUBSET Agents
      BY <1>0 DEF Writers
    <3>2. LastOf(Writers(k)) \in Writers(k)
      BY <2>2, <3>1, LastWriter
    <3>3. PICK a \in Wave : a = LastOf(Writers(k)) /\ stores[a][k] # None
      BY <3>2 DEF Writers
    <3>4. Merged[k] = stores[a][k]
      BY <2>2, <3>3 DEF Merged
    <3>5. stores[a][k] \in Artifact \cup {None}
      BY <1>0, <3>3 DEF TypeOK, ArtifactMap
    <3> QED
      BY <3>3, <3>4, <3>5
  <2> QED
    BY <2>1, <2>2
<1>2. Merged = [k \in Keys |-> Merged[k]]
  BY DEF Merged
<1> HIDE DEF Merged
<1> QED
  BY <1>1, <1>2 DEF ArtifactMap

\* Every step keeps every variable in its type.
LEMMA NextTypeOK ==
    ASSUME IInv, [Next]_vars
    PROVE  TypeOK'
<1> USE SwarmAssumption, EmptyType DEF IInv, TypeOK, Event
<1>0. config' \in Configs
  BY ConfigFixed
<1>e. <<>> \in Seq(Event) /\ Cardinality(Agents) \in Nat
  BY EmptySeq, FS_CardinalityType
<1>1. CASE Over
  <2>1. PICK how \in Endings : Ends(how) /\ (saved' = saved \/ saved' = None)
    BY <1>1 DEF Over
  <2>2. wave' \in 0..Cardinality(Agents)
    BY <1>e, <2>1 DEF Ends
  <2>3. artifacts' \in ArtifactMap /\ snapshot' \in ArtifactMap
    BY <2>1 DEF Ends
  <2>4. stores' \in [Agents -> ArtifactMap]
    BY <2>1 DEF Ends
  <2>5. agent' \in [Agents -> {"idle", "running", "ended", "closed"}]
    BY <2>1 DEF Ends
  <2>6. queue' \in Seq(Event) /\ waves' \in Seq(SUBSET Agents)
    BY <2>1, <1>e, EmptySeq DEF Ends
  <2> QED
    BY <1>0, <2>1, <2>2, <2>3, <2>4, <2>5, <2>6 DEF Ends, historyVars
<1>2. CASE Launch
  <2>1. wave' \in 0..Cardinality(Agents) /\ artifacts' \in ArtifactMap
    BY <1>2, <1>e, WavesLayered DEF Launch, FirstWave, Progress
  <2> QED
    <3>1. endedIn' \in [Agents -> 0..MaxRuns]
      BY <1>2 DEF Launch
    <3>2. cutShort' \in BOOLEAN
      BY <1>2 DEF Launch
    <3> QED
      <4>1. run' \in 0..MaxRuns
        BY <1>2 DEF Launch
      <4>2. charged' \in Nat /\ aborted' \in BOOLEAN
        BY <1>2 DEF Launch
      <4> QED
        BY <1>0, <1>2, <2>1, <3>1, <3>2, <4>1, <4>2 DEF Launch, waveVars
<1>3. CASE Valid
  BY <1>0, <1>3, WavesLayered DEF Valid, Layers, waveVars, historyVars
<1>4. CASE WaveStart
  BY <1>0, <1>4 DEF WaveStart, runVars, waveVars, historyVars
<1>5. CASE AgentsStart
  <2>1. pc' = "merging" /\ snapshot' \in ArtifactMap
    BY <1>5 DEF AgentsStart
  <2>2. stores' \in [Agents -> ArtifactMap]
    BY <1>5 DEF AgentsStart
  <2>3. agent' \in [Agents -> {"idle", "running", "ended", "closed"}]
    BY <1>5 DEF AgentsStart
  <2>4. queue' \in Seq(Event)
    BY <1>5, <1>e DEF AgentsStart
  <2>5. endedIn' \in [Agents -> 0..MaxRuns]
    BY <1>5 DEF AgentsStart
  <2> QED
    BY <1>0, <1>5, <2>1, <2>2, <2>3, <2>4, <2>5 DEF AgentsStart
<1>6. ASSUME NEW a \in Agents, NEW k \in Keys, Write(a, k) PROVE TypeOK'
  <2>1. [by |-> a, run |-> run] \in Artifact
    <3>1. InWave
      BY <1>6 DEF Write, Control
    <3>2. run \in 1..MaxRuns
      BY <3>1 DEF Control, InWave
    <3> QED
      BY <3>2 DEF Artifact
  <2>2. stores' \in [Agents -> ArtifactMap]
    BY <1>6, <2>1 DEF Write, ArtifactMap
  <2> QED
    BY <1>0, <1>6, <2>2 DEF Write, runVars, historyVars
<1>7. ASSUME NEW a \in Agents, NEW usd \in Costs, AgentEnds(a, usd)
      PROVE  TypeOK'
  BY <1>0, <1>7 DEF AgentEnds, Enqueue, runVars
<1>8. ASSUME NEW a \in Agents, AgentThrows(a) PROVE TypeOK'
  BY <1>0, <1>8 DEF AgentThrows, StateAfterThrow, Enqueue, runVars, historyVars
<1>9. ASSUME NEW a \in Agents, AgentClosed(a) PROVE TypeOK'
  BY <1>0, <1>9 DEF AgentClosed, runVars, historyVars
<1>10. CASE AgentDone
  <2>1. Head(queue) \in Event /\ Tail(queue) \in Seq(Event)
    BY <1>10, HeadTailProperties DEF AgentDone, Taken
  <2> QED
    <3>1. queue' \in Seq(Event) /\ cost' \in Nat
      BY <1>10, <2>1 DEF AgentDone
    <3>2. /\ pc' \in {"merging", "closing"} /\ outcome' \in Endings \cup {None}
          /\ cancelled' \in BOOLEAN /\ (saved' = saved \/ saved' = None)
      BY <1>10 DEF AgentDone, Taken, Break, Delete, Endings
    <3> QED
      BY <1>0, <1>10, <3>1, <3>2 DEF AgentDone, runVars, historyVars
<1>11. CASE CircuitBreak
  <2>1. Tail(queue) \in Seq(Event)
    BY <1>11, HeadTailProperties DEF CircuitBreak, Taken
  <2> QED
    BY <1>0, <1>11, <2>1
    DEF CircuitBreak, Break, runVars, historyVars, Endings
<1>12. CASE MergeEnds
  BY <1>0, <1>12 DEF MergeEnds, Break, runVars, historyVars
<1>13. CASE WaveSaved
  <2>1. wave' \in 0..Cardinality(Agents)
    BY <1>13, <1>e, WavesLayered DEF WaveSaved, Control, InWave
  <2> QED
    <3>1. artifacts' \in ArtifactMap /\ snapshot' \in ArtifactMap
      BY <1>13, MergedArtifacts DEF WaveSaved, InWave
    <3>2. saved' = None \/ saved' \in [waves : Nat, artifacts : ArtifactMap]
      BY <1>13, <3>1 DEF WaveSaved, SavedWaves
    <3>3. stores' \in [Agents -> ArtifactMap] /\ queue' \in Seq(Event)
      BY <1>13, <1>e DEF WaveSaved
    <3>4. agent' \in [Agents -> {"idle", "running", "ended", "closed"}]
      BY <1>13 DEF WaveSaved
    <3> QED
      BY <1>0, <1>13, <2>1, <3>1, <3>2, <3>3, <3>4 DEF WaveSaved, historyVars
<1>14. CASE Abort
  BY <1>0, <1>14 DEF Abort, runVars
<1>15. CASE pc = "merging" /\ Abandon
  BY <1>0, <1>15 DEF Abandon, Break, runVars, historyVars, Endings
<1>16. CASE UNCHANGED vars
  BY <1>16 DEF vars, runVars, waveVars, historyVars
<1> QED
  BY <1>1, <1>2, <1>3, <1>4, <1>5, <1>6, <1>7, <1>8, <1>9, <1>10, <1>11,
     <1>12, <1>13, <1>14, <1>15, <1>16, Steps

(***************************************************************************)
(* The other conjuncts, one lemma per conjunct                             *)
(***************************************************************************)
\* Every step keeps the generator where its wave is.
LEMMA NextControl ==
    ASSUME IInv, [Next]_vars
    PROVE  Control'
<1> USE DEF IInv, Control, InWave, Started
<1>0. Layers(config)' = Layers(config) /\ Len(Layers(config)) \in Nat /\ wave \in Nat
  BY ConfigFixed, WavesLayered DEF TypeOK
<1>1. CASE Over
  BY <1>0, <1>1 DEF Over, Ends, historyVars
<1>2. CASE Launch
  <2>1. wave' <= Len(Layers(config))
    BY <1>0, <1>2 DEF Launch, FirstWave, Progress
  <2>2. run' # 0
    BY <1>2 DEF Launch, TypeOK
  <2> QED
    BY <1>0, <1>2, <2>1, <2>2 DEF Launch, waveVars
<1>3. CASE Valid
  BY <1>0, <1>3 DEF Valid, Layers, waveVars, historyVars
<1>4. CASE WaveStart
  BY <1>0, <1>4 DEF WaveStart, runVars, waveVars, historyVars
<1>5. CASE AgentsStart
  <2>1. Wave' = Wave /\ wave' = wave /\ waves' = waves
    BY <1>5 DEF AgentsStart, Wave
  <2>2. \A a \in Agents : agent'[a] = "idle" <=> a \notin Wave'
    BY <1>5, <2>1 DEF AgentsStart
  <2> QED
    BY <1>0, <1>5, <2>1, <2>2 DEF AgentsStart
<1>6. ASSUME NEW a \in Agents, NEW k \in Keys, Write(a, k) PROVE Control'
  BY <1>0, <1>6 DEF Write, runVars, historyVars, Wave
<1>7. ASSUME NEW a \in Agents, NEW usd \in Costs, AgentEnds(a, usd)
      PROVE  Control'
  BY <1>0, <1>7 DEF AgentEnds, runVars, Wave, TypeOK
<1>8. ASSUME NEW a \in Agents, AgentThrows(a) PROVE Control'
  BY <1>0, <1>8 DEF AgentThrows, StateAfterThrow, runVars, historyVars, Wave,
                    TypeOK
<1>9. ASSUME NEW a \in Agents, AgentClosed(a) PROVE Control'
  BY <1>0, <1>9 DEF AgentClosed, runVars, historyVars, Wave, TypeOK
<1>10. CASE AgentDone
  BY <1>0, <1>10 DEF AgentDone, Taken, Break, runVars, historyVars, Wave
<1>11. CASE CircuitBreak
  BY <1>0, <1>11 DEF CircuitBreak, Taken, Break, runVars, historyVars, Wave
<1>12. CASE MergeEnds
  BY <1>0, <1>12 DEF MergeEnds, Break, runVars, historyVars, Wave
<1>13. CASE WaveSaved
  BY <1>0, <1>13 DEF WaveSaved, historyVars
<1>14. CASE Abort
  BY <1>0, <1>14 DEF Abort, runVars, Wave
<1>15. CASE pc = "merging" /\ Abandon
  BY <1>0, <1>15 DEF Abandon, Break, runVars, historyVars, Wave
<1>16. CASE UNCHANGED vars
  BY <1>0, <1>16 DEF vars, runVars, waveVars, historyVars, Wave
<1> QED
  BY <1>1, <1>2, <1>3, <1>4, <1>5, <1>6, <1>7, <1>8, <1>9, <1>10, <1>11,
     <1>12, <1>13, <1>14, <1>15, <1>16, Steps

\* What finished waves left stays so while only later agents come to their end.
LEMMA FinishesKept ==
    ASSUME NEW cfg, NEW n, NEW arts, NEW ended, NEW short, NEW ended2, NEW short2,
           Finishes(cfg, n, arts, ended, short),
           short2 \in {short, TRUE},
           \A a \in Earlier(cfg, n) : ended2[a] = ended[a]
    PROVE  Finishes(cfg, n, arts, ended2, short2)
BY DEF Finishes

\* A run from scratch has finished no wave.
LEMMA NothingFinished ==
    ASSUME NEW cfg, NEW ended, NEW short
    PROVE  Finishes(cfg, 0, Empty, ended, short)
BY EarlierGrows DEF Finishes, Empty

\* Every step keeps the finished waves finished; a wave is counted when it is
\* merged, in memory and, if the write succeeds, in the checkpoint.
LEMMA NextProgress ==
    ASSUME IInv, [Next]_vars
    PROVE  Progress'
<1> USE DEF IInv
<1>0. /\ config' = config /\ Layers(config)' = Layers(config)
      /\ Len(Layers(config)) \in Nat /\ wave \in Nat /\ wave <= Len(Layers(config))
      /\ saved # None => saved.waves \in Nat
  BY ConfigFixed, WavesLayered DEF TypeOK, Control
<1> DEFINE Kept ==
        /\ UNCHANGED <<pc, wave, artifacts, saved>>
        /\ cutShort' \in {cutShort, TRUE}
        /\ \A a \in Agents : endedIn'[a] = endedIn[a] \/ (InWave /\ a \in Wave)
<1>k. ASSUME Kept PROVE Progress'
  <2>1. CASE pc = "down"
    <3>1. saved # None => \A a \in Earlier(config, saved.waves) : endedIn'[a] = endedIn[a]
      BY <1>0, <1>k, <2>1, EarlierGrows DEF InWave, Progress
    <3> QED
      BY <1>0, <1>k, <2>1, <3>1, FinishesKept DEF Progress
  <2>2. CASE pc # "down"
    <3>1. \A a \in Earlier(config, wave) : endedIn'[a] = endedIn[a]
      <4>1. Earlier(config, wave) \subseteq Agents
        BY <1>0, EarlierGrows
      <4>2. InWave => Wave \cap Earlier(config, wave) = {}
        BY WaveInProgress, NextWave
      <4> QED
        BY <1>k, <4>1, <4>2
    <3>2. Finishes(config, wave, artifacts, endedIn', cutShort')
      BY <1>k, <2>2, <3>1, FinishesKept DEF Progress
    <3>3. saved # None => Earlier(config, saved.waves) \subseteq Earlier(config, wave)
      BY <1>0, <2>2, EarlierGrows DEF Progress
    <3>4. saved # None => Finishes(config, saved.waves, saved.artifacts, endedIn', cutShort')
      BY <1>k, <3>1, <3>3, FinishesKept DEF Progress
    <3> QED
      BY <1>0, <1>k, <2>2, <3>2, <3>4 DEF Progress
  <2> QED
    BY <2>1, <2>2
<1>1. CASE Over
  BY <1>0, <1>1 DEF Over, Ends, historyVars, Progress
<1>2. CASE Launch
  <2>1. CASE saved = None
    BY <1>0, <1>2, <2>1, NothingFinished DEF Launch, FirstWave, Progress
  <2>2. CASE saved # None
    <3>1. /\ wave' = saved.waves /\ artifacts' = saved.artifacts
          /\ endedIn' = endedIn /\ cutShort' = cutShort /\ saved' = saved
          /\ pc' = "validate"
      BY <1>2, <2>2 DEF Launch, FirstWave, TypeOK
    <3> QED
      BY <1>0, <2>2, <3>1 DEF Progress
  <2> QED
    BY <2>1, <2>2
<1>3. CASE Valid
  BY <1>0, <1>3 DEF Valid, historyVars, Progress
<1>4. CASE WaveStart
  BY <1>0, <1>4 DEF WaveStart, runVars, historyVars, Progress
<1>5. CASE AgentsStart
  <2>1. \A a \in Agents : endedIn'[a] = endedIn[a] \/ a \in Wave
    BY <1>5 DEF AgentsStart
  <2>2. Wave \cap Earlier(config, wave) = {} /\ Earlier(config, wave) \subseteq Agents
    BY <1>0, <1>5, WaveInProgress, NextWave, EarlierGrows DEF AgentsStart
  <2>3. \A a \in Earlier(config, wave) : endedIn'[a] = endedIn[a]
    BY <2>1, <2>2
  <2>4. Finishes(config, wave, artifacts, endedIn', cutShort')
    BY <1>5, <2>3, FinishesKept DEF AgentsStart, Progress
  <2>5. saved # None => Finishes(config, saved.waves, saved.artifacts, endedIn', cutShort')
    <3>1. saved # None => Earlier(config, saved.waves) \subseteq Earlier(config, wave)
      BY <1>0, <1>5, EarlierGrows DEF AgentsStart, Progress
    <3> QED
      BY <1>5, <2>3, <3>1, FinishesKept DEF AgentsStart, Progress
  <2> QED
    BY <1>0, <1>5, <2>4, <2>5 DEF AgentsStart, Progress
<1>6. ASSUME NEW a \in Agents, NEW k \in Keys, Write(a, k) PROVE Progress'
  <2>1. Kept
    BY <1>6 DEF Write, runVars, historyVars
  <2> QED
    BY <1>k, <2>1
<1>7. ASSUME NEW a \in Agents, NEW usd \in Costs, AgentEnds(a, usd)
      PROVE  Progress'
  <2>1. InWave /\ a \in Wave
    BY <1>7 DEF AgentEnds, Control
  <2>2. Kept
    BY <1>7, <2>1 DEF AgentEnds, runVars, TypeOK
  <2> QED
    BY <1>k, <2>2
<1>8. ASSUME NEW a \in Agents, AgentThrows(a) PROVE Progress'
  <2>1. Kept
    BY <1>8 DEF AgentThrows, runVars, historyVars
  <2> QED
    BY <1>k, <2>1
<1>9. ASSUME NEW a \in Agents, AgentClosed(a) PROVE Progress'
  <2>1. Kept
    BY <1>9 DEF AgentClosed, runVars, historyVars
  <2> QED
    BY <1>k, <2>1
<1>10. CASE AgentDone
  BY <1>0, <1>10 DEF AgentDone, Taken, Break, Delete, runVars, historyVars,
                     Progress
<1>11. CASE CircuitBreak
  BY <1>0, <1>11 DEF CircuitBreak, Taken, Break, runVars, historyVars, Progress
<1>12. CASE MergeEnds
  BY <1>0, <1>12 DEF MergeEnds, Break, runVars, historyVars, Progress
<1>13. CASE WaveSaved
  <2> DEFINE next == Earlier(config, wave + 1)
  <2>1. /\ InWave /\ next = Earlier(config, wave) \cup Wave
        /\ Wave \subseteq Agents /\ wave + 1 <= Len(Layers(config))
    BY <1>0, <1>13, WaveInProgress, NextWave DEF WaveSaved, InWave
  <2>2. Finishes(config, wave, artifacts, endedIn, cutShort)
    BY <1>13 DEF Progress, WaveSaved
  <2>3. \A k \in Keys : \/ Merged[k] = artifacts[k]
                        \/ \E a \in Wave : Merged[k] = stores[a][k]
                                             /\ stores[a][k] # None
    BY <2>1, MergedArtifacts
  <2>4. ASSUME NEW d \in next, NEW k \in config.requires[d], k \in Keys
        PROVE  Merged[k] # None
    <3>1. CASE d \in Wave
      BY <1>13, <2>4, <3>1 DEF WaveSaved, Missing
    <3>2. CASE d \in Earlier(config, wave)
      BY <2>2, <2>3, <2>4, <3>2 DEF Finishes
    <3> QED
      BY <2>1, <3>1, <3>2
  <2>5. \A d \in next : config.requires[d] \subseteq Keys
    <3>1. next \subseteq Agents
      BY <1>0, <2>1, EarlierGrows
    <3> QED
      BY <3>1, SwarmAssumption DEF TypeOK, ConfigType
  <2>6. ~cutShort => \A a \in Wave : endedIn[a] # 0 /\ endedIn[a] = run
    BY <1>13, <2>1 DEF WaveSaved, WaveWork, Control, TypeOK
  <2>7. ASSUME ~cutShort, NEW k \in Keys, Merged[k] # None
        PROVE  Merged[k].by \in next /\ Merged[k].run = endedIn[Merged[k].by]
    <3>1. CASE Merged[k] = artifacts[k]
      BY <2>1, <2>2, <2>7, <3>1 DEF Finishes
    <3>2. ASSUME NEW a \in Wave, Merged[k] = stores[a][k], stores[a][k] # None
          PROVE  Merged[k].by \in next /\ Merged[k].run = endedIn[Merged[k].by]
      <4>1. Merged[k] = [by |-> a, run |-> run]
        BY <2>1, <3>2 DEF WaveWork
      <4> QED
        BY <2>1, <2>6, <2>7, <4>1
    <3> QED
      BY <2>3, <3>1, <3>2
  <2>8. ~cutShort => \A a \in next : endedIn[a] # 0
    BY <2>1, <2>2, <2>6 DEF Finishes
  <2>9. Finishes(config, wave + 1, Merged, endedIn, cutShort)
    BY <2>4, <2>5, <2>7, <2>8 DEF Finishes
  <2> HIDE DEF next
  <2> QED
    BY <1>0, <1>13, <2>1, <2>9 DEF WaveSaved, SavedWaves, historyVars, Progress
<1>14. CASE Abort
  <2>1. Kept
    BY <1>14 DEF Abort, runVars
  <2> QED
    BY <1>k, <2>1
<1>15. CASE pc = "merging" /\ Abandon
  BY <1>0, <1>15 DEF Abandon, Break, runVars, historyVars, Progress
<1>16. CASE UNCHANGED vars
  <2>1. Kept
    BY <1>16 DEF vars, runVars, historyVars
  <2> QED
    BY <1>k, <2>1
<1> QED
  BY <1>1, <1>2, <1>3, <1>4, <1>5, <1>6, <1>7, <1>8, <1>9, <1>10, <1>11,
     <1>12, <1>13, <1>14, <1>15, <1>16, Steps

\* Every step keeps the account of the wave in progress: agents only write their
\* own names, and one that threw is told from one that came to its end.
LEMMA NextWaveWork ==
    ASSUME IInv, [Next]_vars
    PROVE  WaveWork'
<1> USE DEF IInv, WaveWork, InWave
<1>0. /\ queue \in Seq(Event) /\ Len(queue) \in Nat
      /\ "circuit-break" # None /\ "abandoned" # None
  BY SwarmAssumption, LenProperties DEF TypeOK, Event, Endings
<1>1. CASE Over
  BY <1>1 DEF Over, Ends
<1>2. CASE Launch
  BY <1>2 DEF Launch
<1>3. CASE Valid
  BY <1>3 DEF Valid
<1>4. CASE WaveStart
  BY <1>4 DEF WaveStart
<1>5. CASE AgentsStart
  <2>1. \A a \in Agents, k \in Keys : stores'[a][k] = None
    BY <1>5 DEF AgentsStart, NoStores, Empty
  <2>2. Wave' = Wave /\ Wave \subseteq Agents
    BY <1>5, WaveInProgress DEF AgentsStart, Wave
  <2>3. \A a \in Wave : endedIn'[a] = 0 /\ agent'[a] = "running"
    BY <1>5, <2>2 DEF AgentsStart
  <2>4. pc' = "merging"
    BY <1>5 DEF AgentsStart
  <2> QED
    BY <2>1, <2>2, <2>3, <2>4
<1>6. ASSUME NEW a \in Agents, NEW k \in Keys, Write(a, k) PROVE WaveWork'
  <2>1. \A b \in Agents, l \in Keys :
            \/ stores'[b][l] = stores[b][l]
            \/ stores'[b][l] = [by |-> b, run |-> run]
    BY <1>6 DEF Write, TypeOK, ArtifactMap
  <2>2. Wave' = Wave
    BY <1>6 DEF Write, Wave, runVars
  <2> QED
    BY <1>6, <2>1, <2>2 DEF Write, runVars, historyVars
<1>7. ASSUME NEW a \in Agents, NEW usd \in Costs, AgentEnds(a, usd)
      PROVE  WaveWork'
  <2>1. Wave' = Wave /\ Wave \subseteq Agents /\ pc = "merging" /\ pc' = pc
    BY <1>7, WaveInProgress DEF AgentEnds, Wave, runVars, Control
  <2>2. /\ Len(queue') = Len(queue) + 1
        /\ \A i \in 1..Len(queue) : queue'[i] = queue[i]
    BY <1>0, <1>7, SwarmAssumption, AppendProperties
    DEF AgentEnds, Enqueue, Event
  <2>3. run # 0 /\ endedIn' = [endedIn EXCEPT ![a] = run]
        /\ agent' = [agent EXCEPT ![a] = "ended"]
    BY <1>7, <2>1 DEF AgentEnds, Control
  <2>4. ASSUME NEW b \in Wave, agent'[b] = "ended", endedIn'[b] = 0
        PROVE  \E i \in 1..Len(queue') : queue'[i].type = "circuit-break"
    <3>1. agent[b] = "ended" /\ endedIn[b] = 0
      BY <2>1, <2>3, <2>4 DEF TypeOK
    <3>2. PICK i \in 1..Len(queue) : queue[i].type = "circuit-break"
      BY <2>1, <3>1
    <3> QED
      BY <1>0, <2>2, <3>2
  <2> QED
    BY <1>7, <2>1, <2>3, <2>4 DEF AgentEnds, runVars, TypeOK
<1>8. ASSUME NEW a \in Agents, AgentThrows(a) PROVE WaveWork'
  <2>1. Wave' = Wave /\ pc = "merging" /\ pc' = pc
    BY <1>8 DEF AgentThrows, Wave, runVars, Control
  <2>2. /\ Len(queue) + 1 \in 1..Len(queue')
        /\ queue'[Len(queue) + 1].type = "circuit-break"
    BY <1>0, <1>8, AppendProperties DEF AgentThrows, Enqueue, Event
  <2> QED
    BY <1>8, <2>1, <2>2 DEF AgentThrows, runVars, historyVars
<1>9. ASSUME NEW a \in Agents, AgentClosed(a) PROVE WaveWork'
  <2>1. Wave' = Wave
    BY <1>9 DEF AgentClosed, Wave, runVars
  <2>2. \A b \in Wave : agent'[b] = "ended" => agent[b] = "ended"
    BY <1>9 DEF AgentClosed, TypeOK
  <2> QED
    BY <1>9, <2>1, <2>2 DEF AgentClosed, runVars, historyVars
<1>10. CASE AgentDone
  <2>1. Wave' = Wave /\ pc = "merging"
    BY <1>10 DEF AgentDone, Taken, Wave, runVars
  <2>2. CASE pc' = "closing"
    <3>1. outcome' # None
      BY <1>0, <1>10, <2>1, <2>2 DEF AgentDone, Break
    <3> QED
      BY <1>10, <2>1, <2>2, <3>1 DEF AgentDone, runVars, historyVars
  <2>3. CASE pc' # "closing"
    <3>1. pc' = "merging"
      BY <1>10, <2>1, <2>3 DEF AgentDone, Break
    <3>2. /\ queue # <<>> /\ queue' = Tail(queue)
          /\ Head(queue).type # "circuit-break"
      BY <1>10 DEF AgentDone, Taken
    <3>3. Len(queue') = Len(queue) - 1 /\ Head(queue) = queue[1]
          /\ \A i \in 1..Len(queue') : queue'[i] = queue[i + 1]
      BY <1>0, <3>2, HeadTailProperties
    <3>4. ASSUME NEW i \in 1..Len(queue), queue[i].type = "circuit-break"
          PROVE  \E j \in 1..Len(queue') : queue'[j].type = "circuit-break"
      <4>1. i - 1 \in 1..Len(queue') /\ queue'[i - 1] = queue[i]
        BY <1>0, <3>2, <3>3, <3>4
      <4> QED
        BY <3>4, <4>1
    <3> QED
      BY <1>10, <2>1, <3>1, <3>4 DEF AgentDone, runVars, historyVars
  <2> QED
    BY <2>2, <2>3
<1>11. CASE CircuitBreak
  BY <1>0, <1>11 DEF CircuitBreak, Taken, Break, runVars, historyVars, Wave
<1>12. CASE MergeEnds
  <2>1. Wave' = Wave /\ Wave \subseteq Agents
    BY <1>12, WaveInProgress DEF MergeEnds, Wave, runVars
  <2>2. ASSUME ~aborted, NEW a \in Wave PROVE endedIn[a] # 0
    <3>1. Finished /\ queue = <<>>
      BY <1>12, <2>2 DEF MergeEnds, MergeOver, Control
    <3>2. agent[a] = "ended"
      BY <2>1, <3>1 DEF Finished
    <3> QED
      BY <1>12, <3>1, <3>2, EmptySeq DEF MergeEnds
  <2> QED
    BY <1>12, <2>1, <2>2 DEF MergeEnds, Break, runVars, historyVars
<1>13. CASE WaveSaved
  BY <1>13 DEF WaveSaved
<1>14. CASE Abort
  BY <1>14 DEF Abort, runVars, Wave
<1>15. CASE pc = "merging" /\ Abandon
  BY <1>0, <1>15 DEF Abandon, Break, runVars, historyVars, Wave
<1>16. CASE UNCHANGED vars
  BY <1>16 DEF vars, runVars, waveVars, historyVars, Wave
<1> QED
  BY <1>1, <1>2, <1>3, <1>4, <1>5, <1>6, <1>7, <1>8, <1>9, <1>10, <1>11,
     <1>12, <1>13, <1>14, <1>15, <1>16, Steps

\* An event put at the end of the queue adds its cost to what will be counted.
LEMMA PartialSumsAppend ==
    ASSUME NEW events \in Seq(Event), NEW e \in Event,
           NEW low \in Nat, NEW high \in Nat,
           \E f : PartialSums(f, events, low, high)
    PROVE  \E f : PartialSums(f, Append(events, e), low, high + e.cost)
<1>1. PICK f : PartialSums(f, events, low, high)
  OBVIOUS
<1> DEFINE more == Append(events, e)
           g == [i \in 0..Len(more) |->
                    IF i <= Len(events) THEN f[i] ELSE high + e.cost]
<1>2. /\ Len(events) \in Nat /\ Len(more) = Len(events) + 1
      /\ \A i \in 1..Len(events) : more[i] = events[i]
      /\ more[Len(events) + 1] = e
      /\ e.cost \in Nat
  BY AppendProperties, LenProperties DEF Event
<1>3. g \in [0..Len(more) -> Nat] /\ g[0] = low /\ g[Len(more)] = high + e.cost
  BY <1>1, <1>2 DEF PartialSums
<1>4. ASSUME NEW i \in 1..Len(more) PROVE g[i] = g[i - 1] + more[i].cost
  <2>1. CASE i <= Len(events)
    BY <1>1, <1>2, <2>1 DEF PartialSums
  <2>2. CASE i = Len(events) + 1
    BY <1>1, <1>2, <2>2 DEF PartialSums
  <2> QED
    BY <1>2, <2>1, <2>2
<1> HIDE DEF g, more
<1>5. PartialSums(g, more, low, high + e.cost)
  BY <1>3, <1>4 DEF PartialSums
<1> QED
  BY <1>5 DEF more

\* The event at the head of the queue is counted when it is taken.
LEMMA PartialSumsTail ==
    ASSUME NEW events \in Seq(Event), events # <<>>,
           NEW low \in Nat, NEW high \in Nat,
           \E f : PartialSums(f, events, low, high)
    PROVE  \E f : PartialSums(f, Tail(events), low + Head(events).cost, high)
<1>1. PICK f : PartialSums(f, events, low, high)
  OBVIOUS
<1> DEFINE rest == Tail(events)
           g == [i \in 0..Len(rest) |-> f[i + 1]]
<1>2. /\ Len(events) \in Nat /\ Len(events) # 0 /\ Len(rest) = Len(events) - 1
      /\ \A i \in 1..Len(rest) : rest[i] = events[i + 1]
      /\ Head(events) = events[1]
  BY HeadTailProperties, LenProperties, EmptySeq
<1>3. g \in [0..Len(rest) -> Nat] /\ g[Len(rest)] = high
      /\ g[0] = low + Head(events).cost
  BY <1>1, <1>2 DEF PartialSums
<1>4. ASSUME NEW i \in 1..Len(rest) PROVE g[i] = g[i - 1] + rest[i].cost
  <2>1. i + 1 \in 1..Len(events) /\ (i + 1) - 1 = i /\ (i - 1) + 1 = i
        /\ i - 1 \in 0..Len(rest) /\ i \in 0..Len(rest)
    BY <1>2
  <2>2. f[i + 1] = f[i] + events[i + 1].cost
    BY <1>1, <2>1 DEF PartialSums
  <2> QED
    BY <1>2, <2>1, <2>2
<1> HIDE DEF g, rest
<1>5. PartialSums(g, rest, low + Head(events).cost, high)
  BY <1>3, <1>4 DEF PartialSums
<1> QED
  BY <1>5 DEF rest

\* Every step keeps the books: what ended agents cost has been counted or is in
\* the queue.
LEMMA NextLedger ==
    ASSUME IInv, [Next]_vars
    PROVE  Ledger'
<1> USE DEF IInv, Ledger
<1>0. /\ queue \in Seq(Event) /\ cost \in Nat /\ charged \in Nat
      /\ "circuit-break" # None /\ "abandoned" # None /\ Budget \in Nat
  BY SwarmAssumption DEF TypeOK, Event, Endings
<1>1. CASE Over
  BY <1>1 DEF Over, Ends
<1>2. CASE Launch
  BY <1>0, <1>2 DEF Launch
<1>3. CASE Valid
  BY <1>3 DEF Valid, historyVars
<1>4. CASE WaveStart
  BY <1>4 DEF WaveStart, historyVars
<1>5. CASE AgentsStart
  <2>1. /\ charged' = cost' /\ cost' = cost /\ cost <= Budget
        /\ queue' = <<>> /\ pc' = "merging"
    BY <1>5 DEF AgentsStart
  <2>2. PartialSums([i \in 0..0 |-> cost], <<>>, cost, cost)
    BY <1>0, EmptySeq DEF PartialSums
  <2> QED
    BY <2>1, <2>2
<1>6. ASSUME NEW a \in Agents, NEW k \in Keys, Write(a, k) PROVE Ledger'
  BY <1>6 DEF Write, historyVars
<1>7. ASSUME NEW a \in Agents, NEW usd \in Costs, AgentEnds(a, usd)
      PROVE  Ledger'
  <2> DEFINE e == [type |-> "agent-done", cost |-> usd]
  <2>1. e \in Event /\ e.cost = usd
    BY SwarmAssumption DEF Event
  <2>2. pc = "merging" /\ ~cancelled /\ queue' = Append(queue, e)
        /\ charged' = charged + usd /\ UNCHANGED <<pc, cost, cancelled>>
    BY <1>7 DEF AgentEnds, Enqueue, Control, InWave
  <2>3. \E f : PartialSums(f, queue', cost, charged + e.cost)
    BY <1>0, <2>1, <2>2, PartialSumsAppend
  <2> QED
    BY <2>1, <2>2, <2>3
<1>8. ASSUME NEW a \in Agents, AgentThrows(a) PROVE Ledger'
  <2> DEFINE e == [type |-> "circuit-break", cost |-> 0]
  <2>1. e \in Event /\ e.cost = 0
    BY DEF Event
  <2>2. pc = "merging" /\ ~cancelled /\ queue' = Append(queue, e)
        /\ UNCHANGED <<pc, cost, charged, cancelled>>
    BY <1>8 DEF AgentThrows, Enqueue, Control, InWave, historyVars
  <2>3. \E f : PartialSums(f, queue', cost, charged + e.cost)
    BY <1>0, <2>1, <2>2, PartialSumsAppend
  <2> QED
    BY <1>0, <2>1, <2>2, <2>3
<1>9. ASSUME NEW a \in Agents, AgentClosed(a) PROVE Ledger'
  BY <1>9 DEF AgentClosed, historyVars
<1>10. CASE AgentDone
  <2>1. /\ pc = "merging" /\ ~cancelled /\ queue # <<>>
        /\ queue' = Tail(queue) /\ cost' = cost + Head(queue).cost
        /\ charged' = charged
    BY <1>10 DEF AgentDone, Taken, historyVars
  <2>2. CASE OverBudget(cost')
    BY <1>0, <1>10, <2>2 DEF AgentDone, Break
  <2>3. CASE ~OverBudget(cost')
    <3>1. pc' = "merging" /\ cancelled' = cancelled
      BY <1>10, <2>1, <2>3 DEF AgentDone
    <3>2. cost' \in Nat /\ cost' <= Budget
      <4>1. Head(queue).cost \in Nat
        <5>1. Head(queue) \in Event
          BY <1>0, <2>1, HeadTailProperties
        <5> QED
          BY <5>1 DEF Event
      <4> QED
        BY <1>0, <2>1, <2>3, <4>1 DEF OverBudget
    <3>3. \E f : PartialSums(f, queue', cost', charged)
      BY <1>0, <2>1, PartialSumsTail
    <3> QED
      BY <2>1, <3>1, <3>2, <3>3
  <2> QED
    BY <2>2, <2>3
<1>11. CASE CircuitBreak
  BY <1>0, <1>11 DEF CircuitBreak, Taken, Break
<1>12. CASE MergeEnds
  <2>1. ASSUME ~aborted PROVE charged = cost
    <3>1. queue = <<>> /\ ~cancelled
      BY <1>12, <2>1 DEF MergeEnds, MergeOver, Control
    <3>2. PICK f : PartialSums(f, queue, cost, charged)
      BY <1>12, <3>1 DEF MergeEnds
    <3> QED
      BY <3>1, <3>2, EmptySeq DEF PartialSums
  <2> QED
    BY <1>12, <2>1 DEF MergeEnds, Break, historyVars
<1>13. CASE WaveSaved
  BY <1>13 DEF WaveSaved, historyVars
<1>14. CASE Abort
  BY <1>14 DEF Abort
<1>15. CASE pc = "merging" /\ Abandon
  BY <1>0, <1>15 DEF Abandon, Break
<1>16. CASE UNCHANGED vars
  BY <1>16 DEF vars, waveVars, historyVars
<1> QED
  BY <1>1, <1>2, <1>3, <1>4, <1>5, <1>6, <1>7, <1>8, <1>9, <1>10, <1>11,
     <1>12, <1>13, <1>14, <1>15, <1>16, Steps

(***************************************************************************)
(* The theorems                                                            *)
(***************************************************************************)
\* Before the first run the invariant holds.
LEMMA InitIInv == Init => IInv
<1> SUFFICES ASSUME Init PROVE IInv
  OBVIOUS
<1>1. /\ Cardinality(Agents) \in Nat /\ Len(Layers(config)) \in Nat
      /\ <<>> \in Seq(SUBSET Agents) /\ <<>> \in Seq(Event)
  BY SwarmAssumption, FS_CardinalityType, WavesLayered, EmptySeq
<1>2. TypeOK
  <2>1. artifacts \in ArtifactMap /\ snapshot \in ArtifactMap
        /\ stores \in [Agents -> ArtifactMap]
    BY EmptyType DEF Init
  <2> QED
    <3>1. run \in 0..MaxRuns /\ endedIn \in [Agents -> 0..MaxRuns]
      BY SwarmAssumption DEF Init
    <3>2. agent \in [Agents -> {"idle", "running", "ended", "closed"}]
      BY DEF Init
    <3>3. waves \in Seq(SUBSET Agents) /\ queue \in Seq(Event)
          /\ wave \in 0..Cardinality(Agents)
      BY <1>1 DEF Init
    <3> QED
      BY <2>1, <3>1, <3>2, <3>3 DEF Init, TypeOK, Event
<1>3. Control
  BY <1>1 DEF Init, Control, InWave, Started
<1>4. Progress /\ WaveWork /\ Ledger
  BY DEF Init, Progress, WaveWork, Ledger, InWave
<1> QED
  BY <1>2, <1>3, <1>4 DEF IInv

\* The inductive invariant holds in every state of every behaviour.
THEOREM Invariance == Spec => []IInv
<1>1. IInv /\ [Next]_vars => IInv'
  BY NextTypeOK, NextControl, NextProgress, NextWaveWork, NextLedger DEF IInv
<1> QED
  BY InitIInv, <1>1, PTL DEF Spec

\* Every variable keeps its type.
THEOREM TypeCorrect == Spec => []TypeOK
BY Invariance, PTL DEF IInv

\* The checkpoint counts only waves whose agents came to their end, in this run
\* or in one it resumed, and holds only what they wrote.
THEOREM SavedFinished == Spec => []SavedWavesFinished
<1>1. IInv => SavedWavesFinished
  BY DEF IInv, Progress, Finishes, SavedWavesFinished, Before, Earlier, Layers
<1> QED
  BY Invariance, <1>1, PTL

\* An agent at work belongs to the wave in progress, and its dependencies to
\* waves that are finished.
LEMMA RunningInWave ==
    ASSUME IInv, NEW a \in Running
    PROVE  /\ InWave /\ a \in Wave
           /\ config.deps[a] \subseteq Earlier(config, wave)
           /\ Finishes(config, wave, artifacts, endedIn, cutShort)
<1>1. InWave /\ a \in Wave
  BY DEF IInv, Control, Running
<1>2. config.deps[a] \subseteq Earlier(config, wave)
  BY <1>1, WaveInProgress, NextWave DEF IInv
<1> QED
  BY <1>1, <1>2 DEF IInv, Progress, InWave

\* dependsOn: no agent runs before its dependencies came to their end.
THEOREM DependenciesDone == Spec => []DependenciesFirst
<1>1. IInv => DependenciesFirst
  BY RunningInWave DEF DependenciesFirst, Finishes
<1> QED
  BY Invariance, <1>1, PTL

\* requiredArtifacts: an agent can read all its dependencies had to produce.
THEOREM ContractsKept == Spec => []ContractsHold
<1>1. IInv => ContractsHold
  BY RunningInWave DEF ContractsHold, Finishes, IInv, Control
<1> QED
  BY Invariance, <1>1, PTL

\* The hard cost cap: no wave is announced once the budget is exceeded.
THEOREM BudgetKept == Spec => []BudgetStopsSwarm
<1>1. IInv => BudgetStopsSwarm
  BY DEF IInv, Ledger, BudgetStopsSwarm
<1> QED
  BY Invariance, <1>1, PTL

\* No agent is left at work when its wave is merged or given up, unless the
\* process crashed.
THEOREM AgentsClosed == Spec => NobodyLeftBehind
<1> DEFINE Leaves(a) == agent[a] = "running" /\ agent'[a] # "running" =>
                            \/ agent'[a] \in {"ended", "closed"}
                            \/ outcome' = "crashed"
<1>1. ASSUME IInv, [Next]_vars PROVE [\A a \in Agents : Leaves(a)]_vars
  <2> SUFFICES ASSUME NEW a \in Agents, agent[a] = "running", agent'[a] # "running"
               PROVE  agent'[a] \in {"ended", "closed"} \/ outcome' = "crashed"
    OBVIOUS
  <2>1. a \in Running /\ InWave
    BY <1>1 DEF Running, IInv, Control
  <2>2. CASE Over
    BY <2>1, <2>2 DEF Over, Ends
  <2>3. CASE UNCHANGED agent
    BY <2>3
  <2>4. CASE \E b \in Agents : \/ AgentThrows(b) \/ AgentClosed(b)
                               \/ \E usd \in Costs : AgentEnds(b, usd)
    BY <1>1, <2>4 DEF AgentThrows, StateAfterThrow, AgentClosed, AgentEnds,
                      IInv, TypeOK
  <2>5. CASE WaveSaved
    BY <2>1, <2>5 DEF WaveSaved, Closed
  <2>6. ~Launch /\ ~Valid /\ ~WaveStart /\ ~AgentsStart
    BY <2>1 DEF InWave, Launch, Valid, WaveStart, AgentsStart
  <2>7. ASSUME \/ \E b \in Agents, k \in Keys : Write(b, k)
               \/ AgentDone \/ CircuitBreak \/ MergeEnds \/ Abort
               \/ pc = "merging" /\ Abandon
               \/ UNCHANGED vars
        PROVE  UNCHANGED agent
    BY <2>7 DEF Write, AgentDone, CircuitBreak, MergeEnds, Abort, Abandon,
                vars, waveVars
  <2> QED
    BY <1>1, <2>2, <2>3, <2>4, <2>5, <2>6, <2>7, Steps DEF IInv
<1> QED
  BY Invariance, <1>1, PTL DEF Spec, NobodyLeftBehind
=============================================================================

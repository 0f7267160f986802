-------------------------- MODULE FiniteInduction --------------------------
(***************************************************************************)
(* Induction and definition by recursion over the natural numbers, with a  *)
(* set in place of the predicate and a function in place of the operator,  *)
(* so that they can be cited for any instance.                             *)
(***************************************************************************)
EXTENDS Naturals, FiniteSets, FiniteSetTheorems, WellFoundedInduction, TLAPS

\* A set of natural numbers that is not empty has a smallest one.
LEMMA SmallestMember ==
    ASSUME NEW T \in SUBSET Nat, T # {}
    PROVE  \E n \in T : \A m \in T : n <= m
<1> DEFINE Initial == {1..n : n \in T}
           R == StrictSubsetOrdering(Nat)
<1>1. Initial \subseteq FiniteSubsetsOf(Nat) /\ Initial # {}
  <2>1. \A n \in T : 1..n \in SUBSET Nat /\ IsFiniteSet(1..n)
    BY FS_Interval
  <2> QED
    BY <2>1 DEF FiniteSubsetsOf
<1>2. PICK s \in Initial : \A y \in Initial : <<y, s>> \notin R
  <2>1. IsWellFoundedOn(R, FiniteSubsetsOf(Nat))
    BY FS_StrictSubsetOrderingWellFounded
  <2> HIDE DEF R, Initial
  <2> QED
    BY <1>1, <2>1, WFMin
<1>3. PICK n \in T : s = 1..n
  OBVIOUS
<1>4. ASSUME NEW m \in T PROVE n <= m
  <2>1. SUFFICES ASSUME m < n PROVE FALSE
    OBVIOUS
  <2>2. 1..m \in Initial /\ 1..m \subseteq 1..n /\ 1..m # 1..n
    <3>1. n \in 1..n /\ n \notin 1..m
      BY <2>1
    <3> QED
      BY <2>1, <3>1
  <2>3. <<1..m, 1..n>> \in R
    BY <2>2 DEF StrictSubsetOrdering
  <2> HIDE DEF Initial, R
  <2> QED
    BY <1>2, <1>3, <2>2, <2>3
<1> QED
  BY <1>4

\* What holds at zero, and after each number for which it holds, holds always.
LEMMA NaturalInduction ==
    ASSUME NEW S \in SUBSET Nat, 0 \in S, \A n \in S : n + 1 \in S
    PROVE  S = Nat
<1>1. SUFFICES ASSUME Nat \ S # {} PROVE FALSE
  OBVIOUS
<1>2. PICK n \in Nat \ S : \A m \in Nat \ S : n <= m
  BY <1>1, SmallestMember
<1>3. n # 0 /\ n - 1 \in Nat /\ n - 1 \in S
  BY <1>2
<1> QED
  BY <1>2, <1>3

\* What f computes: it starts at a, and each step makes one value of the last.
Iterates(f, N, A, a, step) ==
    /\ f \in [0..N -> A] /\ f[0] = a
    /\ \A i \in 1..N : f[i] = step[<<i, f[i - 1]>>]

\* There is such a function, for any number of steps.
LEMMA IterationExists ==
    ASSUME NEW A, NEW a \in A, NEW step, NEW N \in Nat,
           step \in [(1..N) \X A -> A]
    PROVE  \E f : Iterates(f, N, A, a, step)
<1> DEFINE S == {n \in Nat : n <= N => \E f : Iterates(f, n, A, a, step)}
<1>1. 0 \in S
  <2>1. Iterates([i \in 0..0 |-> a], 0, A, a, step)
    BY DEF Iterates
  <2> QED
    BY <2>1
<1>2. ASSUME NEW n \in S PROVE n + 1 \in S
  <2>1. SUFFICES ASSUME n + 1 <= N
                 PROVE  \E f : Iterates(f, n + 1, A, a, step)
    OBVIOUS
  <2>2. PICK g : Iterates(g, n, A, a, step)
    BY <2>1
  <2> DEFINE last == step[<<n + 1, g[n]>>]
             f == [i \in 0..(n + 1) |-> IF i = n + 1 THEN last ELSE g[i]]
  <2>3. g[n] \in A /\ <<n + 1, g[n]>> \in (1..N) \X A
    BY <2>1, <2>2 DEF Iterates
  <2>4. last \in A
    BY <2>3
  <2> HIDE DEF last
  <2>5. f \in [0..(n + 1) -> A] /\ f[0] = a /\ f[n] = g[n]
        /\ f[n + 1] = last
    BY <2>2, <2>4 DEF Iterates
  <2>6. ASSUME NEW i \in 1..(n + 1) PROVE f[i] = step[<<i, f[i - 1]>>]
    <3>1. CASE i = n + 1
      <4>1. i - 1 = n
        BY <3>1
      <4> HIDE DEF f
      <4> QED
        BY <2>5, <3>1, <4>1 DEF last
    <3>2. CASE i # n + 1
      <4>1. i \in 1..n /\ i - 1 \in 0..n /\ i - 1 # n + 1
        BY <3>2
      <4>2. f[i] = g[i] /\ f[i - 1] = g[i - 1]
        BY <3>2, <4>1
      <4> HIDE DEF f
      <4> QED
        BY <2>2, <4>1, <4>2 DEF Iterates
    <3> QED
      BY <3>1, <3>2
  <2> HIDE DEF f
  <2> QED
    BY <2>5, <2>6 DEF Iterates
<1>3. S = Nat
  <2> HIDE DEF S
  <2>1. S \in SUBSET Nat
    BY DEF S
  <2> QED
    BY <1>1, <1>2, <2>1, NaturalInduction
<1> QED
  BY <1>3

\* A function that makes each value of the last one by such a step is one.
LEMMA IterationTyped ==
    ASSUME NEW A, NEW a \in A, NEW step, NEW N \in Nat,
           step \in [(1..N) \X A -> A],
           NEW f, f = [i \in 0..N |-> f[i]], f[0] = a,
           \A i \in 1..N : f[i - 1] \in A => f[i] = step[<<i, f[i - 1]>>]
    PROVE  Iterates(f, N, A, a, step)
<1> DEFINE S == {n \in Nat : n <= N => f[n] \in A}
<1>1. 0 \in S
  OBVIOUS
<1>2. ASSUME NEW n \in S PROVE n + 1 \in S
  <2>1. SUFFICES ASSUME n + 1 <= N PROVE f[n + 1] \in A
    OBVIOUS
  <2>2. n + 1 \in 1..N /\ (n + 1) - 1 = n /\ f[n] \in A
    BY <2>1
  <2>3. f[n + 1] = step[<<n + 1, f[n]>>] /\ <<n + 1, f[n]>> \in (1..N) \X A
    BY <2>2
  <2> QED
    BY <2>3
<1>3. S = Nat
  <2> HIDE DEF S
  <2>1. S \in SUBSET Nat
    BY DEF S
  <2> QED
    BY <1>1, <1>2, <2>1, NaturalInduction
<1>4. ASSUME NEW i \in 0..N PROVE f[i] \in A
  <2>1. i \in Nat /\ i <= N
    OBVIOUS
  <2>2. i \in S
    BY <1>3, <2>1
  <2> QED
    BY <2>1, <2>2
<1>5. f \in [0..N -> A]
  BY <1>4
<1>6. ASSUME NEW i \in 1..N PROVE f[i] = step[<<i, f[i - 1]>>]
  BY <1>4, i - 1 \in 0..N
<1> QED
  BY <1>5, <1>6 DEF Iterates

\* Two step functions make the same of every value, up to step M.
StepsAgree(s, t, M, A) == \A i \in 1..M, x \in A : s[<<i, x>>] = t[<<i, x>>]

\* Iterations of steps that agree agree, as far as the shorter goes.
LEMMA IterationsAgree ==
    ASSUME NEW A, NEW a, NEW M \in Nat, NEW N \in Nat, M <= N,
           NEW f, NEW s, NEW g, NEW t,
           Iterates(f, M, A, a, s), Iterates(g, N, A, a, t),
           StepsAgree(s, t, M, A)
    PROVE  \A i \in 0..M : f[i] = g[i]
<1> DEFINE S == {n \in Nat : n <= M => f[n] = g[n]}
<1>1. 0 \in S
  BY DEF Iterates
<1>2. ASSUME NEW n \in S PROVE n + 1 \in S
  <2>1. SUFFICES ASSUME n + 1 <= M PROVE f[n + 1] = g[n + 1]
    OBVIOUS
  <2>2. /\ n + 1 \in 1..M /\ n + 1 \in 1..N /\ (n + 1) - 1 = n
        /\ n \in 0..M /\ f[n] = g[n]
    BY <2>1
  <2>3. f[n + 1] = s[<<n + 1, f[n]>>] /\ f[n] \in A
    BY <2>2 DEF Iterates
  <2>4. g[n + 1] = t[<<n + 1, g[n]>>]
    BY <2>2 DEF Iterates
  <2> QED
    BY <2>2, <2>3, <2>4 DEF StepsAgree
<1>3. S = Nat
  <2> HIDE DEF S
  <2>1. S \in SUBSET Nat
    BY DEF S
  <2> QED
    BY <1>1, <1>2, <2>1, NaturalInduction
<1> QED
  BY <1>3

\* An iteration whose steps change nothing after M has its last value at M.
LEMMA IterationRests ==
    ASSUME NEW A, NEW a, NEW M \in Nat, NEW N \in Nat, M <= N,
           NEW f, NEW s, Iterates(f, N, A, a, s),
           \A i \in (M + 1)..N, x \in A : s[<<i, x>>] = x
    PROVE  f[N] = f[M]
<1> DEFINE S == {n \in Nat : M + n <= N => f[M + n] = f[M]}
<1>1. 0 \in S
  OBVIOUS
<1>2. ASSUME NEW n \in S PROVE n + 1 \in S
  <2>1. SUFFICES ASSUME M + (n + 1) <= N PROVE f[M + (n + 1)] = f[M]
    OBVIOUS
  <2> DEFINE m == M + n
  <2>2. /\ m + 1 \in 1..N /\ m + 1 \in (M + 1)..N /\ (m + 1) - 1 = m
        /\ m \in 0..N /\ f[m] = f[M] /\ M + (n + 1) = m + 1
    BY <2>1
  <2> HIDE DEF m
  <2>3. f[m + 1] = s[<<m + 1, f[m]>>] /\ f[m] \in A
    BY <2>2 DEF Iterates
  <2>4. f[m + 1] = f[m]
    BY <2>2, <2>3
  <2> QED
    BY <2>2, <2>4
<1>3. S = Nat
  <2> HIDE DEF S
  <2>1. S \in SUBSET Nat
    BY DEF S
  <2> QED
    BY <1>1, <1>2, <2>1, NaturalInduction
<1>4. N - M \in Nat /\ M + (N - M) = N
  OBVIOUS
<1>5. N - M \in S
  <2> HIDE DEF S
  <2> QED
    BY <1>3, <1>4
<1> QED
  BY <1>4, <1>5
=============================================================================

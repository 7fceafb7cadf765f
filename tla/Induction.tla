------------------------------ MODULE Induction ------------------------------
(* Induction over natural numbers and finite sets, stated for sets: the      *)
(* library states it for predicates, which the provers at hand cannot        *)
(* instantiate.  The set can be {n \in Nat : P(n)}, and the step of a        *)
(* recursive definition a function.  Then sums over finite sets.             *)
EXTENDS Integers, FiniteSets, Functions, FiniteSetTheorems, WellFoundedInduction, TLAPS

LEMMA Least ==
  ASSUME NEW A \in SUBSET Nat, A # {}
  PROVE  \E m \in A : \A n \in A : m <= n
  <1> DEFINE R == OpToRel(<, Nat)
  <1>1. PICK m \in A : \A n \in A : <<n, m>> \notin R
    <2>1. IsWellFoundedOn(R, Nat)
      BY NatLessThanWellFounded
    <2> HIDE DEF R
    <2>2. QED
      BY <2>1, WFMin
  <1>2. \A n \in A : ~(n < m)
    BY <1>1 DEF OpToRel
  <1> HIDE DEF R
  <1>3. QED
    BY <1>2

LEMMA SetInduction ==
  ASSUME NEW A \in SUBSET Nat, 0 \in A, \A n \in A : n + 1 \in A
  PROVE  A = Nat
  <1> SUFFICES ASSUME Nat \ A # {} PROVE FALSE
    OBVIOUS
  <1>1. PICK m \in Nat \ A : \A n \in Nat \ A : m <= n
    <2> DEFINE B == Nat \ A
    <2>1. B \in SUBSET Nat /\ B # {}
      OBVIOUS
    <2> HIDE DEF B
    <2>2. \E m \in B : \A n \in B : m <= n
      BY <2>1, Least
    <2>3. QED
      BY <2>2 DEF B
  <1>2. m - 1 \in Nat /\ m - 1 \in A
    BY <1>1
  <1>3. QED
    BY <1>1, <1>2

(* Induction up to a bound.                                                  *)
LEMMA BoundedInduction ==
  ASSUME NEW N \in Nat, NEW A, 0 \in A, \A n \in 0 .. N - 1 : n \in A => n + 1 \in A
  PROVE  0 .. N \subseteq A
  <1> DEFINE B == {n \in Nat : n <= N => n \in A}
  <1>1. 0 \in B
    OBVIOUS
  <1>2. ASSUME NEW n \in B PROVE n + 1 \in B
    OBVIOUS
  <1>3. B \in SUBSET Nat
    OBVIOUS
  <1>4. B = Nat
    <2> HIDE DEF B
    <2>1. QED
      BY <1>1, <1>2, <1>3, SetInduction
  <1>5. QED
    BY <1>4

(* A sequence of values, each computed from the one before it, exists.       *)
Steps(step, N, S) == \A n \in 1 .. N : step[n] \in [S -> S]

Run(f, N, S, first, step) ==
  /\ f \in [0 .. N -> S]
  /\ f[0] = first
  /\ \A n \in 1 .. N : f[n] = step[n][f[n - 1]]

LEMMA Recursion ==
  ASSUME NEW N \in Nat, NEW S, NEW first \in S, NEW step, Steps(step, N, S)
  PROVE  \E f : Run(f, N, S, first, step)
  <1> DEFINE Good(m, f) == f[0] = first /\ \A n \in 1 .. m : f[n] = step[n][f[n - 1]]
             A == {m \in 0 .. N : \E f \in [0 .. m -> S] : Good(m, f)}
  <1>1. 0 \in A
    <2> DEFINE f == [n \in 0 .. 0 |-> first]
    <2>1. f \in [0 .. 0 -> S] /\ Good(0, f)
      OBVIOUS
    <2>2. \E h \in [0 .. 0 -> S] : Good(0, h)
      <3> HIDE DEF Good, f
      <3>1. QED
        BY <2>1
    <2>3. QED
      BY <2>2
  <1>2. ASSUME NEW m \in 0 .. N - 1, m \in A PROVE m + 1 \in A
    <2>1. PICK f \in [0 .. m -> S] : Good(m, f)
      BY <1>2
    <2> DEFINE g == [n \in 0 .. m + 1 |-> IF n <= m THEN f[n] ELSE step[m + 1][f[m]]]
    <2>2. step[m + 1][f[m]] \in S
      BY DEF Steps
    <2>3. g \in [0 .. m + 1 -> S]
      BY <2>2
    <2>4. ASSUME NEW n \in 1 .. m + 1
          PROVE  g[n] = step[n][g[n - 1]]
      <3>1. CASE n = m + 1
        BY <3>1
      <3>2. CASE n # m + 1
        BY <2>1, <3>2
      <3>3. QED
        BY <3>1, <3>2
    <2>5. g[0] = first
      BY <2>1
    <2>6. Good(m + 1, g)
      <3> HIDE DEF g
      <3>1. QED
        BY <2>4, <2>5
    <2>7. \E h \in [0 .. m + 1 -> S] : Good(m + 1, h)
      <3> HIDE DEF Good, g
      <3>1. QED
        BY <2>3, <2>6
    <2>8. m + 1 \in 0 .. N
      OBVIOUS
    <2>9. QED
      BY <2>7, <2>8
  <1>3. N \in A
    <2> HIDE DEF A
    <2>1. 0 .. N \subseteq A
      BY <1>1, <1>2, BoundedInduction
    <2>2. QED
      BY <2>1
  <1>4. QED
    BY <1>3 DEF Run

LEMMA RunsAgree ==
  ASSUME NEW N \in Nat, NEW M \in Nat, N <= M, NEW S, NEW first, NEW step,
         NEW f, Run(f, N, S, first, step), NEW g, Run(g, M, S, first, step)
  PROVE  \A n \in 0 .. N : f[n] = g[n]
  <1> DEFINE A == {n \in 0 .. N : f[n] = g[n]}
  <1>1. 0 \in A
    BY DEF Run
  <1>2. ASSUME NEW n \in 0 .. N - 1, n \in A PROVE n + 1 \in A
    <2>1. n + 1 \in 1 .. N /\ n + 1 \in 1 .. M /\ (n + 1) - 1 = n
      OBVIOUS
    <2>2. f[n + 1] = step[n + 1][f[n]] /\ g[n + 1] = step[n + 1][g[n]]
      BY <2>1 DEF Run
    <2>3. QED
      BY <1>2, <2>1, <2>2
  <1>3. 0 .. N \subseteq A
    <2> HIDE DEF A
    <2>1. QED
      BY <1>1, <1>2, BoundedInduction
  <1>4. QED
    BY <1>3

EndlessRun(f, S, first, step) ==
  /\ f \in [Nat -> S]
  /\ f[0] = first
  /\ \A n \in Nat : f[n + 1] = step[n + 1][f[n]]

LEMMA EndlessRecursion ==
  ASSUME NEW S, NEW first \in S, NEW step, \A N \in Nat : Steps(step, N, S)
  PROVE  \E f : EndlessRun(f, S, first, step)
  <1> DEFINE run(N) == CHOOSE f : Run(f, N, S, first, step)
             f == [n \in Nat |-> run(n)[n]]
  <1>1. ASSUME NEW N \in Nat PROVE Run(run(N), N, S, first, step)
    BY Recursion
  <1>2. f[0] = first
    BY <1>1 DEF Run
  <1>3. ASSUME NEW n \in Nat PROVE f[n + 1] = step[n + 1][f[n]]
    <2>1. Run(run(n), n, S, first, step) /\ Run(run(n + 1), n + 1, S, first, step)
      BY <1>1
    <2> HIDE DEF run
    <2>2. run(n)[n] = run(n + 1)[n]
      <3> DEFINE g == run(n)
                 h == run(n + 1)
      <3>1. n + 1 \in Nat /\ n <= n + 1 /\ n \in 0 .. n
        OBVIOUS
      <3>2. Run(g, n, S, first, step) /\ Run(h, n + 1, S, first, step)
        BY <2>1
      <3> HIDE DEF g, h
      <3>3. \A i \in 0 .. n : g[i] = h[i]
        BY <3>1, <3>2, RunsAgree
      <3>4. g[n] = h[n]
        BY <3>1, <3>3
      <3>5. QED
        BY <3>4 DEF g, h
    <2>3. run(n + 1)[n + 1] = step[n + 1][run(n + 1)[n]]
      <3>1. n + 1 \in 1 .. n + 1 /\ (n + 1) - 1 = n
        OBVIOUS
      <3>2. QED
        BY <2>1, <3>1 DEF Run
    <2>4. QED
      BY <2>2, <2>3
  <1>4. \A n \in Nat : f[n] \in S
    <2>1. ASSUME NEW n \in Nat PROVE run(n)[n] \in S
      <3>1. Run(run(n), n, S, first, step)
        BY <1>1
      <3> HIDE DEF run
      <3>2. QED
        BY <3>1 DEF Run
    <2> HIDE DEF run
    <2>2. QED
      BY <2>1
  <1>5. f \in [Nat -> S]
    <2> HIDE DEF run
    <2>1. f = [n \in Nat |-> f[n]]
      OBVIOUS
    <2> HIDE DEF f
    <2>2. QED
      BY <1>4, <2>1
  <1> HIDE DEF f
  <1>6. QED
    BY <1>2, <1>3, <1>5 DEF EndlessRun

(***************************************************************************)
(* Finite sets and sums                                                    *)
(***************************************************************************)

LEMMA FiniteInduction ==
  ASSUME NEW S, IsFiniteSet(S), NEW A,
         \A T \in SUBSET S : (\A x \in T : T \ {x} \in A) => T \in A
  PROVE  SUBSET S \subseteq A
  <1> DEFINE B == {n \in Nat : \A T \in SUBSET S : Cardinality(T) = n => T \in A}
  <1>1. \A T \in SUBSET S : IsFiniteSet(T) /\ Cardinality(T) \in Nat
    BY FS_Subset, FS_CardinalityType
  <1>2. 0 \in B
    <2>1. ASSUME NEW T \in SUBSET S, Cardinality(T) = 0 PROVE T \in A
      <3>1. T = {}
        BY <1>1, <2>1, FS_EmptySet
      <3>2. QED
        BY <3>1
    <2>2. QED
      BY <2>1
  <1>3. ASSUME NEW n \in B PROVE n + 1 \in B
    <2>1. ASSUME NEW T \in SUBSET S, Cardinality(T) = n + 1 PROVE T \in A
      <3>1. ASSUME NEW x \in T PROVE T \ {x} \in A
        <4>1. Cardinality(T \ {x}) = n
          BY <1>1, <2>1, FS_RemoveElement
        <4>2. QED
          BY <1>3, <4>1
      <3>2. QED
        BY <3>1
    <2>2. QED
      BY <1>3, <2>1
  <1>4. B = Nat
    <2>1. B \in SUBSET Nat
      OBVIOUS
    <2> HIDE DEF B
    <2>2. QED
      BY <1>2, <1>3, <2>1, SetInduction
  <1>5. QED
    BY <1>1, <1>4

(* Of finitely many elements one has the greatest value, and one the least. *)
LEMMA Greatest ==
  ASSUME NEW f, NEW S, IsFiniteSet(S), S # {}, \A x \in S : f[x] \in Int
  PROVE  \E m \in S : \A x \in S : f[x] <= f[m]
  <1> DEFINE A == {s \in SUBSET S : s # {} => \E m \in s : \A x \in s : f[x] <= f[m]}
  <1>1. ASSUME NEW s \in SUBSET S, \A x \in s : s \ {x} \in A PROVE s \in A
    <2> SUFFICES ASSUME s # {} PROVE \E m \in s : \A x \in s : f[x] <= f[m]
      OBVIOUS
    <2>1. PICK y \in s : TRUE
      OBVIOUS
    <2>2. CASE s \ {y} = {}
      <3>1. \A x \in s : x = y
        BY <2>2
      <3>2. QED
        BY <2>1, <3>1
    <2>3. CASE s \ {y} # {}
      <3>1. PICK m \in s \ {y} : \A x \in s \ {y} : f[x] <= f[m]
        BY <1>1, <2>1, <2>3
      <3>2. CASE f[y] <= f[m]
        <4>1. \A x \in s : f[x] <= f[m]
          BY <3>1, <3>2
        <4>2. QED
          BY <4>1
      <3>3. CASE ~(f[y] <= f[m])
        <4>1. \A x \in s : f[x] <= f[y]
          <5>1. f[y] \in Int /\ f[m] \in Int
            BY <2>1, <3>1
          <5>2. ASSUME NEW x \in s PROVE f[x] <= f[y]
            <6>1. CASE x = y
              BY <5>1, <6>1
            <6>2. CASE x # y
              <7>1. f[x] <= f[m] /\ f[x] \in Int
                BY <3>1, <6>2
              <7>2. QED
                BY <3>3, <5>1, <7>1
            <6>3. QED
              BY <6>1, <6>2
          <5>3. QED
            BY <5>2
        <4>2. QED
          BY <2>1, <4>1
      <3>4. QED
        BY <3>2, <3>3
    <2>4. QED
      BY <2>2, <2>3
  <1>2. SUBSET S \subseteq A
    <2> HIDE DEF A
    <2>1. QED
      BY <1>1, FiniteInduction
  <1>3. QED
    BY <1>2

LEMMA Smallest ==
  ASSUME NEW f, NEW S, IsFiniteSet(S), S # {}, \A x \in S : f[x] \in Int
  PROVE  \E m \in S : \A x \in S : f[m] <= f[x]
  <1> PICK g : g = [x \in S |-> 0 - f[x]]
    OBVIOUS
  <1>1. \A x \in S : g[x] \in Int /\ g[x] = 0 - f[x]
    OBVIOUS
  <1>2. PICK m \in S : \A x \in S : g[x] <= g[m]
    BY <1>1, Greatest
  <1>3. QED
    BY <1>1, <1>2

Pick(s) == CHOOSE x \in s : TRUE

(* The recursion that SumFunctionOnSet stands for.                         *)
SumRec(g, f, S) ==
  [s \in SUBSET S |-> IF s = {} THEN 0 ELSE f[Pick(s)] + g[s \ {Pick(s)}]]

Summing(f, S) == CHOOSE g : g = SumRec(g, f, S)

LEMMA SumUnfolds ==
  ASSUME NEW f, NEW S
  PROVE  SumFunctionOnSet(f, S) = Summing(f, S)[S]
  BY DEF SumFunctionOnSet, FoldFunctionOnSet, MapThenFoldSet, Summing, SumRec, Pick

LEMMA SumRecExists ==
  ASSUME NEW f, NEW S, IsFiniteSet(S)
  PROVE  Summing(f, S) = SumRec(Summing(f, S), f, S)
  <1> DEFINE Upto(n) == {s \in SUBSET S : Cardinality(s) <= n}
             Good(g, n) == \A s \in Upto(n) :
                             g[s] = IF s = {} THEN 0 ELSE f[Pick(s)] + g[s \ {Pick(s)}]
             A == {n \in Nat : \E g : Good(g, n)}
  <1>1. \A s \in SUBSET S : IsFiniteSet(s) /\ Cardinality(s) \in Nat
    BY FS_Subset, FS_CardinalityType
  <1>2. ASSUME NEW s \in SUBSET S, s # {}
        PROVE  s \ {Pick(s)} \in SUBSET S /\ Cardinality(s \ {Pick(s)}) = Cardinality(s) - 1
    <2>1. Pick(s) \in s
      BY <1>2 DEF Pick
    <2>2. QED
      BY <1>1, <2>1, FS_RemoveElement
  <1>3. 0 \in A
    <2> DEFINE g == [s \in SUBSET S |-> 0]
    <2>1. \A s \in Upto(0) : s = {}
      BY <1>1, FS_EmptySet
    <2>2. Good(g, 0)
      BY <2>1
    <2>3. \E h : Good(h, 0)
      <3> HIDE DEF Good, g
      <3>1. QED
        BY <2>2
    <2>4. QED
      BY <2>3
  <1>4. ASSUME NEW n \in A PROVE n + 1 \in A
    <2>1. PICK g : Good(g, n)
      BY <1>4
    <2> DEFINE h == [s \in SUBSET S |->
                       IF Cardinality(s) <= n THEN g[s]
                       ELSE f[Pick(s)] + g[s \ {Pick(s)}]]
    <2>2. ASSUME NEW s \in Upto(n + 1)
          PROVE  h[s] = IF s = {} THEN 0 ELSE f[Pick(s)] + h[s \ {Pick(s)}]
      <3>1. CASE s = {}
        <4>1. Cardinality(s) <= n
          BY <1>4, <3>1, FS_EmptySet
        <4>2. h[s] = g[s] /\ g[s] = 0
          BY <1>4, <2>1, <3>1, <4>1
        <4>3. QED
          BY <3>1, <4>2
      <3>2. CASE s # {}
        <4> DEFINE r == s \ {Pick(s)}
        <4>1. r \in SUBSET S /\ Cardinality(r) = Cardinality(s) - 1
          BY <1>2, <3>2
        <4>2. Cardinality(r) <= n
          BY <1>1, <1>4, <4>1
        <4>3. h[r] = g[r]
          BY <4>1, <4>2
        <4>4. h[s] = f[Pick(s)] + g[r]
          BY <1>4, <2>1, <3>2
        <4>5. QED
          BY <3>2, <4>3, <4>4
      <3>3. QED
        BY <3>1, <3>2
    <2>3. \E k : Good(k, n + 1)
      <3>1. Good(h, n + 1)
        <4> HIDE DEF h
        <4>1. QED
          BY <2>2
      <3> HIDE DEF Good, h
      <3>2. QED
        BY <3>1
    <2>4. n + 1 \in Nat
      BY <1>4
    <2> HIDE DEF Good
    <2>5. QED
      BY <2>3, <2>4
  <1>5. A = Nat
    <2>1. A \in SUBSET Nat
      OBVIOUS
    <2> HIDE DEF A
    <2>2. QED
      BY <1>3, <1>4, <2>1, SetInduction
  <1>6. PICK g : Good(g, Cardinality(S))
    BY <1>1, <1>5
  <1>7. Upto(Cardinality(S)) = SUBSET S
    BY <1>1, FS_Subset
  <1> DEFINE h == [s \in SUBSET S |-> g[s]]
  <1>8. h = SumRec(h, f, S)
    <2>1. ASSUME NEW s \in SUBSET S
          PROVE  h[s] = IF s = {} THEN 0 ELSE f[Pick(s)] + h[s \ {Pick(s)}]
      <3>1. g[s] = IF s = {} THEN 0 ELSE f[Pick(s)] + g[s \ {Pick(s)}]
        BY <1>6, <1>7
      <3>2. s \ {Pick(s)} \in SUBSET S
        OBVIOUS
      <3>3. QED
        BY <3>1, <3>2
    <2>2. QED
      BY <2>1 DEF SumRec
  <1>9. \E k : k = SumRec(k, f, S)
    <2> HIDE DEF h
    <2>1. QED
      BY <1>8
  <1>10. QED
    BY <1>9 DEF Summing

LEMMA SummingStep ==
  ASSUME NEW f, NEW S, IsFiniteSet(S), NEW T \in SUBSET S
  PROVE  Summing(f, S)[T] = IF T = {} THEN 0
                            ELSE f[Pick(T)] + Summing(f, S)[T \ {Pick(T)}]
  <1> DEFINE g == Summing(f, S)
  <1>1. g = SumRec(g, f, S)
    BY SumRecExists
  <1> HIDE DEF g
  <1>2. g[T] = IF T = {} THEN 0 ELSE f[Pick(T)] + g[T \ {Pick(T)}]
    BY <1>1 DEF SumRec
  <1>3. QED
    BY <1>2 DEF g

(* The sum over a subset is the same within any set that has it.           *)
LEMMA SummingWithin ==
  ASSUME NEW f, NEW S, IsFiniteSet(S), NEW T \in SUBSET S
  PROVE  Summing(f, S)[T] = SumFunctionOnSet(f, T)
  <1> DEFINE A == {s \in SUBSET T : Summing(f, S)[s] = Summing(f, T)[s]}
  <1>1. IsFiniteSet(T)
    BY FS_Subset
  <1>2. ASSUME NEW s \in SUBSET T, \A x \in s : s \ {x} \in A PROVE s \in A
    <2>1. CASE s = {}
      BY <1>1, <2>1, SummingStep
    <2>2. CASE s # {}
      <3>1. Pick(s) \in s
        BY <2>2 DEF Pick
      <3>2. Summing(f, S)[s \ {Pick(s)}] = Summing(f, T)[s \ {Pick(s)}]
        BY <1>2, <3>1
      <3>3. s \in SUBSET S
        OBVIOUS
      <3>4. Summing(f, S)[s] = f[Pick(s)] + Summing(f, S)[s \ {Pick(s)}]
        BY <2>2, <3>3, SummingStep
      <3>5. Summing(f, T)[s] = f[Pick(s)] + Summing(f, T)[s \ {Pick(s)}]
        BY <1>1, <2>2, SummingStep
      <3>6. QED
        BY <3>2, <3>4, <3>5
    <2>3. QED
      BY <2>1, <2>2
  <1>3. T \in A
    <2> HIDE DEF A
    <2>1. SUBSET T \subseteq A
      BY <1>1, <1>2, FiniteInduction
    <2>2. QED
      BY <2>1
  <1>4. QED
    BY <1>3, SumUnfolds

LEMMA SumStep ==
  ASSUME NEW f, NEW S, IsFiniteSet(S)
  PROVE  /\ SumFunctionOnSet(f, {}) = 0
         /\ S # {} => /\ Pick(S) \in S
                      /\ SumFunctionOnSet(f, S) =
                           f[Pick(S)] + SumFunctionOnSet(f, S \ {Pick(S)})
  <1>1. SumFunctionOnSet(f, {}) = 0
    <2>1. Summing(f, S)[{}] = SumFunctionOnSet(f, {})
      BY SummingWithin
    <2>2. Summing(f, S)[{}] = 0
      BY SummingStep
    <2>3. QED
      BY <2>1, <2>2
  <1>2. ASSUME S # {}
        PROVE  SumFunctionOnSet(f, S) = f[Pick(S)] + SumFunctionOnSet(f, S \ {Pick(S)})
    <2>1. Summing(f, S)[S] = SumFunctionOnSet(f, S)
      BY SummingWithin
    <2>2. Summing(f, S)[S \ {Pick(S)}] = SumFunctionOnSet(f, S \ {Pick(S)})
      BY SummingWithin
    <2>3. Summing(f, S)[S] = f[Pick(S)] + Summing(f, S)[S \ {Pick(S)}]
      BY <1>2, SummingStep
    <2>4. QED
      BY <2>1, <2>2, <2>3
  <1>3. S # {} => Pick(S) \in S
    BY DEF Pick
  <1>4. QED
    BY <1>1, <1>2, <1>3

LEMMA SumNothing == \A f : SumFunctionOnSet(f, {}) = 0
  <1>1. IsFiniteSet({})
    BY FS_EmptySet
  <1>2. QED
    BY <1>1, SumStep

LEMMA SumInt ==
  ASSUME NEW f, NEW S, IsFiniteSet(S), \A x \in S : f[x] \in Int
  PROVE  SumFunctionOnSet(f, S) \in Int
  <1> DEFINE A == {s \in SUBSET S : SumFunctionOnSet(f, s) \in Int}
  <1>1. ASSUME NEW s \in SUBSET S, \A x \in s : s \ {x} \in A PROVE s \in A
    <2>1. IsFiniteSet(s)
      BY FS_Subset
    <2>2. CASE s = {}
      BY <2>2, SumNothing
    <2>3. CASE s # {}
      <3>1. Pick(s) \in s /\ SumFunctionOnSet(f, s) =
                               f[Pick(s)] + SumFunctionOnSet(f, s \ {Pick(s)})
        BY <2>1, <2>3, SumStep
      <3>2. SumFunctionOnSet(f, s \ {Pick(s)}) \in Int /\ f[Pick(s)] \in Int
        BY <1>1, <3>1
      <3>3. QED
        BY <3>1, <3>2
    <2>4. QED
      BY <2>2, <2>3
  <1>2. SUBSET S \subseteq A
    <2> HIDE DEF A
    <2>1. QED
      BY <1>1, FiniteInduction
  <1>3. QED
    BY <1>2

(* Any element can be taken out of a sum first.                            *)
LEMMA SumRemove ==
  ASSUME NEW f, NEW S, IsFiniteSet(S), \A x \in S : f[x] \in Int, NEW y \in S
  PROVE  SumFunctionOnSet(f, S) = f[y] + SumFunctionOnSet(f, S \ {y})
  <1> DEFINE sum(s) == SumFunctionOnSet(f, s)
             A == {s \in SUBSET S : \A x \in s : sum(s) = f[x] + sum(s \ {x})}
  <1>1. ASSUME NEW s \in SUBSET S, \A x \in s : s \ {x} \in A PROVE s \in A
    <2> SUFFICES ASSUME NEW x \in s PROVE sum(s) = f[x] + sum(s \ {x})
      OBVIOUS
    <2>1. \A t \in SUBSET S : IsFiniteSet(t) /\ sum(t) \in Int
      <3>1. ASSUME NEW t \in SUBSET S PROVE IsFiniteSet(t) /\ sum(t) \in Int
        <4>1. IsFiniteSet(t)
          BY FS_Subset
        <4>2. QED
          BY <4>1, SumInt
      <3>2. QED
        BY <3>1
    <2> DEFINE p == Pick(s)
    <2>2. p \in s /\ sum(s) = f[p] + sum(s \ {p})
      BY <2>1, SumStep
    <2> HIDE DEF p
    <2>3. CASE p = x
      BY <2>2, <2>3
    <2>4. CASE p # x
      <3>1. x \in s \ {p} /\ p \in s \ {x}
        BY <2>2, <2>4
      <3>2. (s \ {p}) \ {x} = (s \ {x}) \ {p}
        OBVIOUS
      <3>3. sum(s \ {p}) = f[x] + sum((s \ {p}) \ {x})
        BY <1>1, <2>2, <3>1
      <3>4. sum(s \ {x}) = f[p] + sum((s \ {x}) \ {p})
        BY <1>1, <3>1
      <3>5. /\ f[x] \in Int /\ f[p] \in Int
            /\ sum((s \ {x}) \ {p}) \in Int
        BY <2>1, <2>2
      <3>6. sum((s \ {p}) \ {x}) = sum((s \ {x}) \ {p})
        BY <3>2
      <3> DEFINE a == sum(s)
                 b == sum(s \ {p})
                 c == sum(s \ {x})
                 d == sum((s \ {x}) \ {p})
      <3>7. a = f[p] + b /\ b = f[x] + d /\ c = f[p] + d /\ d \in Int
        BY <2>2, <3>3, <3>4, <3>5, <3>6
      <3> HIDE DEF a, b, c, d
      <3>8. a = f[x] + c
        BY <3>5, <3>7
      <3>9. QED
        BY <3>8 DEF a, c
    <2>5. QED
      BY <2>3, <2>4
  <1>2. SUBSET S \subseteq A
    <2> HIDE DEF A
    <2>1. QED
      BY <1>1, FiniteInduction
  <1>3. QED
    BY <1>2

LEMMA SumAdd ==
  ASSUME NEW f, NEW S, IsFiniteSet(S), NEW y, y \notin S,
         \A x \in S \cup {y} : f[x] \in Int
  PROVE  SumFunctionOnSet(f, S \cup {y}) = f[y] + SumFunctionOnSet(f, S)
  <1>1. IsFiniteSet(S \cup {y})
    BY FS_AddElement
  <1>2. (S \cup {y}) \ {y} = S /\ y \in S \cup {y}
    OBVIOUS
  <1>3. SumFunctionOnSet(f, S \cup {y}) = f[y] + SumFunctionOnSet(f, (S \cup {y}) \ {y})
    BY <1>1, <1>2, SumRemove
  <1>4. QED
    BY <1>2, <1>3

LEMMA SumEqual ==
  ASSUME NEW f, NEW g, NEW S, IsFiniteSet(S), \A x \in S : f[x] = g[x]
  PROVE  SumFunctionOnSet(f, S) = SumFunctionOnSet(g, S)
  <1> DEFINE A == {s \in SUBSET S : SumFunctionOnSet(f, s) = SumFunctionOnSet(g, s)}
  <1>1. ASSUME NEW s \in SUBSET S, \A x \in s : s \ {x} \in A PROVE s \in A
    <2>1. IsFiniteSet(s)
      BY FS_Subset
    <2>2. CASE s = {}
      BY <2>2, SumNothing
    <2>3. CASE s # {}
      <3>1. /\ Pick(s) \in s
            /\ SumFunctionOnSet(f, s) = f[Pick(s)] + SumFunctionOnSet(f, s \ {Pick(s)})
            /\ SumFunctionOnSet(g, s) = g[Pick(s)] + SumFunctionOnSet(g, s \ {Pick(s)})
        BY <2>1, <2>3, SumStep
      <3>2. SumFunctionOnSet(f, s \ {Pick(s)}) = SumFunctionOnSet(g, s \ {Pick(s)})
        BY <1>1, <3>1
      <3>3. QED
        BY <3>1, <3>2
    <2>4. QED
      BY <2>2, <2>3
  <1>2. SUBSET S \subseteq A
    <2> HIDE DEF A
    <2>1. QED
      BY <1>1, FiniteInduction
  <1>3. QED
    BY <1>2

(* h is the sum of f and g, place by place.                                *)
Adds(f, g, h, S) ==
  \A x \in S : f[x] \in Int /\ g[x] \in Int /\ h[x] = f[x] + g[x]

LEMMA SumPlus ==
  ASSUME NEW f, NEW g, NEW h, NEW S, IsFiniteSet(S), Adds(f, g, h, S)
  PROVE  SumFunctionOnSet(h, S) = SumFunctionOnSet(f, S) + SumFunctionOnSet(g, S)
  <1> DEFINE A == {s \in SUBSET S :
                     /\ SumFunctionOnSet(f, s) \in Int /\ SumFunctionOnSet(g, s) \in Int
                     /\ SumFunctionOnSet(h, s) =
                          SumFunctionOnSet(f, s) + SumFunctionOnSet(g, s)}
  <1>1. ASSUME NEW s \in SUBSET S, \A x \in s : s \ {x} \in A PROVE s \in A
    <2>1. IsFiniteSet(s)
      BY FS_Subset
    <2>2. CASE s = {}
      BY <2>2, SumNothing
    <2>3. CASE s # {}
      <3> DEFINE p == Pick(s)
                 r == s \ {p}
      <3>1. /\ p \in s
            /\ SumFunctionOnSet(f, s) = f[p] + SumFunctionOnSet(f, r)
            /\ SumFunctionOnSet(g, s) = g[p] + SumFunctionOnSet(g, r)
            /\ SumFunctionOnSet(h, s) = h[p] + SumFunctionOnSet(h, r)
        BY <2>1, <2>3, SumStep
      <3>2. r \in A
        BY <1>1, <3>1
      <3>3. f[p] \in Int /\ g[p] \in Int /\ h[p] = f[p] + g[p]
        BY <3>1 DEF Adds
      <3> HIDE DEF p, r
      <3>4. QED
        BY <3>1, <3>2, <3>3
    <2>4. QED
      BY <2>2, <2>3
  <1>2. SUBSET S \subseteq A
    <2> HIDE DEF A
    <2>1. QED
      BY <1>1, FiniteInduction
  <1>3. QED
    BY <1>2

LEMMA SumMonotone ==
  ASSUME NEW f, NEW g, NEW S, IsFiniteSet(S),
         \A x \in S : f[x] \in Int /\ g[x] \in Int /\ f[x] <= g[x]
  PROVE  SumFunctionOnSet(f, S) <= SumFunctionOnSet(g, S)
  <1> DEFINE A == {s \in SUBSET S :
                     /\ SumFunctionOnSet(f, s) \in Int /\ SumFunctionOnSet(g, s) \in Int
                     /\ SumFunctionOnSet(f, s) <= SumFunctionOnSet(g, s)}
  <1>1. ASSUME NEW s \in SUBSET S, \A x \in s : s \ {x} \in A PROVE s \in A
    <2>1. IsFiniteSet(s)
      BY FS_Subset
    <2>2. CASE s = {}
      BY <2>2, SumNothing
    <2>3. CASE s # {}
      <3> DEFINE p == Pick(s)
                 r == s \ {p}
      <3>1. /\ p \in s
            /\ SumFunctionOnSet(f, s) = f[p] + SumFunctionOnSet(f, r)
            /\ SumFunctionOnSet(g, s) = g[p] + SumFunctionOnSet(g, r)
        BY <2>1, <2>3, SumStep
      <3>2. r \in A
        BY <1>1, <3>1
      <3>3. f[p] \in Int /\ g[p] \in Int /\ f[p] <= g[p]
        BY <3>1
      <3> HIDE DEF p, r
      <3>4. QED
        BY <3>1, <3>2, <3>3
    <2>4. QED
      BY <2>2, <2>3
  <1>2. SUBSET S \subseteq A
    <2> HIDE DEF A
    <2>1. QED
      BY <1>1, FiniteInduction
  <1>3. QED
    BY <1>2

LEMMA SumConstant ==
  ASSUME NEW f, NEW S, IsFiniteSet(S), NEW c \in Int, \A x \in S : f[x] = c
  PROVE  SumFunctionOnSet(f, S) = Cardinality(S) * c
  <1> DEFINE A == {s \in SUBSET S : SumFunctionOnSet(f, s) = Cardinality(s) * c}
  <1>1. ASSUME NEW s \in SUBSET S, \A x \in s : s \ {x} \in A PROVE s \in A
    <2>1. IsFiniteSet(s)
      BY FS_Subset
    <2>2. CASE s = {}
      BY <2>2, SumNothing, FS_EmptySet
    <2>3. CASE s # {}
      <3>1. Pick(s) \in s /\ SumFunctionOnSet(f, s) =
                               f[Pick(s)] + SumFunctionOnSet(f, s \ {Pick(s)})
        BY <2>1, <2>3, SumStep
      <3> PICK r : r = s \ {Pick(s)}
        OBVIOUS
      <3>2. SumFunctionOnSet(f, r) = Cardinality(r) * c /\ f[Pick(s)] = c
        BY <1>1, <3>1
      <3>3. Cardinality(r) \in Nat /\ Cardinality(s) = Cardinality(r) + 1
        <4>1. IsFiniteSet(r) /\ Cardinality(r) = Cardinality(s) - 1
          BY <2>1, <3>1, FS_RemoveElement
        <4>2. QED
          BY <2>1, <4>1, FS_CardinalityType
      <3>4. \A k \in Nat : c + k * c = (k + 1) * c
        OBVIOUS
      <3>5. QED
        BY <3>1, <3>2, <3>3, <3>4
    <2>4. QED
      BY <2>2, <2>3
  <1>2. SUBSET S \subseteq A
    <2> HIDE DEF A
    <2>1. QED
      BY <1>1, FiniteInduction
  <1>3. QED
    BY <1>2

(* g differs from f at y alone.                                            *)
DifferAt(y, f, g, S) ==
  /\ \A x \in S : f[x] \in Int /\ g[x] \in Int
  /\ \A x \in S \ {y} : g[x] = f[x]

(* Changing one term changes the sum by as much.                           *)
LEMMA SumChange ==
  ASSUME NEW f, NEW g, NEW S, IsFiniteSet(S), NEW y \in S, DifferAt(y, f, g, S)
  PROVE  SumFunctionOnSet(g, S) = SumFunctionOnSet(f, S) - f[y] + g[y]
  <1> USE DEF DifferAt
  <1>1. IsFiniteSet(S \ {y})
    BY FS_RemoveElement
  <1>2. SumFunctionOnSet(f, S) = f[y] + SumFunctionOnSet(f, S \ {y})
    BY SumRemove
  <1>3. SumFunctionOnSet(g, S) = g[y] + SumFunctionOnSet(g, S \ {y})
    BY SumRemove
  <1>4. SumFunctionOnSet(f, S \ {y}) = SumFunctionOnSet(g, S \ {y})
    BY <1>1, SumEqual
  <1>5. SumFunctionOnSet(f, S \ {y}) \in Int
    BY <1>1, SumInt
  <1>6. QED
    BY <1>2, <1>3, <1>4, <1>5

(* Where all but one element count nothing, the sum is that element.       *)
LEMMA SumOnly ==
  ASSUME NEW f, NEW S, IsFiniteSet(S), NEW y \in S, f[y] \in Int,
         \A x \in S \ {y} : f[x] = 0
  PROVE  SumFunctionOnSet(f, S) = f[y]
  <1> DEFINE R == S \ {y}
  <1>1. IsFiniteSet(R) /\ \A x \in S : f[x] \in Int
    BY FS_RemoveElement
  <1>2. SumFunctionOnSet(f, S) = f[y] + SumFunctionOnSet(f, R)
    BY <1>1, SumRemove
  <1>3. Adds(f, f, f, R) /\ \A x \in R : f[x] \in Int
    BY DEF Adds
  <1> HIDE DEF R
  <1>4. SumFunctionOnSet(f, R) = SumFunctionOnSet(f, R) + SumFunctionOnSet(f, R)
    BY <1>1, <1>3, SumPlus
  <1>5. SumFunctionOnSet(f, R) \in Int
    BY <1>1, <1>3, SumInt
  <1>6. \A a \in Int : a = a + a => a = 0
    OBVIOUS
  <1>7. SumFunctionOnSet(f, R) = 0
    BY <1>4, <1>5, <1>6
  <1>8. \A a \in Int : a + 0 = a
    OBVIOUS
  <1>9. QED
    BY <1>2, <1>7, <1>8

(* The places of f that h sends to j, and those it sends into J.           *)
Part(f, h, S, j) == [x \in S |-> IF h[x] = j THEN f[x] ELSE 0]
Within(f, h, S, J) == [x \in S |-> IF h[x] \in J THEN f[x] ELSE 0]
Parts(f, h, S, J) == [j \in J |-> SumFunctionOnSet(Part(f, h, S, j), S)]

(* The sums of the parts make up the sum.                                  *)
LEMMA SumParts ==
  ASSUME NEW f, NEW h, NEW S, NEW J,
         IsFiniteSet(S), IsFiniteSet(J), \A x \in S : f[x] \in Int
  PROVE  SumFunctionOnSet(Parts(f, h, S, J), J) = SumFunctionOnSet(Within(f, h, S, J), S)
  <1> DEFINE g == Parts(f, h, S, J)
             A == {T \in SUBSET J : SumFunctionOnSet(g, T) =
                                      SumFunctionOnSet(Within(f, h, S, T), S)}
  <1>1. \A j \in J : g[j] \in Int /\ g[j] = SumFunctionOnSet(Part(f, h, S, j), S)
    <2> TAKE j \in J
    <2>1. \A x \in S : Part(f, h, S, j)[x] \in Int
      BY DEF Part
    <2>2. SumFunctionOnSet(Part(f, h, S, j), S) \in Int
      BY <2>1, SumInt
    <2>3. QED
      BY <2>2 DEF Parts
  <1>2. ASSUME NEW T \in SUBSET J, \A j \in T : T \ {j} \in A PROVE T \in A
    <2>1. CASE T = {}
      <3>1. Adds(Within(f, h, S, T), Within(f, h, S, T), Within(f, h, S, T), S)
            /\ \A x \in S : Within(f, h, S, T)[x] \in Int
        BY <2>1 DEF Adds, Within
      <3>2. SumFunctionOnSet(Within(f, h, S, T), S) \in Int
        BY <3>1, SumInt
      <3>3. SumFunctionOnSet(Within(f, h, S, T), S) =
              SumFunctionOnSet(Within(f, h, S, T), S) + SumFunctionOnSet(Within(f, h, S, T), S)
        BY <3>1, SumPlus
      <3>4. SumFunctionOnSet(Within(f, h, S, T), S) = 0
        BY <3>2, <3>3
      <3>5. SumFunctionOnSet(g, T) = 0
        BY <2>1, SumNothing
      <3>6. QED
        BY <3>4, <3>5
    <2>2. CASE T # {}
      <3>1. PICK j \in T : TRUE
        BY <2>2
      <3> DEFINE R == T \ {j}
      <3>2. IsFiniteSet(T) /\ \A x \in T : g[x] \in Int
        BY <1>1, FS_Subset
      <3>3. SumFunctionOnSet(g, T) = g[j] + SumFunctionOnSet(g, R)
        <4> HIDE DEF g
        <4>1. QED
          BY <3>2, SumRemove
      <3>4. SumFunctionOnSet(g, R) = SumFunctionOnSet(Within(f, h, S, R), S)
        BY <1>2, <3>1
      <3>5. Adds(Part(f, h, S, j), Within(f, h, S, R), Within(f, h, S, T), S)
        BY <3>1 DEF Adds, Part, Within
      <3>6. SumFunctionOnSet(Within(f, h, S, T), S) =
              SumFunctionOnSet(Part(f, h, S, j), S) + SumFunctionOnSet(Within(f, h, S, R), S)
        <4> HIDE DEF R
        <4>1. QED
          BY <3>5, SumPlus
      <3> HIDE DEF g
      <3>7. QED
        BY <1>1, <3>3, <3>4, <3>6
    <2>3. QED
      BY <2>1, <2>2
  <1>3. SUBSET J \subseteq A
    <2> HIDE DEF A
    <2>1. QED
      BY <1>2, FiniteInduction
  <1>4. QED
    BY <1>3
==============================================================================

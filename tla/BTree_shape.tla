---------------------------- MODULE BTree_shape -----------------------------
(***************************************************************************)
(* What the operations of the B-tree do to a tree, for any heap of nodes.  *)
(*                                                                         *)
(* A heap is a tree (Tree) when every node but the root is a child once    *)
(* (Wired), lev gives every node a height, one more than its children's    *)
(* and 0 for the leaves (Levelled), and K gives every node a set that has  *)
(* the keys in and below it and lies between the keys beside it (Fenced).  *)
(* lev and K are witnesses: no code computes them.                         *)
(*                                                                         *)
(* All of splitChild, mergeChildren and the two borrowings come down to    *)
(* one relation: g is h with a node divided (Divided).  Dividing keeps a   *)
(* tree a tree, in both directions, and moves no key (DividedTotals,       *)
(* TreeDivides, TreeJoins); splitting divides (SplitIs), merging is its    *)
(* reverse (MeltIs), and borrowing divides the merged node elsewhere       *)
(* (BorrowLeftIs, BorrowRightIs).                                          *)
(***************************************************************************)
EXTENDS BTree, Induction, SequenceTheorems, TLAPS

----------------------------------------------------------------------------
(* Counting in sequences                                                    *)

CountIn(s, V) == Cardinality({i \in 1 .. Len(s) : s[i] \in V})
One(v, V) == IF v \in V THEN 1 ELSE 0

(* The places of a sequence are finitely many.                              *)
LEMMA UpToFinite ==
  ASSUME NEW n \in Nat
  PROVE  IsFiniteSet(1 .. n) /\ Cardinality(1 .. n) = n
  <1>1. IsFiniteSet(1 .. n) /\ Cardinality(1 .. n) = IF 1 > n THEN 0 ELSE n - 1 + 1
    BY FS_Interval
  <1>2. QED
    BY <1>1

(* A sequence has no more places with members of V than it has places.      *)
LEMMA CountType ==
  ASSUME NEW s, Len(s) \in Nat, NEW V
  PROVE  CountIn(s, V) \in Nat /\ CountIn(s, V) <= Len(s)
  <1>1. IsFiniteSet(1 .. Len(s)) /\ Cardinality(1 .. Len(s)) = Len(s)
    BY UpToFinite
  <1>2. {i \in 1 .. Len(s) : s[i] \in V} \in SUBSET (1 .. Len(s))
    OBVIOUS
  <1>3. QED
    BY <1>1, <1>2, FS_Subset, FS_CardinalityType DEF CountIn

Shift(S, d) == {i + d : i \in S}

LEMMA ShiftedSet ==
  ASSUME NEW S \in SUBSET Int, NEW d \in Int, IsFiniteSet(S)
  PROVE  IsFiniteSet(Shift(S, d)) /\ Cardinality(Shift(S, d)) = Cardinality(S)
  <1> PICK T : T = Shift(S, d)
    OBVIOUS
  <1> PICK f : f = [i \in S |-> i + d]
    OBVIOUS
  <1>1. f \in Bijection(S, T)
    <2>1. f \in [S -> T]
      BY DEF Shift
    <2>2. ASSUME NEW a \in S, NEW b \in S, f[a] = f[b] PROVE a = b
      <3>1. a \in Int /\ b \in Int /\ a + d = b + d
        BY <2>2
      <3>2. QED
        BY <3>1
    <2>3. \A t \in T : \E i \in S : f[i] = t
      BY DEF Shift
    <2>4. QED
      BY <2>1, <2>2, <2>3 DEF Bijection, Injection, Surjection, IsInjective
  <1>2. ExistsBijection(S, T)
    BY <1>1 DEF ExistsBijection
  <1>3. QED
    BY <1>2, FS_Bijection

LEMMA DisjointUnion ==
  ASSUME NEW S, NEW T, IsFiniteSet(S), IsFiniteSet(T), S \cap T = {}
  PROVE  IsFiniteSet(S \cup T) /\ Cardinality(S \cup T) = Cardinality(S) + Cardinality(T)
  <1>1. Cardinality(S \cap T) = 0
    BY FS_EmptySet
  <1>2. Cardinality(S) \in Nat /\ Cardinality(T) \in Nat
    BY FS_CardinalityType
  <1>3. IsFiniteSet(S \cup T) /\ Cardinality(S \cup T) = Cardinality(S) + Cardinality(T) - Cardinality(S \cap T)
    BY FS_Union
  <1>4. QED
    BY <1>1, <1>2, <1>3

(* w is s, then t.                                                          *)
Cat(w, s, t) ==
  /\ Len(w) = Len(s) + Len(t)
  /\ \A i \in 1 .. Len(w) : w[i] = IF i <= Len(s) THEN s[i] ELSE t[i - Len(s)]

(* Putting sequences together adds their counts.                            *)
LEMMA CountCat ==
  ASSUME NEW w, NEW s, NEW t, NEW V, Len(s) \in Nat, Len(t) \in Nat, Cat(w, s, t)
  PROVE  CountIn(w, V) = CountIn(s, V) + CountIn(t, V)
  <1> PICK n \in Nat : n = Len(s)
    OBVIOUS
  <1> PICK k \in Nat : k = Len(t)
    OBVIOUS
  <1> PICK S : S = {i \in 1 .. n : s[i] \in V}
    OBVIOUS
  <1> PICK T : T = {i \in 1 .. k : t[i] \in V}
    OBVIOUS
  <1> PICK U : U = Shift(T, n)
    OBVIOUS
  <1>1. IsFiniteSet(S) /\ IsFiniteSet(T)
    <2>1. IsFiniteSet(1 .. n) /\ IsFiniteSet(1 .. k) /\ S \in SUBSET (1 .. n) /\ T \in SUBSET (1 .. k)
      BY UpToFinite
    <2>2. QED
      BY <2>1, FS_Subset
  <1>2. IsFiniteSet(U) /\ Cardinality(U) = Cardinality(T)
    <2>1. T \in SUBSET Int
      OBVIOUS
    <2>2. QED
      BY <1>1, <2>1, ShiftedSet
  <1>3. {i \in 1 .. Len(w) : w[i] \in V} = S \cup U
    <2>1. Len(w) = n + k /\ \A i \in 1 .. n + k : w[i] = IF i <= n THEN s[i] ELSE t[i - n]
      BY DEF Cat
    <2>2. ASSUME NEW i \in 1 .. n + k, w[i] \in V PROVE i \in S \cup U
      <3>1. CASE i <= n
        BY <2>1, <2>2, <3>1
      <3>2. CASE i > n
        <4>1. i - n \in T /\ i = (i - n) + n
          BY <2>1, <2>2, <3>2
        <4>2. QED
          BY <4>1 DEF Shift
      <3>3. QED
        BY <3>1, <3>2
    <2>3. ASSUME NEW i \in S PROVE i \in 1 .. n + k /\ w[i] \in V
      BY <2>1
    <2>4. ASSUME NEW i \in T PROVE i + n \in 1 .. n + k /\ w[i + n] \in V
      <3>1. (i + n) - n = i /\ ~(i + n <= n) /\ i + n \in 1 .. n + k
        OBVIOUS
      <3>2. QED
        BY <2>1, <3>1
    <2>5. QED
      BY <2>1, <2>2, <2>3, <2>4, SMTT(40) DEF Shift
  <1>4. S \cap U = {}
    BY DEF Shift
  <1>5. Cardinality(S \cup U) = Cardinality(S) + Cardinality(U)
    BY <1>1, <1>2, <1>4, DisjointUnion
  <1>6. QED
    BY <1>2, <1>3, <1>5 DEF CountIn

(* v is w without its i-th element.                                         *)
Without(v, w, i) ==
  /\ i \in 1 .. Len(w) /\ Len(w) = Len(v) + 1
  /\ \A j \in 1 .. Len(v) : v[j] = IF j < i THEN w[j] ELSE w[j + 1]

(* Taking one element out takes one from the count, if it was in V.         *)
LEMMA CountWithout ==
  ASSUME NEW v, NEW w, NEW i, NEW V, Len(v) \in Nat, Without(v, w, i)
  PROVE  CountIn(w, V) = CountIn(v, V) + One(w[i], V)
  <1> PICK n \in Nat : n = Len(v)
    OBVIOUS
  <1>0. /\ i \in 1 .. n + 1 /\ Len(w) = n + 1
        /\ \A j \in 1 .. n : v[j] = IF j < i THEN w[j] ELSE w[j + 1]
    BY DEF Without
  <1> PICK A : A = {j \in 1 .. n : j < i /\ v[j] \in V}
    OBVIOUS
  <1> PICK B : B = {j \in 1 .. n : j >= i /\ v[j] \in V}
    OBVIOUS
  <1> PICK C : C = Shift(B, 1)
    OBVIOUS
  <1> PICK D : D = IF w[i] \in V THEN {i} ELSE {}
    OBVIOUS
  <1>1. IsFiniteSet(A) /\ IsFiniteSet(B)
    <2>1. IsFiniteSet(1 .. n) /\ A \in SUBSET (1 .. n) /\ B \in SUBSET (1 .. n)
      BY UpToFinite
    <2>2. QED
      BY <2>1, FS_Subset
  <1>2. IsFiniteSet(C) /\ Cardinality(C) = Cardinality(B)
    <2>1. B \in SUBSET Int
      OBVIOUS
    <2>2. QED
      BY <1>1, <2>1, ShiftedSet
  <1>3. IsFiniteSet(D) /\ Cardinality(D) = One(w[i], V)
    BY FS_EmptySet, FS_Singleton DEF One
  <1>4. A \cup B = {j \in 1 .. Len(v) : v[j] \in V} /\ A \cap B = {}
    BY <1>0
  <1>5. {j \in 1 .. Len(w) : w[j] \in V} = (A \cup C) \cup D
    <2>1. ASSUME NEW j \in 1 .. n + 1, w[j] \in V PROVE j \in (A \cup C) \cup D
      <3>1. CASE j < i
        BY <1>0, <2>1, <3>1
      <3>2. CASE j = i
        BY <2>1, <3>2
      <3>3. CASE j > i
        <4>1. j - 1 \in 1 .. n /\ j - 1 >= i /\ (j - 1) + 1 = j /\ ~(j - 1 < i)
          BY <1>0, <3>3
        <4>2. j - 1 \in B
          BY <1>0, <2>1, <4>1
        <4>3. QED
          BY <4>1, <4>2 DEF Shift
      <3>4. QED
        BY <1>0, <3>1, <3>2, <3>3
    <2>2. ASSUME NEW j \in A PROVE j \in 1 .. n + 1 /\ w[j] \in V
      BY <1>0
    <2>3. ASSUME NEW j \in B PROVE j + 1 \in 1 .. n + 1 /\ w[j + 1] \in V
      BY <1>0
    <2>4. ASSUME NEW j \in D PROVE j \in 1 .. n + 1 /\ w[j] \in V
      BY <1>0
    <2>5. QED
      BY <1>0, <2>1, <2>2, <2>3, <2>4 DEF Shift
  <1>6. A \cap C = {} /\ (A \cup C) \cap D = {}
    BY <1>0 DEF Shift
  <1>7. IsFiniteSet(A \cup C) /\ Cardinality(A \cup C) = Cardinality(A) + Cardinality(C)
    BY <1>1, <1>2, <1>6, DisjointUnion
  <1>8. Cardinality((A \cup C) \cup D) = Cardinality(A \cup C) + Cardinality(D)
    BY <1>3, <1>6, <1>7, DisjointUnion, ZenonT(40)
  <1>9. Cardinality(A \cup B) = Cardinality(A) + Cardinality(B)
    BY <1>1, <1>4, DisjointUnion
  <1>10. QED
    BY <1>2, <1>3, <1>4, <1>5, <1>7, <1>8, <1>9 DEF CountIn

(* w is s, then m, then t.                                                  *)
Joined(w, s, m, t) ==
  /\ Len(w) = Len(s) + 1 + Len(t)
  /\ \A i \in 1 .. Len(w) :
       w[i] = IF i <= Len(s) THEN s[i] ELSE IF i = Len(s) + 1 THEN m ELSE t[i - Len(s) - 1]

LEMMA CountJoined ==
  ASSUME NEW w, NEW s, NEW m, NEW t, NEW V, Len(s) \in Nat, Len(t) \in Nat, Joined(w, s, m, t)
  PROVE  CountIn(w, V) = CountIn(s, V) + CountIn(t, V) + One(m, V)
  <1> PICK n \in Nat : n = Len(s)
    OBVIOUS
  <1> PICK k \in Nat : k = Len(t)
    OBVIOUS
  <1> PICK c : c = [i \in 1 .. n + k |-> IF i <= n THEN s[i] ELSE t[i - n]]
    OBVIOUS
  <1>0. Len(w) = n + 1 + k
        /\ \A i \in 1 .. n + 1 + k :
             w[i] = IF i <= n THEN s[i] ELSE IF i = n + 1 THEN m ELSE t[i - n - 1]
    BY DEF Joined
  <1>1. Len(c) = n + k
    OBVIOUS
  <1>2. Cat(c, s, t)
    BY <1>1 DEF Cat
  <1>3. Without(c, w, n + 1)
    <2>1. ASSUME NEW j \in 1 .. n + k PROVE c[j] = IF j < n + 1 THEN w[j] ELSE w[j + 1]
      <3>1. CASE j <= n
        BY <1>0, <3>1
      <3>2. CASE j > n
        <4>1. w[j + 1] = t[(j + 1) - n - 1] /\ (j + 1) - n - 1 = j - n
          BY <1>0, <3>2
        <4>2. QED
          BY <3>2, <4>1
      <3>3. QED
        BY <3>1, <3>2
    <2>2. QED
      BY <1>0, <1>1, <2>1 DEF Without
  <1>4. CountIn(w, V) = CountIn(c, V) + One(w[n + 1], V)
    BY <1>1, <1>3, CountWithout
  <1>5. CountIn(c, V) = CountIn(s, V) + CountIn(t, V)
    BY <1>2, CountCat
  <1>6. w[n + 1] = m
    BY <1>0
  <1>7. QED
    BY <1>4, <1>5, <1>6

----------------------------------------------------------------------------
(* Counting over all nodes                                                  *)

Counts(f, V) == [n \in DOMAIN f |-> CountIn(f[n], V)]
Total(f, V) == SumFunctionOnSet(Counts(f, V), DOMAIN f)
Lists(f) == IsFiniteSet(DOMAIN f) /\ \A n \in DOMAIN f : Len(f[n]) \in Nat

(* The total over all nodes is a number.                                    *)
LEMMA TotalType ==
  ASSUME NEW f, NEW V, Lists(f)
  PROVE  Total(f, V) \in Int
  <1> PICK c : c = Counts(f, V)
    OBVIOUS
  <1>1. \A n \in DOMAIN f : c[n] \in Int
    BY CountType DEF Counts, Lists
  <1>2. SumFunctionOnSet(c, DOMAIN f) \in Int
    BY <1>1, SumInt DEF Lists
  <1>3. QED
    BY <1>2 DEF Total

(* What is left of the total without two nodes.                             *)
LEMMA TotalWithout ==
  ASSUME NEW f, NEW V, NEW x \in DOMAIN f, NEW y \in DOMAIN f, x # y, Lists(f)
  PROVE  /\ Total(f, V) = CountIn(f[x], V) + CountIn(f[y], V)
                            + SumFunctionOnSet(Counts(f, V), DOMAIN f \ {x, y})
         /\ SumFunctionOnSet(Counts(f, V), DOMAIN f \ {x, y}) \in Int
  <1> PICK c : c = Counts(f, V)
    OBVIOUS
  <1> PICK D : D = DOMAIN f
    OBVIOUS
  <1> PICK E : E = D \ {x}
    OBVIOUS
  <1>1. /\ \A n \in D : c[n] \in Int
        /\ c[x] = CountIn(f[x], V) /\ c[y] = CountIn(f[y], V)
    BY CountType DEF Counts, Lists
  <1>2. IsFiniteSet(D) /\ IsFiniteSet(E) /\ IsFiniteSet(E \ {y})
    BY FS_RemoveElement DEF Lists
  <1>3. SumFunctionOnSet(c, D) = c[x] + SumFunctionOnSet(c, D \ {x})
    BY <1>1, <1>2, SumRemove
  <1>4. SumFunctionOnSet(c, E) = c[y] + SumFunctionOnSet(c, E \ {y})
    BY <1>1, <1>2, SumRemove
  <1>5. E \ {y} = D \ {x, y}
    OBVIOUS
  <1>6. SumFunctionOnSet(c, E \ {y}) \in Int
    BY <1>1, <1>2, SumInt
  <1> PICK rest : rest = SumFunctionOnSet(c, E \ {y})
    OBVIOUS
  <1>7. SumFunctionOnSet(c, D) = c[x] + (c[y] + rest) /\ rest \in Int
    BY <1>3, <1>4, <1>6
  <1>8. c[x] \in Int /\ c[y] \in Int
    BY <1>1
  <1>9. SumFunctionOnSet(c, D) = c[x] + c[y] + rest
    BY <1>7, <1>8
  <1>10. QED
    BY <1>1, <1>5, <1>7, <1>9 DEF Total

SameOn(f, g, S) == \A n \in S : g[n] = f[n]

LEMMA RestEqual ==
  ASSUME NEW f, NEW g, NEW V, NEW S, IsFiniteSet(S), S \subseteq DOMAIN f, S \subseteq DOMAIN g,
         SameOn(f, g, S)
  PROVE  SumFunctionOnSet(Counts(f, V), S) = SumFunctionOnSet(Counts(g, V), S)
  <1> PICK c : c = Counts(f, V)
    OBVIOUS
  <1> PICK d : d = Counts(g, V)
    OBVIOUS
  <1>1. \A n \in S : c[n] = d[n]
    BY DEF Counts, SameOn
  <1>2. QED
    BY <1>1, SumEqual

(* Two nodes change.                                                        *)
LEMMA TotalTwo ==
  ASSUME NEW f, NEW g, NEW V, NEW x \in DOMAIN f, NEW y \in DOMAIN f, x # y,
         Lists(f), Lists(g), DOMAIN g = DOMAIN f, SameOn(f, g, DOMAIN f \ {x, y})
  PROVE  Total(g, V) = Total(f, V) - CountIn(f[x], V) - CountIn(f[y], V)
                                   + CountIn(g[x], V) + CountIn(g[y], V)
  <1>1. IsFiniteSet(DOMAIN f \ {x, y})
    BY FS_Subset DEF Lists
  <1>2. SumFunctionOnSet(Counts(f, V), DOMAIN f \ {x, y}) =
          SumFunctionOnSet(Counts(g, V), DOMAIN f \ {x, y})
    BY <1>1, RestEqual
  <1> PICK rest : rest = SumFunctionOnSet(Counts(f, V), DOMAIN f \ {x, y})
    OBVIOUS
  <1>3. Total(f, V) = CountIn(f[x], V) + CountIn(f[y], V) + rest /\ rest \in Int
    <2>1. /\ Total(f, V) = CountIn(f[x], V) + CountIn(f[y], V)
                             + SumFunctionOnSet(Counts(f, V), DOMAIN f \ {x, y})
          /\ SumFunctionOnSet(Counts(f, V), DOMAIN f \ {x, y}) \in Int
      BY TotalWithout
    <2>2. QED
      BY <2>1
  <1>4. Total(g, V) = CountIn(g[x], V) + CountIn(g[y], V) + rest
    BY <1>2, TotalWithout
  <1>5. /\ CountIn(f[x], V) \in Int /\ CountIn(f[y], V) \in Int
        /\ CountIn(g[x], V) \in Int /\ CountIn(g[y], V) \in Int
    BY CountType DEF Lists
  <1>6. QED
    BY <1>3, <1>4, <1>5

(* One node changes.                                                        *)
LEMMA TotalOne ==
  ASSUME NEW f, NEW g, NEW V, NEW y \in DOMAIN f,
         Lists(f), Lists(g), DOMAIN g = DOMAIN f, SameOn(f, g, DOMAIN f \ {y})
  PROVE  Total(g, V) = Total(f, V) - CountIn(f[y], V) + CountIn(g[y], V)
  <1> PICK c : c = Counts(f, V)
    OBVIOUS
  <1> PICK d : d = Counts(g, V)
    OBVIOUS
  <1>1. DifferAt(y, c, d, DOMAIN f)
    BY CountType DEF Counts, Lists, DifferAt, SameOn
  <1>2. SumFunctionOnSet(d, DOMAIN f) = SumFunctionOnSet(c, DOMAIN f) - c[y] + d[y]
    BY <1>1, SumChange DEF Lists
  <1>3. QED
    BY <1>2 DEF Total, Counts

(* A node is added.                                                         *)
LEMMA TotalNew ==
  ASSUME NEW f, NEW g, NEW V, NEW z, z \notin DOMAIN f,
         Lists(f), Lists(g), DOMAIN g = DOMAIN f \cup {z}, SameOn(f, g, DOMAIN f)
  PROVE  Total(g, V) = Total(f, V) + CountIn(g[z], V)
  <1> PICK d : d = Counts(g, V)
    OBVIOUS
  <1>1. /\ \A n \in DOMAIN g : d[n] \in Int
        /\ d[z] = CountIn(g[z], V)
    BY CountType DEF Counts, Lists
  <1>2. SumFunctionOnSet(d, DOMAIN f \cup {z}) = d[z] + SumFunctionOnSet(d, DOMAIN f)
    BY <1>1, SumAdd DEF Lists
  <1>3. SumFunctionOnSet(Counts(f, V), DOMAIN f) = SumFunctionOnSet(d, DOMAIN f)
    BY RestEqual DEF Lists
  <1>4. Total(f, V) \in Int
    BY TotalType
  <1>5. Total(g, V) = d[z] + Total(f, V)
    BY <1>2, <1>3 DEF Total
  <1>6. QED
    BY <1>1, <1>4, <1>5

(* Two nodes change and one is added.                                       *)
LEMMA TotalThree ==
  ASSUME NEW f, NEW g, NEW V, NEW x \in DOMAIN f, NEW y \in DOMAIN f, x # y,
         NEW z, z \notin DOMAIN f, Lists(f), Lists(g),
         DOMAIN g = DOMAIN f \cup {z}, SameOn(f, g, DOMAIN f \ {x, y})
  PROVE  Total(g, V) = Total(f, V) - CountIn(f[x], V) - CountIn(f[y], V)
                                   + CountIn(g[x], V) + CountIn(g[y], V) + CountIn(g[z], V)
  <1> PICK e : e = [n \in DOMAIN f |-> g[n]]
    OBVIOUS
  <1>1. Lists(e) /\ DOMAIN e = DOMAIN f /\ e[x] = g[x] /\ e[y] = g[y]
    BY DEF Lists
  <1>2. SameOn(f, e, DOMAIN f \ {x, y}) /\ SameOn(e, g, DOMAIN e)
    BY DEF SameOn
  <1>3. Total(e, V) = Total(f, V) - CountIn(f[x], V) - CountIn(f[y], V)
                                  + CountIn(e[x], V) + CountIn(e[y], V)
    BY <1>1, <1>2, TotalTwo
  <1>4. Total(g, V) = Total(e, V) + CountIn(g[z], V)
    BY <1>1, <1>2, TotalNew
  <1>5. QED
    BY <1>1, <1>3, <1>4

(* The places at which the sequences hold a member of V.                    *)
PlacesIn(f, T, B, V) ==
  {p \in T \X (1 .. B) : p[2] <= Len(f[p[1]]) /\ f[p[1]][p[2]] \in V}

LEMMA PlacesOfOne ==
  ASSUME NEW f, NEW x, NEW B \in Nat, NEW V, Len(f[x]) \in Nat, Len(f[x]) <= B
  PROVE  /\ IsFiniteSet(PlacesIn(f, {x}, B, V))
         /\ Cardinality(PlacesIn(f, {x}, B, V)) = CountIn(f[x], V)
  <1> PICK n \in Nat : n = Len(f[x])
    OBVIOUS
  <1> PICK S : S = {i \in 1 .. n : f[x][i] \in V}
    OBVIOUS
  <1> PICK T : T = PlacesIn(f, {x}, B, V)
    OBVIOUS
  <1> PICK m : m = [i \in S |-> <<x, i>>]
    OBVIOUS
  <1>1. IsFiniteSet(S)
    <2>1. IsFiniteSet(1 .. n) /\ S \in SUBSET (1 .. n)
      BY UpToFinite
    <2>2. QED
      BY <2>1, FS_Subset
  <1>2. m \in Bijection(S, T)
    <2>1. m \in [S -> T]
      <3>1. ASSUME NEW i \in S PROVE <<x, i>> \in T
        <4>1. i \in 1 .. B /\ i <= n /\ f[x][i] \in V
          OBVIOUS
        <4>2. QED
          BY <4>1 DEF PlacesIn
      <3>2. QED
        BY <3>1
    <2>2. \A a, b \in S : m[a] = m[b] => a = b
      OBVIOUS
    <2>3. ASSUME NEW p \in T PROVE \E i \in S : m[i] = p
      <3>1. p = <<x, p[2]>> /\ p[2] \in S
        BY DEF PlacesIn
      <3>2. QED
        BY <3>1
    <2>4. QED
      BY <2>1, <2>2, <2>3 DEF Bijection, Injection, Surjection, IsInjective
  <1>3. ExistsBijection(S, T)
    BY <1>2 DEF ExistsBijection
  <1>4. IsFiniteSet(T) /\ Cardinality(T) = Cardinality(S)
    BY <1>1, <1>3, FS_Bijection
  <1>5. QED
    BY <1>4 DEF CountIn

(* The places in all nodes are as many as the total says.                   *)
LEMMA PlacesCount ==
  ASSUME NEW f, NEW B \in Nat, NEW V, Lists(f), \A n \in DOMAIN f : Len(f[n]) <= B
  PROVE  /\ IsFiniteSet(PlacesIn(f, DOMAIN f, B, V))
         /\ Cardinality(PlacesIn(f, DOMAIN f, B, V)) = Total(f, V)
  <1> PICK c : c = Counts(f, V)
    OBVIOUS
  <1>0. /\ IsFiniteSet(DOMAIN f)
        /\ \A n \in DOMAIN f : c[n] = CountIn(f[n], V) /\ c[n] \in Int
    BY CountType DEF Counts, Lists
  <1> DEFINE A == {T \in SUBSET DOMAIN f :
                     /\ IsFiniteSet(PlacesIn(f, T, B, V))
                     /\ Cardinality(PlacesIn(f, T, B, V)) = SumFunctionOnSet(c, T)}
  <1>1. ASSUME NEW T \in SUBSET DOMAIN f, \A x \in T : T \ {x} \in A PROVE T \in A
    <2>1. CASE T = {}
      <3>1. PlacesIn(f, T, B, V) = {}
        BY <2>1 DEF PlacesIn
      <3>2. QED
        BY <2>1, <3>1, SumNothing, FS_EmptySet
    <2>2. CASE T # {}
      <3>1. PICK x \in T : TRUE
        BY <2>2
      <3> PICK R : R = T \ {x}
        OBVIOUS
      <3> PICK P : P = PlacesIn(f, R, B, V)
        OBVIOUS
      <3> PICK Q : Q = PlacesIn(f, {x}, B, V)
        OBVIOUS
      <3>2. IsFiniteSet(P) /\ Cardinality(P) = SumFunctionOnSet(c, R)
        BY <1>1, <3>1
      <3>3. IsFiniteSet(Q) /\ Cardinality(Q) = c[x]
        BY <1>0, <3>1, PlacesOfOne DEF Lists
      <3>4. PlacesIn(f, T, B, V) = P \cup Q /\ P \cap Q = {}
        BY <3>1 DEF PlacesIn
      <3>5. IsFiniteSet(P \cup Q) /\ Cardinality(P \cup Q) = Cardinality(P) + Cardinality(Q)
        BY <3>2, <3>3, <3>4, DisjointUnion
      <3>6. SumFunctionOnSet(c, T) = c[x] + SumFunctionOnSet(c, T \ {x})
        <4>1. IsFiniteSet(T) /\ \A n \in T : c[n] \in Int
          BY <1>0, FS_Subset
        <4>2. QED
          BY <3>1, <4>1, SumRemove
      <3>7. SumFunctionOnSet(c, R) \in Int /\ c[x] \in Int
        <4>1. IsFiniteSet(R) /\ \A n \in R : c[n] \in Int
          BY <1>0, FS_Subset
        <4>2. QED
          BY <1>0, <3>1, <4>1, SumInt
      <3>8. SumFunctionOnSet(c, R) + c[x] = c[x] + SumFunctionOnSet(c, R)
        BY <3>7
      <3>9. QED
        BY <3>2, <3>3, <3>4, <3>5, <3>6, <3>8
    <2>3. QED
      BY <2>1, <2>2
  <1>2. SUBSET DOMAIN f \subseteq A
    <2> HIDE DEF A
    <2>1. QED
      BY <1>0, <1>1, FiniteInduction
  <1>3. QED
    BY <1>2 DEF Total

(* All sequences are bounded.                                               *)
LEMMA Bounded ==
  ASSUME NEW f, Lists(f)
  PROVE  \E B \in Nat : \A n \in DOMAIN f : Len(f[n]) <= B
  <1>1. CASE DOMAIN f = {}
    BY <1>1
  <1>2. CASE DOMAIN f # {}
    <2> PICK len : len = [n \in DOMAIN f |-> Len(f[n])]
      OBVIOUS
    <2>1. \A n \in DOMAIN f : len[n] \in Int
      BY DEF Lists
    <2>2. PICK m \in DOMAIN f : \A n \in DOMAIN f : len[n] <= len[m]
      BY <1>2, <2>1, Greatest DEF Lists
    <2>3. len[m] \in Nat /\ \A n \in DOMAIN f : Len(f[n]) <= len[m]
      BY <2>2 DEF Lists
    <2>4. QED
      BY <2>3
  <1>3. QED
    BY <1>1, <1>2

(* What a total of none, and of one, says of the places.                    *)
Absent(f, v) == \A n \in DOMAIN f : \A i \in 1 .. Len(f[n]) : f[n][i] # v

(* The total of a value is 0 exactly if it is nowhere.                      *)
LEMMA TotalNone ==
  ASSUME NEW f, NEW v, Lists(f)
  PROVE  Total(f, {v}) = 0 <=> Absent(f, v)
  <1>1. PICK B \in Nat : \A n \in DOMAIN f : Len(f[n]) <= B
    BY Bounded
  <1> PICK P : P = PlacesIn(f, DOMAIN f, B, {v})
    OBVIOUS
  <1>2. IsFiniteSet(P) /\ Cardinality(P) = Total(f, {v})
    BY <1>1, PlacesCount
  <1>3. Total(f, {v}) = 0 <=> P = {}
    BY <1>2, FS_EmptySet
  <1>4. ASSUME NEW n \in DOMAIN f, NEW i \in 1 .. Len(f[n]), f[n][i] = v PROVE P # {}
    <2>1. i \in 1 .. B /\ i <= Len(f[n])
      BY <1>1 DEF Lists
    <2>2. <<n, i>> \in P
      BY <1>4, <2>1 DEF PlacesIn
    <2>3. QED
      BY <2>2
  <1>5. ASSUME NEW p \in P PROVE \E n \in DOMAIN f : \E i \in 1 .. Len(f[n]) : f[n][i] = v
    BY DEF PlacesIn
  <1>6. QED
    BY <1>3, <1>4, <1>5 DEF Absent

OnlyIn(f, v, m, j) ==
  /\ m \in DOMAIN f /\ j \in 1 .. Len(f[m]) /\ f[m][j] = v
  /\ \A n \in DOMAIN f : \A i \in 1 .. Len(f[n]) : f[n][i] = v => n = m /\ i = j

(* The total of a value is 1 only if it is at one place.                    *)
LEMMA TotalSingle ==
  ASSUME NEW f, NEW v, Lists(f), Total(f, {v}) = 1
  PROVE  \E m, j : OnlyIn(f, v, m, j)
  <1>1. PICK B \in Nat : \A n \in DOMAIN f : Len(f[n]) <= B
    BY Bounded
  <1> PICK P : P = PlacesIn(f, DOMAIN f, B, {v})
    OBVIOUS
  <1>2. IsFiniteSet(P) /\ Cardinality(P) = 1
    BY <1>1, PlacesCount
  <1>3. PICK p : P = {p}
    BY <1>2, FS_Singleton
  <1>4. p[1] \in DOMAIN f /\ p[2] \in 1 .. Len(f[p[1]]) /\ f[p[1]][p[2]] = v
    <2>1. p \in P
      BY <1>3
    <2>2. QED
      BY <2>1 DEF PlacesIn, Lists
  <1>5. ASSUME NEW n \in DOMAIN f, NEW i \in 1 .. Len(f[n]), f[n][i] = v
        PROVE  n = p[1] /\ i = p[2]
    <2>1. i \in 1 .. B /\ i <= Len(f[n])
      BY <1>1 DEF Lists
    <2>2. <<n, i>> \in P
      BY <1>5, <2>1 DEF PlacesIn
    <2>3. <<n, i>> = p
      BY <1>3, <2>2
    <2>4. QED
      BY <2>3
  <1>6. OnlyIn(f, v, p[1], p[2])
    BY <1>4, <1>5 DEF OnlyIn
  <1>7. QED
    BY <1>6

----------------------------------------------------------------------------
(* Trees                                                                    *)

NodeType == [leaf : BOOLEAN, key : Seq(Keys), child : Seq(Nodes)]

HeapType(h) == DOMAIN h \subseteq Nodes /\ h \in [DOMAIN h -> NodeType]

ShapedNode(x) == IF x.leaf THEN x.child = << >> ELSE Len(x.child) = Len(x.key) + 1
Shaped(h) == \A n \in DOMAIN h : ShapedNode(h[n])

Elements(s) == {s[j] : j \in 1 .. Len(s)}
KidSet(x) == Elements(x.child)
KeysOf(h) == [n \in DOMAIN h |-> h[n].key]
KidsOf(h) == [n \in DOMAIN h |-> h[n].child]

(* Every node but the root is a child once, and nothing else is.            *)
Wired(h, r) ==
  /\ r \in DOMAIN h
  /\ \A v \in Nodes : Total(KidsOf(h), {v}) = IF v \in DOMAIN h \ {r} THEN 1 ELSE 0

(* lev says how high a node is above the leaves.                            *)
LevelledNode(x, n, D, lev) ==
  /\ x.leaf <=> lev[n] = 0
  /\ \A c \in KidSet(x) : c \in D /\ lev[c] + 1 = lev[n]
Levelled(h, lev) ==
  lev \in [Nodes -> Nat] /\ \A n \in DOMAIN h : LevelledNode(h[n], n, DOMAIN h, lev)

(* Keys k[1 .. a] in order, and what the sets K has for the children        *)
(* c[1 .. d] lying between them.                                            *)
Ints(k, a) == \A i \in 1 .. a : k[i] \in Int
IntSets(c, d, K) == \A j \in 1 .. d : K[c[j]] \subseteq Int
Up(k, a) == \A i, j \in 1 .. a : i <= j => k[i] <= k[j]
Apart(k, a, c, d, K) ==
  \A i \in 1 .. a, j \in 1 .. d : \A v \in K[c[j]] :
    IF j <= i THEN v <= k[i] ELSE k[i] <= v
KeysUpto(k, a, m) == \A i \in 1 .. a : k[i] <= m
KeysFrom(k, a, m) == \A i \in 1 .. a : m <= k[i]
KidsUpto(c, d, K, m) == \A j \in 1 .. d : \A v \in K[c[j]] : v <= m
KidsFrom(c, d, K, m) == \A j \in 1 .. d : \A v \in K[c[j]] : m <= v

(* K[n] holds the keys in and below n, and they lie between the keys beside *)
(* the child they are below.                                                *)
Holds(x, S, K) ==
  /\ \A i \in 1 .. Len(x.key) : x.key[i] \in S
  /\ \A c \in KidSet(x) : K[c] \subseteq S
Rising(x) == Up(x.key, Len(x.key))
Beside(x, K) == Apart(x.key, Len(x.key), x.child, Len(x.child), K)
FencedNode(x, S, K) == Holds(x, S, K) /\ Rising(x) /\ Beside(x, K)
Fenced(h, K) ==
  K \in [Nodes -> SUBSET Int] /\ \A n \in DOMAIN h : FencedNode(h[n], K[n], K)

(* K[n] holds nothing else.                                                 *)
ExactNode(x, S, K) ==
  \A v \in S : \/ \E i \in 1 .. Len(x.key) : x.key[i] = v
               \/ \E c \in KidSet(x) : v \in K[c]
Exact(h, K) == \A n \in DOMAIN h : ExactNode(h[n], K[n], K)

Frame(h, r, lev) == HeapType(h) /\ Shaped(h) /\ Wired(h, r) /\ Levelled(h, lev)
Tree(h, r, lev, K) == Frame(h, r, lev) /\ Fenced(h, K)

(* The types of what a node holds.                                          *)
LEMMA NodeTypes ==
  ASSUME NEW h, HeapType(h), NEW n \in DOMAIN h
  PROVE  /\ n \in Nodes /\ h[n].leaf \in BOOLEAN
         /\ h[n].key \in Seq(Keys) /\ Len(h[n].key) \in Nat
         /\ \A i \in 1 .. Len(h[n].key) : h[n].key[i] \in Keys /\ h[n].key[i] \in Int
         /\ h[n].child \in Seq(Nodes) /\ Len(h[n].child) \in Nat
         /\ \A i \in 1 .. Len(h[n].child) : h[n].child[i] \in Nodes
  <1>1. h[n].key \in Seq(Keys) /\ h[n].child \in Seq(Nodes) /\ h[n].leaf \in BOOLEAN /\ n \in Nodes
    BY DEF HeapType, NodeType
  <1> PICK s : s = h[n].key
    OBVIOUS
  <1> PICK c : c = h[n].child
    OBVIOUS
  <1>2. Len(s) \in Nat /\ \A i \in 1 .. Len(s) : s[i] \in Keys
    BY <1>1, LenProperties, ElementOfSeq
  <1>3. Len(c) \in Nat /\ \A i \in 1 .. Len(c) : c[i] \in Nodes
    BY <1>1, LenProperties, ElementOfSeq
  <1>4. Keys \subseteq Int
    BY BTreeAssumption
  <1>5. QED
    BY <1>1, <1>2, <1>3, <1>4

LEMMA HeapLists ==
  ASSUME NEW h, HeapType(h)
  PROVE  /\ IsFiniteSet(DOMAIN h)
         /\ Lists(KeysOf(h)) /\ DOMAIN KeysOf(h) = DOMAIN h
         /\ Lists(KidsOf(h)) /\ DOMAIN KidsOf(h) = DOMAIN h
         /\ \A n \in DOMAIN h : KeysOf(h)[n] = h[n].key /\ KidsOf(h)[n] = h[n].child
  <1>1. IsFiniteSet(DOMAIN h)
    BY BTreeAssumption, FS_Subset DEF HeapType
  <1>2. \A n \in DOMAIN h : Len(h[n].key) \in Nat /\ Len(h[n].child) \in Nat
    BY NodeTypes
  <1>3. QED
    BY <1>1, <1>2 DEF Lists, KeysOf, KidsOf

(* What Wired says of single places.                                        *)
Inside(h, r) ==
  \A n \in DOMAIN h : \A i \in 1 .. Len(h[n].child) : h[n].child[i] \in DOMAIN h \ {r}
Once(h) ==
  \A m, n \in DOMAIN h : \A i \in 1 .. Len(h[m].child), j \in 1 .. Len(h[n].child) :
    h[m].child[i] = h[n].child[j] => m = n /\ i = j
Hangs(h, r) ==
  \A v \in DOMAIN h \ {r} : \E n \in DOMAIN h : \E i \in 1 .. Len(h[n].child) : h[n].child[i] = v

Only(h, v, m, j) ==
  /\ h[m].child[j] = v
  /\ \A n \in DOMAIN h : \A i \in 1 .. Len(h[n].child) : h[n].child[i] = v => n = m /\ i = j

(* Every child is another node than the root, and is a child at one place.  *)
LEMMA WiredSays ==
  ASSUME NEW h, NEW r, HeapType(h), Wired(h, r)
  PROVE  Inside(h, r) /\ Once(h) /\ Hangs(h, r)
  <1> PICK f : f = KidsOf(h)
    OBVIOUS
  <1>1. Lists(f) /\ DOMAIN f = DOMAIN h /\ \A n \in DOMAIN h : f[n] = h[n].child
    BY HeapLists
  <1>2. \A v \in Nodes : Total(f, {v}) = IF v \in DOMAIN h \ {r} THEN 1 ELSE 0
    BY DEF Wired
  <1>3. ASSUME NEW n \in DOMAIN h, NEW i \in 1 .. Len(h[n].child)
        PROVE  h[n].child[i] \in DOMAIN h \ {r}
    <2> PICK v \in Nodes : v = h[n].child[i]
      BY NodeTypes
    <2>1. Total(f, {v}) # 0
      <3>1. n \in DOMAIN f /\ i \in 1 .. Len(f[n]) /\ f[n][i] = v
        BY <1>1
      <3>2. Total(f, {v}) = 0 => f[n][i] # v
        BY <1>1, <3>1, TotalNone DEF Absent
      <3>3. QED
        BY <3>1, <3>2
    <2>2. QED
      BY <1>2, <2>1
  <1>4. ASSUME NEW v \in DOMAIN h \ {r}
        PROVE  \E m \in DOMAIN h : \E j \in 1 .. Len(h[m].child) : Only(h, v, m, j)
    <2>1. Total(f, {v}) = 1
      BY <1>2 DEF HeapType
    <2>2. PICK m, j : OnlyIn(f, v, m, j)
      BY <1>1, <2>1, TotalSingle
    <2>3. m \in DOMAIN h /\ j \in 1 .. Len(h[m].child) /\ h[m].child[j] = v
      BY <1>1, <2>2 DEF OnlyIn
    <2>4. ASSUME NEW n \in DOMAIN h, NEW i \in 1 .. Len(h[n].child), h[n].child[i] = v
          PROVE  n = m /\ i = j
      <3>1. n \in DOMAIN f /\ i \in 1 .. Len(f[n]) /\ f[n][i] = v
        BY <1>1, <2>4
      <3>2. QED
        BY <2>2, <3>1 DEF OnlyIn
    <2>5. QED
      BY <2>3, <2>4 DEF Only
  <1>5. ASSUME NEW m \in DOMAIN h, NEW n \in DOMAIN h, NEW i \in 1 .. Len(h[m].child),
               NEW j \in 1 .. Len(h[n].child), h[m].child[i] = h[n].child[j]
        PROVE  m = n /\ i = j
    <2> PICK v \in DOMAIN h \ {r} : v = h[m].child[i]
      BY <1>3
    <2>0. PICK p \in DOMAIN h : \E k \in 1 .. Len(h[p].child) : Only(h, v, p, k)
      BY <1>4
    <2>1. PICK k \in 1 .. Len(h[p].child) : Only(h, v, p, k)
      BY <2>0
    <2>2. QED
      BY <1>5, <2>1 DEF Only
  <1>6. \A v \in DOMAIN h \ {r} :
           \E n \in DOMAIN h : \E i \in 1 .. Len(h[n].child) : h[n].child[i] = v
    BY <1>4 DEF Only
  <1>7. QED
    BY <1>3, <1>5, <1>6 DEF Inside, Once, Hangs

----------------------------------------------------------------------------
(* A node and its two halves                                                *)

(* w is the first a of s, m, and the first b of t; without m, of a and b.   *)
Pieces(w, s, a, m, t, b) ==
  /\ \A i \in 1 .. a : w[i] = s[i]
  /\ w[a + 1] = m
  /\ \A i \in 1 .. b : w[a + 1 + i] = t[i]
Ends(w, s, a, t, b) ==
  /\ \A i \in 1 .. a : w[i] = s[i]
  /\ \A i \in 1 .. b : w[a + i] = t[i]

Pieced(w, s, m, t) == Len(w) = Len(s) + 1 + Len(t) /\ Pieces(w, s, Len(s), m, t, Len(t))
Ended(w, s, t) == Len(w) = Len(s) + Len(t) /\ Ends(w, s, Len(s), t, Len(t))

LEMMA PiecesOfJoined ==
  ASSUME NEW w, NEW s, NEW m, NEW t, Len(s) \in Nat, Len(t) \in Nat, Joined(w, s, m, t)
  PROVE  Pieced(w, s, m, t)
  <1> PICK a \in Nat : a = Len(s)
    OBVIOUS
  <1> PICK b \in Nat : b = Len(t)
    OBVIOUS
  <1>1. Len(w) = a + 1 + b /\ \A i \in 1 .. a + 1 + b :
          w[i] = IF i <= a THEN s[i] ELSE IF i = a + 1 THEN m ELSE t[i - a - 1]
    BY DEF Joined
  <1>2. \A i \in 1 .. a : w[i] = s[i]
    BY <1>1
  <1>3. w[a + 1] = m
    BY <1>1
  <1>4. ASSUME NEW i \in 1 .. b PROVE w[a + 1 + i] = t[i]
    <2>1. a + 1 + i \in 1 .. a + 1 + b /\ ~(a + 1 + i <= a) /\ a + 1 + i # a + 1
          /\ (a + 1 + i) - a - 1 = i
      OBVIOUS
    <2>2. QED
      BY <1>1, <2>1
  <1>5. QED
    BY <1>1, <1>2, <1>3, <1>4 DEF Pieces, Pieced

LEMMA EndsOfCat ==
  ASSUME NEW w, NEW s, NEW t, Len(s) \in Nat, Len(t) \in Nat, Cat(w, s, t)
  PROVE  Ended(w, s, t)
  <1> PICK a \in Nat : a = Len(s)
    OBVIOUS
  <1> PICK b \in Nat : b = Len(t)
    OBVIOUS
  <1>1. Len(w) = a + b /\ \A i \in 1 .. a + b : w[i] = IF i <= a THEN s[i] ELSE t[i - a]
    BY DEF Cat
  <1>2. \A i \in 1 .. a : w[i] = s[i]
    BY <1>1
  <1>3. ASSUME NEW i \in 1 .. b PROVE w[a + i] = t[i]
    <2>1. a + i \in 1 .. a + b /\ ~(a + i <= a) /\ (a + i) - a = i
      OBVIOUS
    <2>2. QED
      BY <1>1, <2>1
  <1>4. QED
    BY <1>1, <1>2, <1>3 DEF Ends, Ended

Fits(a, b, c, d) == (c = 0 /\ d = 0) \/ (c = a + 1 /\ d = b + 1)

(* A sequence of keys and children in order has its two halves in order.    *)
LEMMA SeqHalves ==
  ASSUME NEW a \in Nat, NEW b \in Nat, NEW c \in Nat, NEW d \in Nat, NEW m \in Int,
         NEW wk, NEW lk, NEW uk, NEW wc, NEW lc, NEW uc, NEW K, Fits(a, b, c, d),
         Pieces(wk, lk, a, m, uk, b), Ends(wc, lc, c, uc, d),
         Ints(wk, a + 1 + b), IntSets(wc, c + d, K), Up(wk, a + 1 + b), Apart(wk, a + 1 + b, wc, c + d, K)
  PROVE  /\ Up(lk, a) /\ Up(uk, b) /\ Apart(lk, a, lc, c, K) /\ Apart(uk, b, uc, d, K)
         /\ KeysUpto(lk, a, m) /\ KidsUpto(lc, c, K, m)
         /\ KeysFrom(uk, b, m) /\ KidsFrom(uc, d, K, m)
  <1>1. /\ \A i \in 1 .. a : i \in 1 .. a + 1 + b /\ wk[i] = lk[i] /\ lk[i] \in Int
        /\ a + 1 \in 1 .. a + 1 + b /\ wk[a + 1] = m
    BY DEF Pieces, Ints
  <1>2. \A i \in 1 .. b : a + 1 + i \in 1 .. a + 1 + b /\ wk[a + 1 + i] = uk[i] /\ uk[i] \in Int
    BY DEF Pieces, Ints
  <1>3. \A j \in 1 .. c : j \in 1 .. c + d /\ wc[j] = lc[j] /\ K[lc[j]] \subseteq Int
    BY DEF Ends, IntSets
  <1>4. \A j \in 1 .. d : c + j \in 1 .. c + d /\ wc[c + j] = uc[j] /\ K[uc[j]] \subseteq Int
    BY DEF Ends, IntSets
  <1>5. \A i, j \in 1 .. a + 1 + b : i <= j => wk[i] <= wk[j]
    BY DEF Up
  <1>6. \A i \in 1 .. a + 1 + b, j \in 1 .. c + d : \A v \in K[wc[j]] :
          IF j <= i THEN v <= wk[i] ELSE wk[i] <= v
    BY DEF Apart
  <1>7. Up(lk, a)
    BY <1>1, <1>5 DEF Up
  <1>8. Up(uk, b)
    <2>1. ASSUME NEW i \in 1 .. b, NEW j \in 1 .. b, i <= j PROVE uk[i] <= uk[j]
      <3>1. a + 1 + i <= a + 1 + j
        BY <2>1
      <3>2. QED
        BY <1>2, <1>5, <3>1
    <2>2. QED
      BY <2>1 DEF Up
  <1>9. Apart(lk, a, lc, c, K)
    BY <1>1, <1>3, <1>6 DEF Apart
  <1>10. Apart(uk, b, uc, d, K)
    <2>1. ASSUME NEW i \in 1 .. b, NEW j \in 1 .. d, NEW v \in K[uc[j]]
          PROVE  IF j <= i THEN v <= uk[i] ELSE uk[i] <= v
      <3>1. c = a + 1
        BY DEF Fits
      <3>2. c + j <= a + 1 + i <=> j <= i
        BY <3>1
      <3>3. v \in K[wc[c + j]]
        BY <1>4
      <3>4. IF c + j <= a + 1 + i THEN v <= wk[a + 1 + i] ELSE wk[a + 1 + i] <= v
        BY <1>2, <1>4, <1>6, <3>3
      <3>5. QED
        BY <1>2, <3>2, <3>4
    <2>2. QED
      BY <2>1 DEF Apart
  <1>11. KeysUpto(lk, a, m) /\ KidsUpto(lc, c, K, m)
    <2>1. ASSUME NEW i \in 1 .. a PROVE lk[i] <= m
      BY <1>1, <1>5
    <2>2. ASSUME NEW j \in 1 .. c, NEW v \in K[lc[j]] PROVE v <= m
      <3>1. j <= a + 1
        BY DEF Fits
      <3>2. v \in K[wc[j]]
        BY <1>3
      <3>3. QED
        BY <1>1, <1>3, <1>6, <3>1, <3>2
    <2>3. QED
      BY <2>1, <2>2 DEF KeysUpto, KidsUpto
  <1>12. KeysFrom(uk, b, m) /\ KidsFrom(uc, d, K, m)
    <2>1. ASSUME NEW i \in 1 .. b PROVE m <= uk[i]
      <3>1. a + 1 <= a + 1 + i
        OBVIOUS
      <3>2. QED
        BY <1>1, <1>2, <1>5, <3>1
    <2>2. ASSUME NEW j \in 1 .. d, NEW v \in K[uc[j]] PROVE m <= v
      <3>1. ~(c + j <= a + 1)
        BY DEF Fits
      <3>2. v \in K[wc[c + j]]
        BY <1>4
      <3>3. QED
        BY <1>1, <1>4, <1>6, <3>1, <3>2
    <2>3. QED
      BY <2>1, <2>2 DEF KeysFrom, KidsFrom
  <1>13. QED
    BY <1>7, <1>8, <1>9, <1>10, <1>11, <1>12

(* Two halves in order, and the key between them, make one in order.        *)
LEMMA SeqWhole ==
  ASSUME NEW a \in Nat, NEW b \in Nat, NEW c \in Nat, NEW d \in Nat, NEW m \in Int,
         NEW wk, NEW lk, NEW uk, NEW wc, NEW lc, NEW uc, NEW K, Fits(a, b, c, d),
         Pieces(wk, lk, a, m, uk, b), Ends(wc, lc, c, uc, d),
         Ints(lk, a), Ints(uk, b), IntSets(lc, c, K), IntSets(uc, d, K),
         Up(lk, a), Up(uk, b), Apart(lk, a, lc, c, K), Apart(uk, b, uc, d, K),
         KeysUpto(lk, a, m), KidsUpto(lc, c, K, m), KeysFrom(uk, b, m), KidsFrom(uc, d, K, m)
  PROVE  Up(wk, a + 1 + b) /\ Apart(wk, a + 1 + b, wc, c + d, K)
  <1>1. ASSUME NEW i \in 1 .. a + 1 + b
        PROVE  \/ i \in 1 .. a /\ wk[i] = lk[i] /\ lk[i] \in Int /\ lk[i] <= m
               \/ i = a + 1 /\ wk[i] = m
               \/ \E p \in 1 .. b : i = a + 1 + p /\ wk[i] = uk[p] /\ uk[p] \in Int /\ m <= uk[p]
    <2>1. CASE i <= a
      BY <2>1 DEF Pieces, Ints, KeysUpto
    <2>2. CASE i = a + 1
      BY <2>2 DEF Pieces
    <2>3. CASE i > a + 1
      <3>1. i - a - 1 \in 1 .. b /\ i = a + 1 + (i - a - 1)
        BY <2>3
      <3>2. QED
        BY <3>1 DEF Pieces, Ints, KeysFrom
    <2>4. QED
      BY <2>1, <2>2, <2>3
  <1>2. ASSUME NEW j \in 1 .. c + d, NEW v \in K[wc[j]]
        PROVE  /\ v \in Int
               /\ \/ j \in 1 .. c /\ v \in K[lc[j]] /\ v <= m
                  \/ \E p \in 1 .. d : j = c + p /\ v \in K[uc[p]] /\ m <= v
    <2>1. CASE j <= c
      BY <1>2, <2>1 DEF Ends, IntSets, KidsUpto
    <2>2. CASE j > c
      <3>1. j - c \in 1 .. d /\ j = c + (j - c)
        BY <2>2
      <3>2. QED
        BY <1>2, <3>1 DEF Ends, IntSets, KidsFrom
    <2>3. QED
      BY <2>1, <2>2
  <1>3. ASSUME NEW i \in 1 .. a + 1 + b, NEW j \in 1 .. a + 1 + b, i <= j PROVE wk[i] <= wk[j]
    <2>1. CASE j \in 1 .. a
      <3>1. i \in 1 .. a
        BY <1>3, <2>1
      <3>2. QED
        BY <1>3, <2>1, <3>1 DEF Up, Pieces
    <2>2. CASE i > a + 1
      <3>1. PICK p \in 1 .. b : i = a + 1 + p /\ wk[i] = uk[p]
        BY <1>1, <2>2
      <3>2. PICK q \in 1 .. b : j = a + 1 + q /\ wk[j] = uk[q]
        BY <1>1, <1>3, <2>2
      <3>3. p <= q
        BY <1>3, <3>1, <3>2
      <3>4. uk[p] <= uk[q]
        BY <3>3 DEF Up
      <3>5. QED
        BY <3>1, <3>2, <3>4
    <2>3. CASE i <= a + 1 /\ j >= a + 1
      <3>1. wk[i] <= m /\ wk[i] \in Int
        BY <1>1, <2>3
      <3>2. m <= wk[j] /\ wk[j] \in Int
        BY <1>1, <2>3
      <3>3. QED
        BY <3>1, <3>2
    <2>4. QED
      BY <1>3, <2>1, <2>2, <2>3
  <1>4. ASSUME NEW i \in 1 .. a + 1 + b, NEW j \in 1 .. c + d, NEW v \in K[wc[j]]
        PROVE  IF j <= i THEN v <= wk[i] ELSE wk[i] <= v
    <2>0. c = a + 1 /\ d = b + 1
      BY DEF Fits
    <2>1. CASE i <= a /\ j <= c
      <3>1. wk[i] = lk[i] /\ v \in K[lc[j]] /\ i \in 1 .. a /\ j \in 1 .. c
        BY <1>4, <2>1 DEF Pieces, Ends
      <3>2. QED
        BY <3>1 DEF Apart
    <2>2. CASE i > a + 1 /\ j > c
      <3>1. PICK p \in 1 .. b : i = a + 1 + p /\ wk[i] = uk[p]
        BY <1>1, <2>2
      <3>2. PICK q \in 1 .. d : j = c + q /\ v \in K[uc[q]]
        BY <1>2, <2>2
      <3>3. j <= i <=> q <= p
        BY <2>0, <3>1, <3>2
      <3>4. IF q <= p THEN v <= uk[p] ELSE uk[p] <= v
        BY <3>2 DEF Apart
      <3>5. QED
        BY <3>1, <3>3, <3>4
    <2>3. CASE i >= a + 1 /\ j <= c
      <3>1. v <= m /\ v \in Int
        BY <1>2, <2>3
      <3>2. m <= wk[i] /\ wk[i] \in Int
        BY <1>1, <2>3
      <3>3. v <= wk[i] /\ j <= i
        BY <2>0, <2>3, <3>1, <3>2
      <3>4. QED
        BY <3>3
    <2>4. CASE i <= a + 1 /\ j > c
      <3>1. m <= v /\ v \in Int
        BY <1>2, <2>4
      <3>2. wk[i] <= m /\ wk[i] \in Int
        BY <1>1, <2>4
      <3>3. wk[i] <= v /\ ~(j <= i)
        BY <2>0, <2>4, <3>1, <3>2
      <3>4. QED
        BY <3>3
    <2>5. QED
      BY <2>1, <2>2, <2>3, <2>4
  <1>5. QED
    BY <1>3, <1>4 DEF Up, Apart

(* The parent gains the key m at place i when its child there is divided.   *)
LEMMA ParentDivides ==
  ASSUME NEW a \in Nat, NEW i \in 1 .. a + 1, NEW hk, NEW gk, NEW hc, NEW gc, NEW H, NEW G,
         Ints(gk, a + 1), IntSets(hc, a + 1, H),
         \A j \in 1 .. a : hk[j] = IF j < i THEN gk[j] ELSE gk[j + 1],
         \A j \in 1 .. i - 1 : G[gc[j]] = H[hc[j]],
         \A j \in i + 1 .. a + 1 : G[gc[j + 1]] = H[hc[j]],
         gk[i] \in H[hc[i]],
         \A v \in G[gc[i]] : v \in H[hc[i]] /\ v <= gk[i],
         \A v \in G[gc[i + 1]] : v \in H[hc[i]] /\ gk[i] <= v,
         Up(hk, a), Apart(hk, a, hc, a + 1, H)
  PROVE  Up(gk, a + 1) /\ Apart(gk, a + 1, gc, a + 2, G)
  <1>1. \A j \in 1 .. a, q \in 1 .. a + 1 : \A v \in H[hc[q]] :
          IF q <= j THEN v <= hk[j] ELSE hk[j] <= v
    BY DEF Apart
  <1>2. ASSUME NEW j \in 1 .. a + 1, j # i
        PROVE  \E p \in 1 .. a : gk[j] = hk[p] /\ (j < i => p = j) /\ (j > i => p + 1 = j)
    <2>1. CASE j < i
      BY <2>1
    <2>2. CASE j > i
      <3>1. j - 1 \in 1 .. a /\ ~(j - 1 < i) /\ (j - 1) + 1 = j
        BY <2>2
      <3>2. QED
        BY <2>2, <3>1
    <2>3. QED
      BY <1>2, <2>1, <2>2
  <1>3. \A j \in 1 .. a + 1 : gk[j] \in Int
    BY DEF Ints
  <1>4. ASSUME NEW j \in 1 .. a + 2, NEW v \in G[gc[j]]
        PROVE  /\ v \in Int
               /\ \E q \in 1 .. a + 1 : /\ v \in H[hc[q]]
                                         /\ (j <= i => q = j) /\ (j > i => q + 1 = j)
    <2>1. CASE j <= i
      BY <1>4, <2>1 DEF IntSets
    <2>2. CASE j = i + 1
      BY <1>4, <2>2 DEF IntSets
    <2>3. CASE j > i + 1
      <3>1. j - 1 \in i + 1 .. a + 1 /\ (j - 1) + 1 = j /\ j - 1 \in 1 .. a + 1
        BY <2>3
      <3>2. v \in H[hc[j - 1]]
        BY <1>4, <3>1
      <3>3. QED
        BY <2>3, <3>1, <3>2 DEF IntSets
    <2>4. QED
      BY <2>1, <2>2, <2>3
  <1>5. ASSUME NEW j \in 1 .. a + 1, NEW q \in 1 .. a + 1, j <= q PROVE gk[j] <= gk[q]
    <2>1. CASE j # i /\ q # i
      <3>1. PICK p \in 1 .. a : gk[j] = hk[p] /\ (j < i => p = j) /\ (j > i => p + 1 = j)
        BY <1>2, <2>1
      <3>2. PICK o \in 1 .. a : gk[q] = hk[o] /\ (q < i => o = q) /\ (q > i => o + 1 = q)
        BY <1>2, <2>1
      <3>3. p <= o
        BY <1>5, <2>1, <3>1, <3>2
      <3>4. QED
        BY <3>1, <3>2, <3>3 DEF Up
    <2>2. CASE j # i /\ q = i
      <3>1. j \in 1 .. a /\ gk[j] = hk[j] /\ ~(i <= j) /\ j < i
        BY <1>5, <2>2
      <3>2. hk[j] <= gk[i]
        BY <1>1, <3>1
      <3>3. QED
        BY <2>2, <3>1, <3>2
    <2>3. CASE j = i /\ q # i
      <3>1. PICK o \in 1 .. a : gk[q] = hk[o] /\ i <= o
        BY <1>2, <1>5, <2>3
      <3>2. gk[i] <= hk[o]
        BY <1>1, <3>1
      <3>3. QED
        BY <2>3, <3>1, <3>2
    <2>4. CASE j = i /\ q = i
      BY <1>3, <2>4
    <2>5. QED
      BY <2>1, <2>2, <2>3, <2>4
  <1>6. ASSUME NEW j \in 1 .. a + 1, NEW q \in 1 .. a + 2, NEW v \in G[gc[q]]
        PROVE  IF q <= j THEN v <= gk[j] ELSE gk[j] <= v
    <2>1. PICK o \in 1 .. a + 1 : v \in H[hc[o]] /\ (q <= i => o = q) /\ (q > i => o + 1 = q)
      BY <1>4
    <2>2. CASE j # i
      <3>1. PICK p \in 1 .. a : gk[j] = hk[p] /\ (j < i => p = j) /\ (j > i => p + 1 = j)
        BY <1>2, <2>2
      <3>2. IF o <= p THEN v <= hk[p] ELSE hk[p] <= v
        BY <1>1, <2>1
      <3>3. (o <= p => q <= j) /\ (q <= j => o <= p)
        BY <2>1, <2>2, <3>1
      <3>4. QED
        BY <3>1, <3>2, <3>3
    <2>3. CASE j = i
      <3>1. CASE q = i
        BY <1>6, <2>3, <3>1
      <3>2. CASE q = i + 1
        BY <1>6, <2>3, <3>2
      <3>3. CASE q < i
        <4>1. q \in 1 .. i - 1 /\ i - 1 \in 1 .. a /\ q <= i - 1 /\ o = q
          BY <2>1, <3>3
        <4>2. v <= hk[i - 1]
          BY <1>1, <2>1, <4>1
        <4>3. gk[i - 1] = hk[i - 1] /\ gk[i - 1] <= gk[i] /\ gk[i - 1] \in Int /\ gk[i] \in Int /\ v \in Int
          BY <1>3, <1>4, <1>5, <4>1
        <4>4. v <= gk[i]
          BY <4>2, <4>3
        <4>5. QED
          BY <2>3, <3>3, <4>4
      <3>4. CASE q > i + 1
        <4>1. i \in 1 .. a /\ ~(o <= i)
          BY <2>1, <3>4
        <4>2. hk[i] <= v
          BY <1>1, <2>1, <4>1
        <4>3. gk[i + 1] = hk[i] /\ gk[i] <= gk[i + 1] /\ gk[i + 1] \in Int /\ gk[i] \in Int /\ v \in Int
          BY <1>3, <1>4, <1>5, <4>1
        <4>4. gk[i] <= v
          BY <4>2, <4>3
        <4>5. QED
          BY <2>3, <3>4, <4>4
      <3>5. QED
        BY <3>1, <3>2, <3>3, <3>4
    <2>4. QED
      BY <2>2, <2>3
  <1>7. QED
    BY <1>5, <1>6 DEF Up, Apart

LEMMA ParentJoins ==
  ASSUME NEW a \in Nat, NEW i \in 1 .. a + 1, NEW hk, NEW gk, NEW hc, NEW gc, NEW H, NEW G,
         Ints(gk, a + 1), IntSets(gc, a + 2, G),
         \A j \in 1 .. a : hk[j] = IF j < i THEN gk[j] ELSE gk[j + 1],
         \A j \in 1 .. i - 1 : G[gc[j]] = H[hc[j]],
         \A j \in i + 1 .. a + 1 : G[gc[j + 1]] = H[hc[j]],
         \A v \in H[hc[i]] : v \in G[gc[i]] \/ v = gk[i] \/ v \in G[gc[i + 1]],
         Up(gk, a + 1), Apart(gk, a + 1, gc, a + 2, G)
  PROVE  Up(hk, a) /\ Apart(hk, a, hc, a + 1, H)
  <1>1. \A j \in 1 .. a + 1, q \in 1 .. a + 2 : \A v \in G[gc[q]] :
          IF q <= j THEN v <= gk[j] ELSE gk[j] <= v
    BY DEF Apart
  <1>2. \A j, q \in 1 .. a + 1 : j <= q => gk[j] <= gk[q]
    BY DEF Up
  <1>3. ASSUME NEW j \in 1 .. a
        PROVE  \E p \in 1 .. a + 1 : hk[j] = gk[p] /\ p # i /\ (j < i => p = j) /\ (j >= i => p = j + 1)
    <2>1. CASE j < i
      BY <2>1
    <2>2. CASE j >= i
      BY <2>2
    <2>3. QED
      BY <2>1, <2>2
  <1>4. ASSUME NEW j \in 1 .. a, NEW q \in 1 .. a, j <= q PROVE hk[j] <= hk[q]
    <2>1. PICK p \in 1 .. a + 1 : hk[j] = gk[p] /\ p # i /\ (j < i => p = j) /\ (j >= i => p = j + 1)
      BY <1>3
    <2>2. PICK o \in 1 .. a + 1 : hk[q] = gk[o] /\ o # i /\ (q < i => o = q) /\ (q >= i => o = q + 1)
      BY <1>3
    <2>3. p <= o
      BY <1>4, <2>1, <2>2
    <2>4. QED
      BY <1>2, <2>1, <2>2, <2>3
  <1>5. ASSUME NEW j \in 1 .. a, NEW q \in 1 .. a + 1, NEW v \in H[hc[q]]
        PROVE  IF q <= j THEN v <= hk[j] ELSE hk[j] <= v
    <2>1. PICK p \in 1 .. a + 1 : hk[j] = gk[p] /\ p # i /\ (j < i => p = j) /\ (j >= i => p = j + 1)
      BY <1>3
    <2>2. CASE v = gk[i] /\ q = i
      <3>1. (i <= p => gk[i] <= gk[p]) /\ (p <= i => gk[p] <= gk[i])
        BY <1>2
      <3>2. (q <= j => i <= p) /\ (~(q <= j) => p <= i)
        BY <2>1, <2>2
      <3>3. QED
        BY <2>1, <2>2, <3>1, <3>2
    <2>3. CASE \E o \in 1 .. a + 2 : v \in G[gc[o]] /\ (q < i => o = q) /\ (q > i => o = q + 1)
                                      /\ (q = i => o = i \/ o = i + 1)
      <3>1. PICK o \in 1 .. a + 2 : v \in G[gc[o]] /\ (q < i => o = q) /\ (q > i => o = q + 1)
                                      /\ (q = i => o = i \/ o = i + 1)
        BY <2>3
      <3>2. IF o <= p THEN v <= gk[p] ELSE gk[p] <= v
        BY <1>1, <3>1
      <3>3. (q <= j => o <= p) /\ (~(q <= j) => ~(o <= p))
        BY <2>1, <3>1
      <3>4. QED
        BY <2>1, <3>2, <3>3
    <2>4. CASE q < i
      <3>1. v \in G[gc[q]] /\ q \in 1 .. a + 2 /\ ~(q > i) /\ ~(q = i)
        BY <1>5, <2>4
      <3>2. QED
        BY <2>3, <3>1
    <2>5. CASE q > i
      <3>1. v \in G[gc[q + 1]] /\ q + 1 \in 1 .. a + 2 /\ ~(q < i) /\ ~(q = i)
        BY <1>5, <2>5
      <3>2. QED
        BY <2>3, <3>1
    <2>6. CASE q = i
      <3>1. v \in G[gc[i]] \/ v = gk[i] \/ v \in G[gc[i + 1]]
        BY <1>5, <2>6
      <3>2. i \in 1 .. a + 2 /\ i + 1 \in 1 .. a + 2 /\ ~(q < i) /\ ~(q > i)
        BY <2>6
      <3>3. QED
        BY <2>2, <2>3, <2>6, <3>1, <3>2
    <2>7. QED
      BY <2>4, <2>5, <2>6
  <1>6. QED
    BY <1>4, <1>5 DEF Up, Apart

----------------------------------------------------------------------------
(* Dividing a node                                                          *)

(* g is h with y divided: z is new and has the upper part of y, and x, the  *)
(* parent, has the key from between the two at place i.                     *)
Divided(h, g, x, y, z, i) ==
  /\ HeapType(h) /\ HeapType(g) /\ Shaped(h) /\ Shaped(g)
  /\ x \in DOMAIN h /\ y \in DOMAIN h /\ x # y /\ z \in Nodes \ DOMAIN h
  /\ DOMAIN g = DOMAIN h \cup {z} /\ SameOn(h, g, DOMAIN h \ {x, y})
  /\ ~h[x].leaf /\ ~g[x].leaf /\ (g[y].leaf <=> h[y].leaf) /\ (g[z].leaf <=> h[y].leaf)
  /\ i \in 1 .. Len(h[x].key) + 1
  /\ h[x].child[i] = y /\ g[x].child[i] = y /\ g[x].child[i + 1] = z
  /\ Without(h[x].key, g[x].key, i)
  /\ Without(h[x].child, g[x].child, i + 1)
  /\ Joined(h[y].key, g[y].key, g[x].key[i], g[z].key)
  /\ Cat(h[y].child, g[y].child, g[z].child)

(* No key comes or goes, and z is the one new child.                        *)
LEMMA DividedTotals ==
  ASSUME NEW h, NEW g, NEW x, NEW y, NEW z, NEW i, Divided(h, g, x, y, z, i), NEW V
  PROVE  /\ Total(KeysOf(g), V) = Total(KeysOf(h), V)
         /\ Total(KidsOf(g), V) = Total(KidsOf(h), V) + One(z, V)
  <1>1. HeapType(h) /\ HeapType(g) /\ x \in DOMAIN h /\ y \in DOMAIN h /\ x # y
        /\ z \notin DOMAIN h /\ DOMAIN g = DOMAIN h \cup {z}
    BY DEF Divided
  <1>2. \A n \in DOMAIN h : Len(h[n].key) \in Nat /\ Len(h[n].child) \in Nat
    BY <1>1, NodeTypes
  <1>3. \A n \in DOMAIN g : Len(g[n].key) \in Nat /\ Len(g[n].child) \in Nat
    BY <1>1, NodeTypes
  <1> PICK m : m = g[x].key[i]
    OBVIOUS
  <1>4. CountIn(g[x].key, V) = CountIn(h[x].key, V) + One(m, V)
    <2>1. Without(h[x].key, g[x].key, i) /\ Len(h[x].key) \in Nat
      BY <1>1, <1>2 DEF Divided
    <2>2. QED
      BY <2>1, CountWithout
  <1>5. CountIn(h[y].key, V) = CountIn(g[y].key, V) + CountIn(g[z].key, V) + One(m, V)
    <2>1. Joined(h[y].key, g[y].key, m, g[z].key) /\ Len(g[y].key) \in Nat /\ Len(g[z].key) \in Nat
      BY <1>1, <1>3 DEF Divided
    <2>2. QED
      BY <2>1, CountJoined
  <1>6. CountIn(g[x].child, V) = CountIn(h[x].child, V) + One(z, V)
    <2>1. Without(h[x].child, g[x].child, i + 1) /\ Len(h[x].child) \in Nat /\ g[x].child[i + 1] = z
      BY <1>1, <1>2 DEF Divided
    <2>2. QED
      BY <2>1, CountWithout
  <1>7. CountIn(h[y].child, V) = CountIn(g[y].child, V) + CountIn(g[z].child, V)
    <2>1. Cat(h[y].child, g[y].child, g[z].child) /\ Len(g[y].child) \in Nat /\ Len(g[z].child) \in Nat
      BY <1>1, <1>3 DEF Divided
    <2>2. QED
      BY <2>1, CountCat
  <1>8. SameOn(KeysOf(h), KeysOf(g), DOMAIN h \ {x, y}) /\ SameOn(KidsOf(h), KidsOf(g), DOMAIN h \ {x, y})
    BY <1>1 DEF Divided, SameOn, KeysOf, KidsOf
  <1>9. /\ CountIn(h[x].key, V) \in Int /\ CountIn(g[y].key, V) \in Int /\ CountIn(g[z].key, V) \in Int
        /\ CountIn(h[x].child, V) \in Int /\ CountIn(g[y].child, V) \in Int /\ CountIn(g[z].child, V) \in Int
        /\ One(m, V) \in Int /\ One(z, V) \in Int
    BY <1>1, <1>2, <1>3, CountType DEF One
  <1>10. Total(KeysOf(h), V) \in Int /\ Total(KidsOf(h), V) \in Int
    BY <1>1, HeapLists, TotalType
  <1>11. Total(KeysOf(g), V) = Total(KeysOf(h), V) - CountIn(h[x].key, V) - CountIn(h[y].key, V)
                     + CountIn(g[x].key, V) + CountIn(g[y].key, V) + CountIn(g[z].key, V)
    <2> PICK f : f = KeysOf(h)
      OBVIOUS
    <2> PICK e : e = KeysOf(g)
      OBVIOUS
    <2>1. /\ Lists(f) /\ Lists(e) /\ DOMAIN f = DOMAIN h /\ DOMAIN e = DOMAIN f \cup {z}
          /\ f[x] = h[x].key /\ f[y] = h[y].key /\ e[x] = g[x].key /\ e[y] = g[y].key /\ e[z] = g[z].key
      BY <1>1, HeapLists
    <2>2. SameOn(f, e, DOMAIN f \ {x, y})
      BY <1>8, <2>1
    <2>3. x \in DOMAIN f /\ y \in DOMAIN f /\ z \notin DOMAIN f
      BY <1>1, <2>1
    <2>4. Total(e, V) = Total(f, V) - CountIn(f[x], V) - CountIn(f[y], V)
                                   + CountIn(e[x], V) + CountIn(e[y], V) + CountIn(e[z], V)
      BY <1>1, <2>1, <2>2, <2>3, TotalThree
    <2>5. QED
      BY <2>1, <2>4
  <1>12. Total(KidsOf(g), V) = Total(KidsOf(h), V) - CountIn(h[x].child, V) - CountIn(h[y].child, V)
                     + CountIn(g[x].child, V) + CountIn(g[y].child, V) + CountIn(g[z].child, V)
    <2> PICK f : f = KidsOf(h)
      OBVIOUS
    <2> PICK e : e = KidsOf(g)
      OBVIOUS
    <2>1. /\ Lists(f) /\ Lists(e) /\ DOMAIN f = DOMAIN h /\ DOMAIN e = DOMAIN f \cup {z}
          /\ f[x] = h[x].child /\ f[y] = h[y].child
          /\ e[x] = g[x].child /\ e[y] = g[y].child /\ e[z] = g[z].child
      BY <1>1, HeapLists
    <2>2. SameOn(f, e, DOMAIN f \ {x, y})
      BY <1>8, <2>1
    <2>3. x \in DOMAIN f /\ y \in DOMAIN f /\ z \notin DOMAIN f
      BY <1>1, <2>1
    <2>4. Total(e, V) = Total(f, V) - CountIn(f[x], V) - CountIn(f[y], V)
                                   + CountIn(e[x], V) + CountIn(e[y], V) + CountIn(e[z], V)
      BY <1>1, <2>1, <2>2, <2>3, TotalThree
    <2>5. QED
      BY <2>1, <2>4
  <1>13. \A s, u, v, w, p, q \in Int : s - u - (v + w + p) + (u + p) + v + w = s
                                    /\ s - u - (v + w) + (u + q) + v + w = s + q
    OBVIOUS
  <1>14. QED
    BY <1>4, <1>5, <1>6, <1>7, <1>9, <1>10, <1>11, <1>12, <1>13

(* Dividing a node keeps every node a child once.                           *)
LEMMA DividedWired ==
  ASSUME NEW h, NEW g, NEW x, NEW y, NEW z, NEW i, Divided(h, g, x, y, z, i), NEW r
  PROVE  Wired(h, r) <=> Wired(g, r)
  <1>1. HeapType(h) /\ HeapType(g) /\ x \in DOMAIN h /\ z \in Nodes /\ z \notin DOMAIN h
        /\ DOMAIN g = DOMAIN h \cup {z} /\ g[x].child[i + 1] = z
    BY DEF Divided
  <1>0. \A v : Total(KidsOf(g), {v}) \in Int /\ Total(KidsOf(h), {v}) \in Int
    BY <1>1, HeapLists, TotalType
  <1>2. /\ Total(KidsOf(g), {z}) = Total(KidsOf(h), {z}) + 1
        /\ \A v : v # z => Total(KidsOf(g), {v}) = Total(KidsOf(h), {v})
    <2>1. One(z, {z}) = 1 /\ \A v : v # z => One(z, {v}) = 0
      BY DEF One
    <2>2. \A V : Total(KidsOf(g), V) = Total(KidsOf(h), V) + One(z, V)
      BY DividedTotals
    <2>3. ASSUME NEW v, v # z PROVE Total(KidsOf(g), {v}) = Total(KidsOf(h), {v})
      <3>1. Total(KidsOf(g), {v}) = Total(KidsOf(h), {v}) + 0
        BY <2>1, <2>2, <2>3
      <3>2. Total(KidsOf(h), {v}) \in Int
        BY <1>0
      <3>3. QED
        BY <3>1, <3>2
    <2>4. QED
      BY <2>1, <2>2, <2>3
  <1>4. ASSUME Wired(h, r) PROVE Wired(g, r)
    <2>1. r \in DOMAIN h /\ \A v \in Nodes : Total(KidsOf(h), {v}) = IF v \in DOMAIN h \ {r} THEN 1 ELSE 0
      BY <1>4 DEF Wired
    <2>2. ASSUME NEW v \in Nodes
          PROVE  Total(KidsOf(g), {v}) = IF v \in DOMAIN g \ {r} THEN 1 ELSE 0
      <3>1. CASE v = z
        <4>1. Total(KidsOf(h), {v}) = 0 /\ v \in DOMAIN g \ {r}
          BY <1>1, <2>1, <3>1
        <4>2. Total(KidsOf(g), {v}) = Total(KidsOf(h), {v}) + 1
          BY <1>2, <3>1
        <4>3. QED
          BY <4>1, <4>2
      <3>2. CASE v # z
        <4>1. Total(KidsOf(g), {v}) = Total(KidsOf(h), {v})
          BY <1>2, <3>2
        <4>2. QED
          BY <1>1, <2>1, <3>2, <4>1
      <3>3. QED
        BY <3>1, <3>2
    <2>3. QED
      BY <1>1, <2>1, <2>2 DEF Wired
  <1>5. ASSUME Wired(g, r) PROVE Wired(h, r)
    <2>1. r \in DOMAIN g /\ \A v \in Nodes : Total(KidsOf(g), {v}) = IF v \in DOMAIN g \ {r} THEN 1 ELSE 0
      BY <1>5 DEF Wired
    <2>2. z # r
      <3>1. i + 1 \in 1 .. Len(g[x].child)
        BY DEF Divided, Without
      <3>2. QED
        BY <1>1, <1>5, <3>1, WiredSays DEF Inside
    <2>3. ASSUME NEW v \in Nodes
          PROVE  Total(KidsOf(h), {v}) = IF v \in DOMAIN h \ {r} THEN 1 ELSE 0
      <3>1. CASE v = z
        <4>1. Total(KidsOf(g), {v}) = 1
          BY <1>1, <2>1, <2>2, <3>1
        <4>2. Total(KidsOf(g), {v}) = Total(KidsOf(h), {v}) + 1
          BY <1>2, <3>1
        <4>3. Total(KidsOf(h), {v}) = 0
          <5>1. \A a, b \in Int : a = 1 /\ a = b + 1 => b = 0
            OBVIOUS
          <5>2. Total(KidsOf(g), {v}) \in Int /\ Total(KidsOf(h), {v}) \in Int
            BY <1>0
          <5>3. QED
            BY <4>1, <4>2, <5>1, <5>2
        <4>4. QED
          BY <1>1, <3>1, <4>3
      <3>2. CASE v # z
        <4>1. Total(KidsOf(g), {v}) = Total(KidsOf(h), {v})
          BY <1>2, <3>2
        <4>2. QED
          BY <1>1, <2>1, <3>2, <4>1
      <3>3. QED
        BY <3>1, <3>2
    <2>4. QED
      BY <1>1, <2>1, <2>2, <2>3 DEF Wired
  <1>6. QED
    BY <1>4, <1>5

LEMMA ElementsOfEnds ==
  ASSUME NEW w, NEW s, NEW t, Len(s) \in Nat, Len(t) \in Nat, Ended(w, s, t)
  PROVE  Elements(w) = Elements(s) \cup Elements(t)
  <1> PICK c \in Nat : c = Len(s)
    OBVIOUS
  <1> PICK d \in Nat : d = Len(t)
    OBVIOUS
  <1>0. Len(w) = c + d /\ Ends(w, s, c, t, d)
    BY DEF Ended
  <1>1. ASSUME NEW j \in 1 .. c + d
        PROVE  (\E q \in 1 .. c : w[j] = s[q]) \/ (\E q \in 1 .. d : w[j] = t[q])
    <2>1. CASE j <= c
      BY <1>0, <2>1 DEF Ends
    <2>2. CASE j > c
      <3>1. j - c \in 1 .. d /\ j = c + (j - c)
        BY <2>2
      <3>2. QED
        BY <1>0, <3>1 DEF Ends
    <2>3. QED
      BY <2>1, <2>2
  <1>2. \A j \in 1 .. c : j \in 1 .. c + d /\ w[j] = s[j]
    BY <1>0 DEF Ends
  <1>3. \A j \in 1 .. d : c + j \in 1 .. c + d /\ w[c + j] = t[j]
    BY <1>0 DEF Ends
  <1>4. ASSUME NEW v \in Elements(w) PROVE v \in Elements(s) \cup Elements(t)
    BY <1>0, <1>1 DEF Elements
  <1>5. ASSUME NEW v \in Elements(s) \cup Elements(t) PROVE v \in Elements(w)
    BY <1>0, <1>2, <1>3 DEF Elements
  <1>6. QED
    BY <1>4, <1>5

(* The keys hk and the children hc of the parent are those of gk and gc     *)
(* without the i-th key and the child behind it.                            *)
Inset(hk, gk, hc, gc, i, a) ==
  /\ Len(hk) = a /\ Len(gk) = a + 1 /\ Len(hc) = a + 1 /\ Len(gc) = a + 2
  /\ \A j \in 1 .. a : hk[j] = IF j < i THEN gk[j] ELSE gk[j + 1]
  /\ \A j \in 1 .. i : hc[j] = gc[j]
  /\ \A j \in i + 1 .. a + 1 : hc[j] = gc[j + 1]

LEMMA InsetOfWithout ==
  ASSUME NEW a \in Nat, NEW i \in 1 .. a + 1, NEW hk, NEW gk, NEW hc, NEW gc,
         Len(hk) = a, Len(hc) = a + 1, Without(hk, gk, i), Without(hc, gc, i + 1)
  PROVE  Inset(hk, gk, hc, gc, i, a)
  <1>1. \A j \in 1 .. a + 1 : hc[j] = IF j < i + 1 THEN gc[j] ELSE gc[j + 1]
    BY DEF Without
  <1>2. QED
    BY <1>1 DEF Without, Inset

LEMMA ElementsOfInset ==
  ASSUME NEW a \in Nat, NEW i \in 1 .. a + 1, NEW hk, NEW gk, NEW hc, NEW gc,
         Inset(hk, gk, hc, gc, i, a)
  PROVE  Elements(gc) = Elements(hc) \cup {gc[i + 1]} /\ hc[i] \in Elements(hc)
  <1>0. /\ Len(hc) = a + 1 /\ Len(gc) = a + 2
        /\ \A j \in 1 .. i : hc[j] = gc[j]
        /\ \A j \in i + 1 .. a + 1 : hc[j] = gc[j + 1]
    BY DEF Inset
  <1>1. ASSUME NEW j \in 1 .. a + 1 PROVE \E q \in 1 .. a + 2 : gc[q] = hc[j]
    <2>1. CASE j <= i
      BY <1>0, <2>1
    <2>2. CASE j > i
      BY <1>0, <2>2
    <2>3. QED
      BY <2>1, <2>2
  <1>2. ASSUME NEW j \in 1 .. a + 2, j # i + 1 PROVE \E q \in 1 .. a + 1 : hc[q] = gc[j]
    <2>1. CASE j <= i
      BY <1>0, <2>1
    <2>2. CASE j > i + 1
      <3>1. j - 1 \in i + 1 .. a + 1 /\ j - 1 \in 1 .. a + 1 /\ (j - 1) + 1 = j
        BY <2>2
      <3>2. QED
        BY <1>0, <3>1
    <2>3. QED
      BY <1>2, <2>1, <2>2
  <1>3. ASSUME NEW v \in Elements(gc) PROVE v \in Elements(hc) \cup {gc[i + 1]}
    BY <1>0, <1>2 DEF Elements
  <1>4. ASSUME NEW v \in Elements(hc) \cup {gc[i + 1]} PROVE v \in Elements(gc)
    <2>1. i + 1 \in 1 .. a + 2
      OBVIOUS
    <2>2. QED
      BY <1>0, <1>1, <2>1 DEF Elements
  <1>5. hc[i] \in Elements(hc)
    BY <1>0 DEF Elements
  <1>6. QED
    BY <1>3, <1>4, <1>5

Split(w, l, m, u) ==
  /\ Pieced(w.key, l.key, m, u.key) /\ Ended(w.child, l.child, u.child)
  /\ Fits(Len(l.key), Len(u.key), Len(l.child), Len(u.child))

(* The same, place by place.                                                *)
LEMMA DividedSays ==
  ASSUME NEW h, NEW g, NEW x, NEW y, NEW z, NEW i, Divided(h, g, x, y, z, i)
  PROVE  /\ \E a \in Nat : /\ i \in 1 .. a + 1
                           /\ Inset(h[x].key, g[x].key, h[x].child, g[x].child, i, a)
         /\ Split(h[y], g[y], g[x].key[i], g[z])
  <1>1. HeapType(h) /\ HeapType(g) /\ x \in DOMAIN h /\ y \in DOMAIN h /\ z \in DOMAIN g
        /\ x \in DOMAIN g /\ y \in DOMAIN g /\ ~h[x].leaf /\ ~g[x].leaf /\ Shaped(h) /\ Shaped(g)
    BY DEF Divided
  <1>2. Len(h[x].key) \in Nat
    BY <1>1, NodeTypes
  <1>3. Len(h[x].child) = Len(h[x].key) + 1
    BY <1>1 DEF Shaped, ShapedNode
  <1>4. /\ Len(g[y].key) \in Nat /\ Len(g[y].child) \in Nat
        /\ Len(g[z].key) \in Nat /\ Len(g[z].child) \in Nat
    BY <1>1, NodeTypes
  <1>5. /\ i \in 1 .. Len(h[x].key) + 1
        /\ Without(h[x].key, g[x].key, i) /\ Without(h[x].child, g[x].child, i + 1)
    BY DEF Divided
  <1>6. \E a \in Nat : /\ i \in 1 .. a + 1
                      /\ Inset(h[x].key, g[x].key, h[x].child, g[x].child, i, a)
    <2>1. PICK a \in Nat : a = Len(h[x].key)
      BY <1>2
    <2>2. i \in 1 .. a + 1 /\ Len(h[x].key) = a /\ Len(h[x].child) = a + 1
      BY <1>3, <1>5, <2>1
    <2>3. Inset(h[x].key, g[x].key, h[x].child, g[x].child, i, a)
      BY <1>5, <2>2, InsetOfWithout
    <2>4. QED
      BY <2>2, <2>3
  <1>7. Pieced(h[y].key, g[y].key, g[x].key[i], g[z].key)
    <2>1. Joined(h[y].key, g[y].key, g[x].key[i], g[z].key)
      BY DEF Divided
    <2>2. QED
      BY <1>4, <2>1, PiecesOfJoined
  <1>8. Ended(h[y].child, g[y].child, g[z].child)
    <2>1. Cat(h[y].child, g[y].child, g[z].child)
      BY DEF Divided
    <2>2. QED
      BY <1>4, <2>1, EndsOfCat
  <1>9. Fits(Len(g[y].key), Len(g[z].key), Len(g[y].child), Len(g[z].child))
    <2>1. (g[y].leaf <=> g[z].leaf) /\ ShapedNode(g[y]) /\ ShapedNode(g[z])
      BY <1>1 DEF Divided, Shaped
    <2>2. QED
      BY <2>1 DEF ShapedNode, Fits
  <1>10. QED
    BY <1>6, <1>7, <1>8, <1>9 DEF Split

LEMMA DividedKids ==
  ASSUME NEW h, NEW g, NEW x, NEW y, NEW z, NEW i, Divided(h, g, x, y, z, i)
  PROVE  /\ KidSet(g[x]) = KidSet(h[x]) \cup {z}
         /\ KidSet(h[y]) = KidSet(g[y]) \cup KidSet(g[z])
         /\ y \in KidSet(h[x]) /\ y \in KidSet(g[x])
  <1>1. PICK a \in Nat : i \in 1 .. a + 1 /\ Inset(h[x].key, g[x].key, h[x].child, g[x].child, i, a)
    BY DividedSays
  <1>2. h[x].child[i] = y /\ g[x].child[i + 1] = z /\ HeapType(g) /\ y \in DOMAIN g /\ z \in DOMAIN g
    BY DEF Divided
  <1>3. Elements(g[x].child) = Elements(h[x].child) \cup {g[x].child[i + 1]}
        /\ h[x].child[i] \in Elements(h[x].child)
    BY <1>1, ElementsOfInset
  <1>4. Len(g[y].child) \in Nat /\ Len(g[z].child) \in Nat
    BY <1>2, NodeTypes
  <1>5. Elements(h[y].child) = Elements(g[y].child) \cup Elements(g[z].child)
    BY <1>4, DividedSays, ElementsOfEnds DEF Split
  <1>6. QED
    BY <1>2, <1>3, <1>5 DEF KidSet

OneParent(h, r) ==
  /\ \A n \in DOMAIN h : KidSet(h[n]) \subseteq DOMAIN h \ {r}
  /\ \A m, n \in DOMAIN h : \A c \in KidSet(h[m]) : c \in KidSet(h[n]) => m = n
  /\ \A c \in DOMAIN h \ {r} : \E n \in DOMAIN h : c \in KidSet(h[n])

LEMMA WiredKids ==
  ASSUME NEW h, NEW r, HeapType(h), Wired(h, r)
  PROVE  OneParent(h, r)
  <1>1. Inside(h, r) /\ Once(h) /\ Hangs(h, r)
    BY WiredSays
  <1>2. \A n \in DOMAIN h : KidSet(h[n]) \subseteq DOMAIN h \ {r}
    BY <1>1 DEF Inside, KidSet, Elements
  <1>3. ASSUME NEW m \in DOMAIN h, NEW n \in DOMAIN h, NEW c \in KidSet(h[m]), c \in KidSet(h[n])
        PROVE  m = n
    <2>1. PICK i \in 1 .. Len(h[m].child) : c = h[m].child[i]
      BY DEF KidSet, Elements
    <2>2. PICK j \in 1 .. Len(h[n].child) : c = h[n].child[j]
      BY <1>3 DEF KidSet, Elements
    <2>3. QED
      BY <1>1, <2>1, <2>2 DEF Once
  <1>4. ASSUME NEW c \in DOMAIN h \ {r} PROVE \E n \in DOMAIN h : c \in KidSet(h[n])
    BY <1>1 DEF Hangs, KidSet, Elements
  <1>5. QED
    BY <1>2, <1>3, <1>4 DEF OneParent

(* The levels fit before and after.                                         *)
LEMMA LevelsDivide ==
  ASSUME NEW h, NEW g, NEW x, NEW y, NEW z, NEW i, Divided(h, g, x, y, z, i),
         NEW lev, Levelled(h, lev)
  PROVE  Levelled(g, [lev EXCEPT ![z] = lev[y]])
  <1>1. /\ x \in DOMAIN h /\ y \in DOMAIN h /\ x # y /\ z \in Nodes /\ z \notin DOMAIN h
        /\ DOMAIN g = DOMAIN h \cup {z} /\ DOMAIN h \subseteq Nodes
        /\ \A n \in DOMAIN h : n # x /\ n # y => g[n] = h[n]
        /\ ~h[x].leaf /\ ~g[x].leaf /\ (g[y].leaf <=> h[y].leaf) /\ (g[z].leaf <=> h[y].leaf)
    BY DEF Divided, SameOn, HeapType
  <1>2. /\ KidSet(g[x]) = KidSet(h[x]) \cup {z}
        /\ KidSet(h[y]) = KidSet(g[y]) \cup KidSet(g[z])
        /\ y \in KidSet(h[x])
    BY DividedKids
  <1>3. lev \in [Nodes -> Nat] /\ \A n \in DOMAIN h : LevelledNode(h[n], n, DOMAIN h, lev)
    BY DEF Levelled
  <1> PICK new : new = [lev EXCEPT ![z] = lev[y]]
    OBVIOUS
  <1>4. /\ new \in [Nodes -> Nat] /\ new[z] = lev[y] /\ \A n \in DOMAIN h : new[n] = lev[n]
    BY <1>1, <1>3
  <1>5. ASSUME NEW n \in DOMAIN g PROVE LevelledNode(g[n], n, DOMAIN g, new)
    <2>1. CASE n \notin {x, y, z}
      BY <1>1, <1>3, <1>4, <2>1 DEF LevelledNode
    <2>2. CASE n = x
      BY <1>1, <1>2, <1>3, <1>4, <2>2 DEF LevelledNode
    <2>3. CASE n = y
      BY <1>1, <1>2, <1>3, <1>4, <2>3 DEF LevelledNode
    <2>4. CASE n = z
      BY <1>1, <1>2, <1>3, <1>4, <2>4 DEF LevelledNode
    <2>5. QED
      BY <2>1, <2>2, <2>3, <2>4
  <1>6. QED
    BY <1>4, <1>5 DEF Levelled

LEMMA LevelsJoin ==
  ASSUME NEW h, NEW g, NEW x, NEW y, NEW z, NEW i, Divided(h, g, x, y, z, i),
         NEW lev, Levelled(g, lev), NEW r, Wired(h, r)
  PROVE  Levelled(h, lev) /\ lev[z] = lev[y]
  <1>1. /\ x \in DOMAIN h /\ y \in DOMAIN h /\ x # y /\ z \in Nodes /\ z \notin DOMAIN h
        /\ DOMAIN g = DOMAIN h \cup {z} /\ DOMAIN h \subseteq Nodes /\ HeapType(h)
        /\ \A n \in DOMAIN h : n # x /\ n # y => g[n] = h[n]
        /\ ~h[x].leaf /\ ~g[x].leaf /\ (g[y].leaf <=> h[y].leaf) /\ (g[z].leaf <=> h[y].leaf)
    BY DEF Divided, SameOn, HeapType
  <1>2. /\ KidSet(g[x]) = KidSet(h[x]) \cup {z}
        /\ KidSet(h[y]) = KidSet(g[y]) \cup KidSet(g[z])
        /\ y \in KidSet(h[x])
    BY DividedKids
  <1>3. lev \in [Nodes -> Nat] /\ \A n \in DOMAIN g : LevelledNode(g[n], n, DOMAIN g, lev)
    BY DEF Levelled
  <1>4. \A n \in DOMAIN h : KidSet(h[n]) \subseteq DOMAIN h
    BY <1>1, WiredKids DEF OneParent
  <1>5. lev[z] = lev[y] /\ lev[z] \in Nat /\ lev[y] \in Nat
    <2>1. lev[z] + 1 = lev[x] /\ lev[y] + 1 = lev[x]
      BY <1>1, <1>2, <1>3 DEF LevelledNode
    <2>2. lev[z] \in Nat /\ lev[y] \in Nat /\ lev[x] \in Nat
      BY <1>1, <1>3
    <2>3. QED
      BY <2>1, <2>2
  <1>6. ASSUME NEW n \in DOMAIN h PROVE LevelledNode(h[n], n, DOMAIN h, lev)
    <2>1. CASE n \notin {x, y}
      BY <1>1, <1>3, <1>4, <2>1 DEF LevelledNode
    <2>2. CASE n = x
      BY <1>1, <1>2, <1>3, <1>4, <2>2 DEF LevelledNode
    <2>3. CASE n = y
      <3>1. LevelledNode(g[y], y, DOMAIN g, lev) /\ LevelledNode(g[z], z, DOMAIN g, lev)
        BY <1>1, <1>3
      <3>2. ASSUME NEW c \in KidSet(h[y]) PROVE c \in DOMAIN h /\ lev[c] + 1 = lev[y]
        BY <1>1, <1>2, <1>4, <1>5, <3>1 DEF LevelledNode
      <3>3. QED
        BY <1>1, <2>3, <3>1, <3>2 DEF LevelledNode
    <2>4. QED
      BY <2>1, <2>2, <2>3
  <1>7. QED
    BY <1>3, <1>5, <1>6 DEF Levelled

(* A divided node leaves all leaves equally deep, and a joined one too.     *)
LEMMA FrameDivides ==
  ASSUME NEW h, NEW g, NEW x, NEW y, NEW z, NEW i, Divided(h, g, x, y, z, i),
         NEW r, NEW lev, Frame(h, r, lev)
  PROVE  Frame(g, r, [lev EXCEPT ![z] = lev[y]])
  <1>1. Wired(g, r)
    BY DividedWired DEF Frame
  <1>2. Levelled(g, [lev EXCEPT ![z] = lev[y]])
    BY LevelsDivide DEF Frame
  <1>3. HeapType(g) /\ Shaped(g)
    BY DEF Divided
  <1>4. QED
    BY <1>1, <1>2, <1>3 DEF Frame

LEMMA FrameJoins ==
  ASSUME NEW h, NEW g, NEW x, NEW y, NEW z, NEW i, Divided(h, g, x, y, z, i),
         NEW r, NEW lev, Frame(g, r, lev)
  PROVE  Frame(h, r, lev) /\ lev[z] = lev[y]
  <1>1. Wired(h, r)
    BY DividedWired DEF Frame
  <1>2. Levelled(h, lev) /\ lev[z] = lev[y]
    BY <1>1, LevelsJoin DEF Frame
  <1>3. HeapType(h) /\ Shaped(h)
    BY DEF Divided
  <1>4. QED
    BY <1>1, <1>2, <1>3 DEF Frame

(* The fences fit before and after: G[y] and G[z] are what H[y] has up to   *)
(* the key m and from it.                                                   *)
Moved(hc, gc, H, G, i, a) ==
  /\ \A j \in 1 .. i - 1 : G[gc[j]] = H[hc[j]]
  /\ \A j \in i + 1 .. a + 1 : G[gc[j + 1]] = H[hc[j]]
Halves(S, L, m, U) ==
  m \in S /\ (\A v \in L : v \in S /\ v <= m) /\ (\A v \in U : v \in S /\ m <= v)
Whole(S, L, m, U) == \A v \in S : v \in L \/ v = m \/ v \in U

LEMMA InsetDivides ==
  ASSUME NEW a \in Nat, NEW i \in 1 .. a + 1, NEW hk, NEW gk, NEW hc, NEW gc, NEW H, NEW G,
         Inset(hk, gk, hc, gc, i, a), Moved(hc, gc, H, G, i, a),
         Halves(H[hc[i]], G[gc[i]], gk[i], G[gc[i + 1]]),
         Ints(gk, a + 1), IntSets(hc, a + 1, H), Up(hk, a), Apart(hk, a, hc, a + 1, H)
  PROVE  Up(gk, a + 1) /\ Apart(gk, a + 1, gc, a + 2, G)
  <1>1. \A j \in 1 .. a : hk[j] = IF j < i THEN gk[j] ELSE gk[j + 1]
    BY DEF Inset
  <1>2. /\ \A j \in 1 .. i - 1 : G[gc[j]] = H[hc[j]]
        /\ \A j \in i + 1 .. a + 1 : G[gc[j + 1]] = H[hc[j]]
    BY DEF Moved
  <1>3. /\ gk[i] \in H[hc[i]]
        /\ \A v \in G[gc[i]] : v \in H[hc[i]] /\ v <= gk[i]
        /\ \A v \in G[gc[i + 1]] : v \in H[hc[i]] /\ gk[i] <= v
    BY DEF Halves
  <1>4. QED
    BY <1>1, <1>2, <1>3, ParentDivides

LEMMA InsetJoins ==
  ASSUME NEW a \in Nat, NEW i \in 1 .. a + 1, NEW hk, NEW gk, NEW hc, NEW gc, NEW H, NEW G,
         Inset(hk, gk, hc, gc, i, a), Moved(hc, gc, H, G, i, a),
         Whole(H[hc[i]], G[gc[i]], gk[i], G[gc[i + 1]]),
         Ints(gk, a + 1), IntSets(gc, a + 2, G), Up(gk, a + 1), Apart(gk, a + 1, gc, a + 2, G)
  PROVE  Up(hk, a) /\ Apart(hk, a, hc, a + 1, H)
  <1>1. \A j \in 1 .. a : hk[j] = IF j < i THEN gk[j] ELSE gk[j + 1]
    BY DEF Inset
  <1>2. /\ \A j \in 1 .. i - 1 : G[gc[j]] = H[hc[j]]
        /\ \A j \in i + 1 .. a + 1 : G[gc[j + 1]] = H[hc[j]]
    BY DEF Moved
  <1>3. \A v \in H[hc[i]] : v \in G[gc[i]] \/ v = gk[i] \/ v \in G[gc[i + 1]]
    BY DEF Whole
  <1>4. QED
    BY <1>1, <1>2, <1>3, ParentJoins

(* The children beside the divided one have the same sets.                  *)
LEMMA DividedMoved ==
  ASSUME NEW h, NEW g, NEW x, NEW y, NEW z, NEW i, Divided(h, g, x, y, z, i),
         NEW r, Wired(h, r), NEW H, NEW G, \A n \in DOMAIN h \ {y} : G[n] = H[n],
         NEW a \in Nat, i \in 1 .. a + 1, Inset(h[x].key, g[x].key, h[x].child, g[x].child, i, a)
  PROVE  Moved(h[x].child, g[x].child, H, G, i, a)
  <1>1. /\ HeapType(h) /\ x \in DOMAIN h /\ h[x].child[i] = y
    BY DEF Divided
  <1>2. Inside(h, r) /\ Once(h)
    BY <1>1, WiredSays
  <1>3. Len(h[x].child) = a + 1
    BY DEF Inset
  <1>4. ASSUME NEW j \in 1 .. a + 1, j # i PROVE h[x].child[j] \in DOMAIN h \ {y}
    <2>1. h[x].child[j] # h[x].child[i]
      BY <1>1, <1>2, <1>3, <1>4 DEF Once
    <2>2. h[x].child[j] \in DOMAIN h
      BY <1>1, <1>2, <1>3 DEF Inside
    <2>3. QED
      BY <1>1, <2>1, <2>2
  <1>5. ASSUME NEW j \in 1 .. i - 1 PROVE G[g[x].child[j]] = H[h[x].child[j]]
    <2>1. j \in 1 .. a + 1 /\ j # i /\ j \in 1 .. i
      OBVIOUS
    <2>2. h[x].child[j] = g[x].child[j]
      BY <2>1 DEF Inset
    <2>3. QED
      BY <1>4, <2>1, <2>2
  <1>6. ASSUME NEW j \in i + 1 .. a + 1 PROVE G[g[x].child[j + 1]] = H[h[x].child[j]]
    <2>1. j \in 1 .. a + 1 /\ j # i
      OBVIOUS
    <2>2. h[x].child[j] = g[x].child[j + 1]
      BY DEF Inset
    <2>3. QED
      BY <1>4, <2>1, <2>2
  <1>7. QED
    BY <1>5, <1>6 DEF Moved

LEMMA ApartSame ==
  ASSUME NEW k, NEW a, NEW c, NEW d, NEW H, NEW G, \A j \in 1 .. d : G[c[j]] = H[c[j]]
  PROVE  Apart(k, a, c, d, H) <=> Apart(k, a, c, d, G)
  BY DEF Apart

SameSets(x, H, G) == \A c \in KidSet(x) : G[c] = H[c]

LEMMA FencedSame ==
  ASSUME NEW x, NEW S, NEW H, NEW G, SameSets(x, H, G)
  PROVE  FencedNode(x, S, H) <=> FencedNode(x, S, G)
  <1>1. \A j \in 1 .. Len(x.child) : G[x.child[j]] = H[x.child[j]]
    BY DEF SameSets, KidSet, Elements
  <1>2. Beside(x, H) <=> Beside(x, G)
    BY <1>1, ApartSame DEF Beside
  <1>3. Holds(x, S, H) <=> Holds(x, S, G)
    BY DEF SameSets, Holds
  <1>4. QED
    BY <1>2, <1>3 DEF FencedNode

AllIn(s, n, S) == \A i \in 1 .. n : s[i] \in S

LEMMA PiecesIn ==
  ASSUME NEW a \in Nat, NEW b \in Nat, NEW w, NEW s, NEW m, NEW t, Pieces(w, s, a, m, t, b), NEW S
  PROVE  AllIn(w, a + 1 + b, S) <=> AllIn(s, a, S) /\ m \in S /\ AllIn(t, b, S)
  <1>1. ASSUME AllIn(w, a + 1 + b, S) PROVE AllIn(s, a, S) /\ m \in S /\ AllIn(t, b, S)
    <2>1. \A i \in 1 .. a : i \in 1 .. a + 1 + b /\ w[i] = s[i]
      BY DEF Pieces
    <2>2. \A i \in 1 .. b : a + 1 + i \in 1 .. a + 1 + b /\ w[a + 1 + i] = t[i]
      BY DEF Pieces
    <2>3. a + 1 \in 1 .. a + 1 + b /\ w[a + 1] = m
      BY DEF Pieces
    <2>4. QED
      BY <1>1, <2>1, <2>2, <2>3 DEF AllIn
  <1>2. ASSUME AllIn(s, a, S), m \in S, AllIn(t, b, S) PROVE AllIn(w, a + 1 + b, S)
    <2>1. ASSUME NEW i \in 1 .. a + 1 + b PROVE w[i] \in S
      <3>1. CASE i <= a
        BY <1>2, <3>1 DEF Pieces, AllIn
      <3>2. CASE i = a + 1
        BY <1>2, <3>2 DEF Pieces
      <3>3. CASE i > a + 1
        <4>1. i - a - 1 \in 1 .. b /\ i = a + 1 + (i - a - 1)
          BY <3>3
        <4>2. QED
          BY <1>2, <4>1 DEF Pieces, AllIn
      <3>4. QED
        BY <3>1, <3>2, <3>3
    <2>2. QED
      BY <2>1 DEF AllIn
  <1>3. QED
    BY <1>1, <1>2

Measured(x) == Len(x.key) \in Nat /\ Len(x.child) \in Nat

LEMMA HoldsInts ==
  ASSUME NEW x, NEW S, S \subseteq Int, NEW K, Holds(x, S, K)
  PROVE  Ints(x.key, Len(x.key)) /\ IntSets(x.child, Len(x.child), K)
  BY DEF Holds, Ints, IntSets, KidSet, Elements

LEMMA FenceHalves ==
  ASSUME NEW w, NEW l, NEW m, NEW u, NEW S, S \subseteq Int, NEW K, Split(w, l, m, u),
         Measured(l), Measured(u), FencedNode(w, S, K)
  PROVE  /\ m \in S
         /\ FencedNode(l, {v \in S : v <= m}, K)
         /\ FencedNode(u, {v \in S : m <= v}, K)
  <1> PICK a \in Nat : a = Len(l.key)
    BY DEF Measured
  <1> PICK b \in Nat : b = Len(u.key)
    BY DEF Measured
  <1> PICK c \in Nat : c = Len(l.child)
    BY DEF Measured
  <1> PICK d \in Nat : d = Len(u.child)
    BY DEF Measured
  <1>1. /\ Fits(a, b, c, d) /\ Len(w.key) = a + 1 + b /\ Len(w.child) = c + d
        /\ Pieces(w.key, l.key, a, m, u.key, b) /\ Ends(w.child, l.child, c, u.child, d)
    BY DEF Split, Pieced, Ended
  <1>2. /\ Ints(w.key, a + 1 + b) /\ IntSets(w.child, c + d, K)
        /\ Up(w.key, a + 1 + b) /\ Apart(w.key, a + 1 + b, w.child, c + d, K)
    BY <1>1, HoldsInts DEF FencedNode, Rising, Beside
  <1>3. m \in S
    <2>1. AllIn(w.key, a + 1 + b, S)
      BY <1>1 DEF FencedNode, Holds, AllIn
    <2>2. QED
      BY <1>1, <2>1, PiecesIn
  <1>4. /\ Up(l.key, a) /\ Up(u.key, b)
        /\ Apart(l.key, a, l.child, c, K) /\ Apart(u.key, b, u.child, d, K)
        /\ KeysUpto(l.key, a, m) /\ KidsUpto(l.child, c, K, m)
        /\ KeysFrom(u.key, b, m) /\ KidsFrom(u.child, d, K, m)
    <2>1. m \in Int
      BY <1>3
    <2>2. QED
      BY <1>1, <1>2, <2>1, SeqHalves
  <1>5. KidSet(w) = KidSet(l) \cup KidSet(u)
    BY ElementsOfEnds DEF KidSet, Split, Measured
  <1>6. /\ \A i \in 1 .. a : l.key[i] \in S
        /\ \A i \in 1 .. b : u.key[i] \in S
    <2>1. AllIn(w.key, a + 1 + b, S)
      BY <1>1 DEF FencedNode, Holds, AllIn
    <2>2. AllIn(l.key, a, S) /\ AllIn(u.key, b, S)
      BY <1>1, <2>1, PiecesIn
    <2>3. QED
      BY <2>2 DEF AllIn
  <1>7. Holds(l, {v \in S : v <= m}, K)
    <2>1. \A i \in 1 .. a : l.key[i] \in {v \in S : v <= m}
      BY <1>4, <1>6 DEF KeysUpto
    <2>2. ASSUME NEW k \in KidSet(l) PROVE K[k] \subseteq {v \in S : v <= m}
      <3>1. \A v \in K[k] : v <= m
        BY <1>4 DEF KidsUpto, KidSet, Elements
      <3>2. K[k] \subseteq S
        BY <1>5 DEF FencedNode, Holds
      <3>3. QED
        BY <3>1, <3>2
    <2>3. QED
      BY <2>1, <2>2 DEF Holds
  <1>8. Holds(u, {v \in S : m <= v}, K)
    <2>1. \A i \in 1 .. b : u.key[i] \in {v \in S : m <= v}
      BY <1>4, <1>6 DEF KeysFrom
    <2>2. ASSUME NEW k \in KidSet(u) PROVE K[k] \subseteq {v \in S : m <= v}
      <3>1. \A v \in K[k] : m <= v
        BY <1>4 DEF KidsFrom, KidSet, Elements
      <3>2. K[k] \subseteq S
        BY <1>5 DEF FencedNode, Holds
      <3>3. QED
        BY <3>1, <3>2
    <2>3. QED
      BY <2>1, <2>2 DEF Holds
  <1>9. QED
    BY <1>3, <1>4, <1>7, <1>8 DEF FencedNode, Rising, Beside

LEMMA FenceWhole ==
  ASSUME NEW w, NEW l, NEW m \in Int, NEW u, NEW L, NEW U, L \subseteq Int, U \subseteq Int, NEW K,
         Split(w, l, m, u), Measured(l), Measured(u), FencedNode(l, L, K), FencedNode(u, U, K),
         \A v \in L : v <= m, \A v \in U : m <= v
  PROVE  FencedNode(w, L \cup {m} \cup U, K)
  <1> PICK a \in Nat : a = Len(l.key)
    BY DEF Measured
  <1> PICK b \in Nat : b = Len(u.key)
    BY DEF Measured
  <1> PICK c \in Nat : c = Len(l.child)
    BY DEF Measured
  <1> PICK d \in Nat : d = Len(u.child)
    BY DEF Measured
  <1>1. /\ Fits(a, b, c, d) /\ Len(w.key) = a + 1 + b /\ Len(w.child) = c + d
        /\ Pieces(w.key, l.key, a, m, u.key, b) /\ Ends(w.child, l.child, c, u.child, d)
    BY DEF Split, Pieced, Ended
  <1>2. /\ Ints(l.key, a) /\ IntSets(l.child, c, K) /\ Ints(u.key, b) /\ IntSets(u.child, d, K)
        /\ Up(l.key, a) /\ Apart(l.key, a, l.child, c, K)
        /\ Up(u.key, b) /\ Apart(u.key, b, u.child, d, K)
    BY HoldsInts DEF FencedNode, Rising, Beside
  <1>3. /\ \A i \in 1 .. a : l.key[i] \in L
        /\ \A i \in 1 .. b : u.key[i] \in U
        /\ \A k \in KidSet(l) : K[k] \subseteq L
        /\ \A k \in KidSet(u) : K[k] \subseteq U
    BY DEF FencedNode, Holds
  <1>4. KeysUpto(l.key, a, m) /\ KidsUpto(l.child, c, K, m)
    <2>1. KeysUpto(l.key, a, m)
      BY <1>3 DEF KeysUpto
    <2>2. KidsUpto(l.child, c, K, m)
      BY <1>3 DEF KidsUpto, KidSet, Elements
    <2>3. QED
      BY <2>1, <2>2
  <1>5. KeysFrom(u.key, b, m) /\ KidsFrom(u.child, d, K, m)
    <2>1. KeysFrom(u.key, b, m)
      BY <1>3 DEF KeysFrom
    <2>2. KidsFrom(u.child, d, K, m)
      BY <1>3 DEF KidsFrom, KidSet, Elements
    <2>3. QED
      BY <2>1, <2>2
  <1>6. Up(w.key, a + 1 + b) /\ Apart(w.key, a + 1 + b, w.child, c + d, K)
    BY <1>1, <1>2, <1>4, <1>5, SeqWhole
  <1>7. KidSet(w) = KidSet(l) \cup KidSet(u)
    BY ElementsOfEnds DEF KidSet, Split, Measured
  <1>8. AllIn(w.key, a + 1 + b, L \cup {m} \cup U)
    <2>1. PICK R : R = L \cup {m} \cup U
      OBVIOUS
    <2>2. AllIn(l.key, a, R) /\ AllIn(u.key, b, R) /\ m \in R
      BY <1>3, <2>1 DEF AllIn
    <2>3. AllIn(w.key, a + 1 + b, R)
      BY <1>1, <2>2, PiecesIn
    <2>4. QED
      BY <2>1, <2>3
  <1>9. Holds(w, L \cup {m} \cup U, K)
    BY <1>1, <1>3, <1>7, <1>8 DEF Holds, AllIn
  <1>10. QED
    BY <1>1, <1>6, <1>9 DEF FencedNode, Rising, Beside

LEMMA InsetIn ==
  ASSUME NEW a \in Nat, NEW i \in 1 .. a + 1, NEW hk, NEW gk, NEW hc, NEW gc,
         Inset(hk, gk, hc, gc, i, a), NEW S
  PROVE  AllIn(gk, a + 1, S) <=> AllIn(hk, a, S) /\ gk[i] \in S
  <1>0. \A j \in 1 .. a : hk[j] = IF j < i THEN gk[j] ELSE gk[j + 1]
    BY DEF Inset
  <1>1. ASSUME AllIn(gk, a + 1, S) PROVE AllIn(hk, a, S) /\ gk[i] \in S
    BY <1>0, <1>1 DEF AllIn
  <1>2. ASSUME AllIn(hk, a, S), gk[i] \in S PROVE AllIn(gk, a + 1, S)
    <2>1. ASSUME NEW j \in 1 .. a + 1 PROVE gk[j] \in S
      <3>1. CASE j < i
        BY <1>0, <1>2, <3>1 DEF AllIn
      <3>2. CASE j = i
        BY <1>2, <3>2
      <3>3. CASE j > i
        <4>1. j - 1 \in 1 .. a /\ ~(j - 1 < i) /\ (j - 1) + 1 = j
          BY <3>3
        <4>2. QED
          BY <1>0, <1>2, <4>1 DEF AllIn
      <3>4. QED
        BY <3>1, <3>2, <3>3
    <2>2. QED
      BY <2>1 DEF AllIn
  <1>3. QED
    BY <1>1, <1>2

Cut(h, g, y, z, m, H, G) ==
  /\ \A n \in DOMAIN h \ {y} : G[n] = H[n]
  /\ G[y] = {v \in H[y] : v <= m} /\ G[z] = {v \in H[y] : m <= v}

(* A divided node leaves the keys in order.                                 *)
LEMMA FenceDivides ==
  ASSUME NEW h, NEW g, NEW x, NEW y, NEW z, NEW i, Divided(h, g, x, y, z, i),
         NEW r, Wired(h, r), NEW H, Fenced(h, H), NEW G \in [Nodes -> SUBSET Int],
         Cut(h, g, y, z, g[x].key[i], H, G)
  PROVE  Fenced(g, G)
  <1>0. /\ \A n \in DOMAIN h \ {y} : G[n] = H[n]
        /\ G[y] = {v \in H[y] : v <= g[x].key[i]} /\ G[z] = {v \in H[y] : g[x].key[i] <= v}
    BY DEF Cut
  <1>1. /\ x \in DOMAIN h /\ y \in DOMAIN h /\ x # y /\ z \in Nodes /\ z \notin DOMAIN h
        /\ DOMAIN g = DOMAIN h \cup {z} /\ DOMAIN h \subseteq Nodes /\ HeapType(h) /\ HeapType(g)
        /\ \A n \in DOMAIN h : n # x /\ n # y => g[n] = h[n]
        /\ h[x].child[i] = y /\ g[x].child[i] = y /\ g[x].child[i + 1] = z
    BY DEF Divided, SameOn, HeapType
  <1>2. /\ KidSet(g[x]) = KidSet(h[x]) \cup {z}
        /\ KidSet(h[y]) = KidSet(g[y]) \cup KidSet(g[z])
        /\ y \in KidSet(h[x])
    BY DividedKids
  <1>3. H \in [Nodes -> SUBSET Int] /\ \A n \in DOMAIN h : FencedNode(h[n], H[n], H)
    BY DEF Fenced
  <1>4. OneParent(h, r)
    BY <1>1, WiredKids
  <1>5. \A n \in DOMAIN h : n # x => \A c \in KidSet(h[n]) : c \in DOMAIN h \ {y}
    BY <1>1, <1>2, <1>4 DEF OneParent
  <1>6. Measured(g[y]) /\ Measured(g[z])
    BY <1>1, NodeTypes DEF Measured
  <1>7. /\ g[x].key[i] \in H[y]
        /\ FencedNode(g[y], {v \in H[y] : v <= g[x].key[i]}, H)
        /\ FencedNode(g[z], {v \in H[y] : g[x].key[i] <= v}, H)
    <2>1. Split(h[y], g[y], g[x].key[i], g[z])
      BY DividedSays
    <2>2. H[y] \subseteq Int /\ FencedNode(h[y], H[y], H)
      BY <1>1, <1>3
    <2>3. QED
      BY <1>6, <2>1, <2>2, FenceHalves, SMTT(40)
  <1>8. FencedNode(g[y], G[y], H) /\ FencedNode(g[z], G[z], H)
    BY <1>0, <1>7
  <1>9. SameSets(g[y], H, G) /\ SameSets(g[z], H, G)
    BY <1>0, <1>1, <1>2, <1>5 DEF SameSets
  <1>10. FencedNode(g[y], G[y], G) /\ FencedNode(g[z], G[z], G)
    BY <1>8, <1>9, FencedSame
  <1>11. ASSUME NEW n \in DOMAIN h, n # x, n # y PROVE FencedNode(g[n], G[n], G)
    <2>1. g[n] = h[n] /\ G[n] = H[n] /\ SameSets(h[n], H, G)
      BY <1>0, <1>1, <1>5, <1>11 DEF SameSets
    <2>2. FencedNode(h[n], H[n], H)
      BY <1>3
    <2>3. QED
      BY <2>1, <2>2, FencedSame
  <1>12. FencedNode(g[x], G[x], G)
    <2>1. PICK a \in Nat : i \in 1 .. a + 1 /\ Inset(h[x].key, g[x].key, h[x].child, g[x].child, i, a)
      BY DividedSays
    <2>2. Moved(h[x].child, g[x].child, H, G, i, a)
      BY <1>0, <2>1, DividedMoved
    <2>3. Halves(H[h[x].child[i]], G[g[x].child[i]], g[x].key[i], G[g[x].child[i + 1]])
      BY <1>0, <1>1, <1>7 DEF Halves
    <2>4. FencedNode(h[x], H[x], H) /\ H[x] \subseteq Int /\ G[x] = H[x]
      BY <1>0, <1>1, <1>3
    <2>5. /\ Len(h[x].key) = a /\ Len(h[x].child) = a + 1
          /\ Len(g[x].key) = a + 1 /\ Len(g[x].child) = a + 2
      BY <2>1 DEF Inset
    <2>6. Ints(g[x].key, a + 1)
      BY <1>1, <2>5, NodeTypes DEF Ints
    <2>7. IntSets(h[x].child, a + 1, H)
      BY <2>4, <2>5, HoldsInts DEF FencedNode
    <2>8. Up(h[x].key, a) /\ Apart(h[x].key, a, h[x].child, a + 1, H)
      BY <2>4, <2>5 DEF FencedNode, Rising, Beside
    <2>9. Up(g[x].key, a + 1) /\ Apart(g[x].key, a + 1, g[x].child, a + 2, G)
      BY <2>1, <2>2, <2>3, <2>6, <2>7, <2>8, InsetDivides
    <2>10. \A c \in KidSet(g[x]) : G[c] \subseteq H[x]
      <3>1. \A c \in KidSet(h[x]) : c \in DOMAIN h /\ H[c] \subseteq H[x]
        BY <1>1, <1>4, <2>4 DEF OneParent, FencedNode, Holds
      <3>2. G[y] \subseteq H[y] /\ G[z] \subseteq H[y]
        BY <1>0
      <3>3. QED
        BY <1>0, <1>2, <3>1, <3>2
    <2>11. AllIn(g[x].key, a + 1, H[x])
      <3>1. g[x].key[i] \in H[x]
        BY <1>2, <1>7, <2>4 DEF FencedNode, Holds
      <3>2. AllIn(h[x].key, a, H[x])
        BY <2>4, <2>5 DEF FencedNode, Holds, AllIn
      <3>3. AllIn(g[x].key, a + 1, H[x]) <=> AllIn(h[x].key, a, H[x]) /\ g[x].key[i] \in H[x]
        BY <2>1, InsetIn
      <3>4. QED
        BY <3>1, <3>2, <3>3
    <2>12. QED
      BY <2>4, <2>5, <2>9, <2>10, <2>11 DEF FencedNode, Rising, Beside, Holds, AllIn
  <1>13. QED
    BY <1>1, <1>10, <1>11, <1>12 DEF Fenced

(* So does a joined one.                                                    *)
LEMMA FenceJoins ==
  ASSUME NEW h, NEW g, NEW x, NEW y, NEW z, NEW i, Divided(h, g, x, y, z, i),
         NEW r, Wired(h, r), Wired(g, r), NEW G, Fenced(g, G), NEW H \in [Nodes -> SUBSET Int],
         \A n \in DOMAIN h \ {y} : G[n] = H[n],
         H[y] = G[y] \cup {g[x].key[i]} \cup G[z]
  PROVE  Fenced(h, H)
  <1>1. /\ x \in DOMAIN h /\ y \in DOMAIN h /\ x # y /\ z \in Nodes /\ z \notin DOMAIN h
        /\ DOMAIN g = DOMAIN h \cup {z} /\ DOMAIN h \subseteq Nodes /\ HeapType(h) /\ HeapType(g)
        /\ \A n \in DOMAIN h : n # x /\ n # y => g[n] = h[n]
        /\ h[x].child[i] = y /\ g[x].child[i] = y /\ g[x].child[i + 1] = z
    BY DEF Divided, SameOn, HeapType
  <1>2. /\ KidSet(g[x]) = KidSet(h[x]) \cup {z}
        /\ KidSet(h[y]) = KidSet(g[y]) \cup KidSet(g[z])
        /\ y \in KidSet(h[x])
    BY DividedKids
  <1>3. G \in [Nodes -> SUBSET Int] /\ \A n \in DOMAIN g : FencedNode(g[n], G[n], G)
    BY DEF Fenced
  <1>4. OneParent(h, r)
    BY <1>1, WiredKids
  <1>5. \A n \in DOMAIN h : n # x => \A c \in KidSet(h[n]) : c \in DOMAIN h \ {y}
    BY <1>1, <1>2, <1>4 DEF OneParent
  <1>6. Measured(g[y]) /\ Measured(g[z]) /\ Measured(g[x])
    BY <1>1, NodeTypes DEF Measured
  <1> PICK m : m = g[x].key[i]
    OBVIOUS
  <1>7. PICK a \in Nat : i \in 1 .. a + 1 /\ Inset(h[x].key, g[x].key, h[x].child, g[x].child, i, a)
    BY DividedSays
  <1>8. /\ Len(h[x].key) = a /\ Len(h[x].child) = a + 1
        /\ Len(g[x].key) = a + 1 /\ Len(g[x].child) = a + 2
    BY <1>7 DEF Inset
  <1>9. FencedNode(g[x], G[x], G) /\ G[x] \subseteq Int
    BY <1>1, <1>3
  <1>10. m \in G[x] /\ m \in Int
    <2>1. i \in 1 .. Len(g[x].key)
      BY <1>7, <1>8
    <2>2. QED
      BY <1>9, <2>1 DEF FencedNode, Holds
  <1>11. (\A v \in G[y] : v <= m) /\ (\A v \in G[z] : m <= v)
    <2>1. i \in 1 .. a + 1 /\ i \in 1 .. a + 2 /\ i + 1 \in 1 .. a + 2 /\ i <= i /\ ~(i + 1 <= i)
      BY <1>7
    <2>2. Apart(g[x].key, a + 1, g[x].child, a + 2, G)
      BY <1>8, <1>9 DEF FencedNode, Beside
    <2>3. QED
      BY <1>1, <2>1, <2>2 DEF Apart
  <1>12. FencedNode(h[y], H[y], H)
    <2>1. Split(h[y], g[y], m, g[z])
      BY DividedSays
    <2>2. FencedNode(g[y], G[y], G) /\ FencedNode(g[z], G[z], G) /\ G[y] \subseteq Int /\ G[z] \subseteq Int
      BY <1>1, <1>3
    <2>3. FencedNode(h[y], G[y] \cup {m} \cup G[z], G)
      BY <1>6, <1>10, <1>11, <2>1, <2>2, FenceWhole
    <2>4. SameSets(h[y], G, H)
      BY <1>1, <1>5 DEF SameSets
    <2>5. FencedNode(h[y], H[y], G)
      BY <2>3
    <2>6. QED
      BY <2>4, <2>5, FencedSame
  <1>13. ASSUME NEW n \in DOMAIN h, n # x, n # y PROVE FencedNode(h[n], H[n], H)
    <2>1. g[n] = h[n] /\ G[n] = H[n] /\ SameSets(h[n], G, H)
      BY <1>1, <1>5, <1>13 DEF SameSets
    <2>2. FencedNode(g[n], G[n], G)
      BY <1>1, <1>3
    <2>3. QED
      BY <2>1, <2>2, FencedSame
  <1>14. FencedNode(h[x], H[x], H)
    <2>1. Moved(h[x].child, g[x].child, H, G, i, a)
      BY <1>7, DividedMoved
    <2>2. Whole(H[h[x].child[i]], G[g[x].child[i]], g[x].key[i], G[g[x].child[i + 1]])
      BY <1>1 DEF Whole
    <2>3. Ints(g[x].key, a + 1) /\ IntSets(g[x].child, a + 2, G)
      BY <1>8, <1>9, HoldsInts DEF FencedNode
    <2>4. Up(g[x].key, a + 1) /\ Apart(g[x].key, a + 1, g[x].child, a + 2, G)
      BY <1>8, <1>9 DEF FencedNode, Rising, Beside
    <2>5. Up(h[x].key, a) /\ Apart(h[x].key, a, h[x].child, a + 1, H)
      BY <1>7, <2>1, <2>2, <2>3, <2>4, InsetJoins
    <2>6. G[x] = H[x]
      BY <1>1
    <2>7. \A c \in KidSet(h[x]) : H[c] \subseteq H[x]
      <3>1. \A c \in KidSet(g[x]) : G[c] \subseteq G[x]
        BY <1>9 DEF FencedNode, Holds
      <3>2. \A c \in KidSet(h[x]) : c \in DOMAIN h
        BY <1>1, <1>4 DEF OneParent
      <3>3. G[y] \subseteq G[x] /\ G[z] \subseteq G[x]
        BY <1>2, <3>1
      <3>4. QED
        BY <1>2, <1>10, <2>6, <3>1, <3>2, <3>3
    <2>8. AllIn(h[x].key, a, G[x])
      <3>1. AllIn(g[x].key, a + 1, G[x])
        BY <1>8, <1>9 DEF FencedNode, Holds, AllIn
      <3>2. QED
        BY <1>7, <3>1, InsetIn
    <2>9. QED
      BY <1>8, <2>5, <2>6, <2>7, <2>8 DEF FencedNode, Rising, Beside, Holds, AllIn
  <1>15. QED
    BY <1>12, <1>13, <1>14 DEF Fenced

(* A tree divided is a tree, and so is one joined.                          *)
LEMMA FenceCuts ==
  ASSUME NEW h, NEW g, NEW x, NEW y, NEW z, NEW i, Divided(h, g, x, y, z, i),
         NEW r, Wired(h, r), NEW H, Fenced(h, H)
  PROVE  \E G : Fenced(g, G) /\ Cut(h, g, y, z, g[x].key[i], H, G)
  <1>1. H \in [Nodes -> SUBSET Int] /\ y \in Nodes /\ z \in Nodes /\ y # z /\ z \notin DOMAIN h
        /\ DOMAIN h \subseteq Nodes
    BY DEF Fenced, Divided, HeapType
  <1> PICK L : L = {v \in H[y] : v <= g[x].key[i]}
    OBVIOUS
  <1> PICK U : U = {v \in H[y] : g[x].key[i] <= v}
    OBVIOUS
  <1> PICK G : G = [n \in Nodes |-> IF n = y THEN L ELSE IF n = z THEN U ELSE H[n]]
    OBVIOUS
  <1>2. L \in SUBSET Int /\ U \in SUBSET Int
    BY <1>1
  <1>3. G \in [Nodes -> SUBSET Int] /\ G[y] = L /\ G[z] = U /\ \A n \in DOMAIN h \ {y} : G[n] = H[n]
    BY <1>1, <1>2
  <1>4. G[y] = {v \in H[y] : v <= g[x].key[i]} /\ G[z] = {v \in H[y] : g[x].key[i] <= v}
    BY <1>3
  <1>5. Cut(h, g, y, z, g[x].key[i], H, G)
    BY <1>3, <1>4 DEF Cut
  <1>6. Fenced(g, G)
    BY <1>3, <1>5, FenceDivides
  <1>7. QED
    BY <1>5, <1>6

(* A tree with a node divided is a tree.                                    *)
LEMMA TreeDivides ==
  ASSUME NEW h, NEW g, NEW x, NEW y, NEW z, NEW i, Divided(h, g, x, y, z, i),
         NEW r, NEW lev, NEW H, Tree(h, r, lev, H)
  PROVE  \E G : /\ Tree(g, r, [lev EXCEPT ![z] = lev[y]], G)
                /\ Cut(h, g, y, z, g[x].key[i], H, G)
  <1>1. PICK G : Fenced(g, G) /\ Cut(h, g, y, z, g[x].key[i], H, G)
    BY FenceCuts DEF Tree, Frame
  <1>2. Frame(g, r, [lev EXCEPT ![z] = lev[y]])
    BY FrameDivides DEF Tree
  <1>3. QED
    BY <1>1, <1>2 DEF Tree

Fused(h, g, y, z, m, H, G) ==
  (\A n \in DOMAIN h \ {y} : G[n] = H[n]) /\ H[y] = G[y] \cup {m} \cup G[z]

LEMMA FenceFuses ==
  ASSUME NEW h, NEW g, NEW x, NEW y, NEW z, NEW i, Divided(h, g, x, y, z, i),
         NEW r, Wired(g, r), NEW G, Fenced(g, G)
  PROVE  \E H : Fenced(h, H) /\ Fused(h, g, y, z, g[x].key[i], H, G)
  <1>1. G \in [Nodes -> SUBSET Int] /\ y \in Nodes /\ z \in Nodes /\ y # z /\ z \notin DOMAIN h
        /\ DOMAIN h \subseteq Nodes /\ x \in DOMAIN g /\ HeapType(g)
    BY DEF Fenced, Divided, HeapType
  <1>2. g[x].key[i] \in Int
    <2>1. i \in 1 .. Len(g[x].key)
      BY DEF Divided, Without
    <2>2. QED
      BY <1>1, <2>1, NodeTypes
  <1> PICK S : S = G[y] \cup {g[x].key[i]} \cup G[z]
    OBVIOUS
  <1> PICK H : H = [n \in Nodes |-> IF n = y THEN S ELSE G[n]]
    OBVIOUS
  <1>3. S \in SUBSET Int
    BY <1>1, <1>2
  <1>4. H \in [Nodes -> SUBSET Int] /\ H[y] = S /\ \A n \in DOMAIN h \ {y} : G[n] = H[n]
    BY <1>1, <1>3
  <1>5. Wired(h, r)
    BY DividedWired
  <1>6. H[y] = G[y] \cup {g[x].key[i]} \cup G[z]
    BY <1>4
  <1>7. Fenced(h, H)
    BY <1>4, <1>5, <1>6, FenceJoins
  <1>8. QED
    BY <1>4, <1>6, <1>7 DEF Fused

(* A tree with a node joined that was divided is a tree.                    *)
LEMMA TreeJoins ==
  ASSUME NEW h, NEW g, NEW x, NEW y, NEW z, NEW i, Divided(h, g, x, y, z, i),
         NEW r, NEW lev, NEW G, Tree(g, r, lev, G)
  PROVE  /\ \E H : Tree(h, r, lev, H) /\ Fused(h, g, y, z, g[x].key[i], H, G)
         /\ lev[z] = lev[y]
  <1>1. PICK H : Fenced(h, H) /\ Fused(h, g, y, z, g[x].key[i], H, G)
    BY FenceFuses DEF Tree, Frame
  <1>2. Frame(h, r, lev) /\ lev[z] = lev[y]
    BY FrameJoins DEF Tree
  <1>3. QED
    BY <1>1, <1>2 DEF Tree

----------------------------------------------------------------------------
(* What is in the tree below a node: what every fence lets in               *)

Under(h, n, k) == \A K : Fenced(h, K) => k \in K[n]

(* Dividing a node changes what is below no other node.                     *)
LEMMA UnderDivided ==
  ASSUME NEW h, NEW g, NEW x, NEW y, NEW z, NEW i, Divided(h, g, x, y, z, i),
         NEW r, Wired(h, r), NEW n \in DOMAIN h \ {y}, NEW k
  PROVE  Under(h, n, k) <=> Under(g, n, k)
  <1>1. Wired(g, r)
    BY DividedWired
  <1>2. ASSUME Under(h, n, k), NEW G, Fenced(g, G) PROVE k \in G[n]
    <2>1. PICK H : Fenced(h, H) /\ Fused(h, g, y, z, g[x].key[i], H, G)
      BY <1>1, <1>2, FenceFuses
    <2>2. k \in H[n]
      BY <1>2, <2>1 DEF Under
    <2>3. QED
      BY <2>1, <2>2 DEF Fused
  <1>3. ASSUME Under(g, n, k), NEW H, Fenced(h, H) PROVE k \in H[n]
    <2>1. PICK G : Fenced(g, G) /\ Cut(h, g, y, z, g[x].key[i], H, G)
      BY <1>3, FenceCuts
    <2>2. k \in G[n]
      BY <1>3, <2>1 DEF Under
    <2>3. QED
      BY <2>1, <2>2 DEF Cut
  <1>4. QED
    BY <1>2, <1>3 DEF Under

(* The least fence: it is exact.                                            *)
Core(h, K) == [n \in Nodes |-> {v \in K[n] : Under(h, n, v)}]

LEMMA KidSetType ==
  ASSUME NEW h, HeapType(h), NEW n \in DOMAIN h
  PROVE  KidSet(h[n]) \subseteq Nodes
  BY NodeTypes DEF KidSet, Elements

LEMMA CoreFences ==
  ASSUME NEW h, HeapType(h), NEW K, Fenced(h, K)
  PROVE  /\ Fenced(h, Core(h, K)) /\ Exact(h, Core(h, K))
         /\ \A n \in Nodes : \A v : v \in Core(h, K)[n] <=> Under(h, n, v)
  <1> PICK M : M = Core(h, K)
    OBVIOUS
  <1>1. K \in [Nodes -> SUBSET Int] /\ \A n \in DOMAIN h : FencedNode(h[n], K[n], K) /\ n \in Nodes
    BY DEF Fenced, HeapType
  <1>2. /\ M \in [Nodes -> SUBSET Int]
        /\ \A n \in Nodes : M[n] = {v \in K[n] : Under(h, n, v)}
    BY <1>1 DEF Core
  <1>3. \A n \in Nodes : \A v : v \in M[n] <=> Under(h, n, v)
    <2>1. \A n, v : Under(h, n, v) => v \in K[n]
      BY DEF Under
    <2>2. QED
      BY <1>2, <2>1
  <1>4. ASSUME NEW n \in DOMAIN h PROVE FencedNode(h[n], M[n], M)
    <2>1. \A c \in KidSet(h[n]) : c \in Nodes
      BY KidSetType
    <2>2. ASSUME NEW i \in 1 .. Len(h[n].key) PROVE h[n].key[i] \in M[n]
      <3>1. \A H : Fenced(h, H) => h[n].key[i] \in H[n]
        BY DEF Fenced, FencedNode, Holds
      <3>2. QED
        BY <1>1, <1>3, <3>1 DEF Under
    <2>3. ASSUME NEW c \in KidSet(h[n]), NEW v \in M[c] PROVE v \in M[n]
      <3>1. Under(h, c, v)
        BY <1>3, <2>1
      <3>2. \A H : Fenced(h, H) => H[c] \subseteq H[n]
        BY DEF Fenced, FencedNode, Holds
      <3>3. Under(h, n, v)
        BY <3>1, <3>2 DEF Under
      <3>4. QED
        BY <1>1, <1>3, <3>3
    <2>4. Beside(h[n], M)
      <3>1. Beside(h[n], K)
        BY <1>1 DEF FencedNode
      <3>2. \A j \in 1 .. Len(h[n].child) : M[h[n].child[j]] \subseteq K[h[n].child[j]]
        BY <1>2, NodeTypes
      <3>3. QED
        BY <3>1, <3>2 DEF Beside, Apart
    <2>5. Rising(h[n])
      BY <1>1 DEF FencedNode
    <2>6. QED
      BY <2>2, <2>3, <2>4, <2>5 DEF FencedNode, Holds
  <1>5. Fenced(h, M)
    BY <1>2, <1>4 DEF Fenced
  <1>6. ASSUME NEW n \in DOMAIN h, NEW v \in M[n],
               ~ \E i \in 1 .. Len(h[n].key) : h[n].key[i] = v,
               ~ \E c \in KidSet(h[n]) : v \in M[c]
        PROVE  FALSE
    <2> PICK L : L = [M EXCEPT ![n] = M[n] \ {v}]
      OBVIOUS
    <2>1. /\ L \in [Nodes -> SUBSET Int] /\ L[n] = M[n] \ {v}
          /\ \A q \in Nodes : q # n => L[q] = M[q]
      BY <1>1, <1>2
    <2>2. ASSUME NEW q \in DOMAIN h PROVE FencedNode(h[q], L[q], L)
      <3>0. FencedNode(h[q], M[q], M) /\ q \in Nodes /\ n \in Nodes
        BY <1>1, <1>4
      <3>1. \A c \in KidSet(h[q]) : c \in Nodes /\ L[c] \subseteq M[c]
        BY <2>1, KidSetType
      <3>2. Beside(h[q], L)
        <4>1. \A j \in 1 .. Len(h[q].child) : L[h[q].child[j]] \subseteq M[h[q].child[j]]
          BY <2>1, NodeTypes
        <4>2. Beside(h[q], M)
          BY <3>0 DEF FencedNode
        <4>3. QED
          BY <4>1, <4>2 DEF Beside, Apart
      <3>3. Holds(h[q], L[q], L)
        <4>1. CASE q = n
          <5>1. \A i \in 1 .. Len(h[q].key) : h[q].key[i] \in L[q]
            BY <1>6, <2>1, <3>0, <4>1 DEF FencedNode, Holds
          <5>2. ASSUME NEW c \in KidSet(h[q]) PROVE L[c] \subseteq L[q]
            <6>1. M[c] \subseteq M[q]
              BY <3>0 DEF FencedNode, Holds
            <6>2. v \notin M[c]
              BY <1>6, <4>1
            <6>3. QED
              BY <2>1, <3>1, <4>1, <6>1, <6>2
          <5>3. QED
            BY <5>1, <5>2 DEF Holds
        <4>2. CASE q # n
          <5>1. L[q] = M[q]
            BY <2>1, <3>0, <4>2
          <5>2. QED
            BY <3>0, <3>1, <5>1 DEF FencedNode, Holds
        <4>3. QED
          BY <4>1, <4>2
      <3>4. QED
        BY <3>0, <3>2, <3>3 DEF FencedNode
    <2>3. Fenced(h, L)
      BY <2>1, <2>2 DEF Fenced
    <2>4. Under(h, n, v)
      BY <1>1, <1>3
    <2>5. v \in L[n]
      BY <2>3, <2>4 DEF Under
    <2>6. QED
      BY <2>1, <2>5
  <1>7. Exact(h, M)
    BY <1>6 DEF Exact, ExactNode
  <1>8. QED
    BY <1>3, <1>5, <1>7

(* Everything is in or below the root.                                      *)
LEMMA RootCovers ==
  ASSUME NEW h, NEW r, NEW lev, Frame(h, r, lev), NEW K, Fenced(h, K)
  PROVE  \A n \in DOMAIN h : K[n] \subseteq K[r]
  <1> SUFFICES ASSUME NEW q \in DOMAIN h, ~(K[q] \subseteq K[r]) PROVE FALSE
    OBVIOUS
  <1> PICK B : B = {n \in DOMAIN h : ~(K[n] \subseteq K[r])}
    OBVIOUS
  <1>1. IsFiniteSet(B) /\ B # {} /\ B \subseteq DOMAIN h
    BY HeapLists, FS_Subset DEF Frame
  <1>2. \A n \in B : lev[n] \in Int
    BY <1>1 DEF Frame, Levelled, HeapType
  <1>3. PICK n \in B : \A m \in B : lev[m] <= lev[n]
    BY <1>1, <1>2, Greatest
  <1>4. OneParent(h, r) /\ n \in DOMAIN h /\ n # r
    BY <1>1, WiredKids DEF Frame
  <1>5. PICK p \in DOMAIN h : n \in KidSet(h[p])
    BY <1>4 DEF OneParent
  <1>6. lev[n] + 1 = lev[p] /\ lev[n] \in Nat
    BY <1>4, <1>5 DEF Frame, Levelled, LevelledNode, HeapType
  <1>7. p \notin B
    BY <1>2, <1>3, <1>6
  <1>8. K[n] \subseteq K[p] /\ K[p] \subseteq K[r]
    BY <1>5, <1>7 DEF Fenced, FencedNode, Holds
  <1>9. QED
    BY <1>3, <1>8

Occurs(h, k) == \E n \in DOMAIN h : \E i \in 1 .. Len(h[n].key) : h[n].key[i] = k
KeyAt(x, k) == \E i \in 1 .. Len(x.key) : x.key[i] = k
Copies(h, k) == Total(KeysOf(h), {k})

(* A key is in the tree exactly if it is counted.                           *)
LEMMA OccursCounted ==
  ASSUME NEW h, HeapType(h), NEW k
  PROVE  Copies(h, k) \in Int /\ (Copies(h, k) = 0 <=> ~Occurs(h, k))
  <1> PICK f : f = KeysOf(h)
    OBVIOUS
  <1>1. Lists(f) /\ DOMAIN f = DOMAIN h /\ \A n \in DOMAIN h : f[n] = h[n].key
    BY HeapLists
  <1>2. Total(f, {k}) = 0 <=> Absent(f, k)
    BY <1>1, TotalNone
  <1>3. Total(f, {k}) \in Int
    BY <1>1, TotalType
  <1>4. Occurs(h, k) <=> ~Absent(f, k)
    BY <1>1 DEF Occurs, Absent
  <1>5. QED
    BY <1>2, <1>3, <1>4 DEF Copies

(* Every key of the tree is below the root.                                 *)
LEMMA UnderRoot ==
  ASSUME NEW h, NEW r, NEW lev, Frame(h, r, lev), NEW k, Occurs(h, k)
  PROVE  Under(h, r, k)
  <1> SUFFICES ASSUME NEW K, Fenced(h, K) PROVE k \in K[r]
    BY DEF Under
  <1>1. PICK n \in DOMAIN h : \E i \in 1 .. Len(h[n].key) : h[n].key[i] = k
    BY DEF Occurs
  <1>2. k \in K[n]
    BY <1>1 DEF Fenced, FencedNode, Holds
  <1>3. QED
    BY <1>2, RootCovers

(* Only keys of the tree are below a node.                                  *)
LEMMA UnderOccurs ==
  ASSUME NEW h, HeapType(h), NEW K, Fenced(h, K), NEW n \in DOMAIN h, NEW k, Under(h, n, k)
  PROVE  Occurs(h, k) /\ k \in Int
  <1> PICK L : L = [q \in Nodes |-> {v \in K[q] : Occurs(h, v)}]
    OBVIOUS
  <1>1. K \in [Nodes -> SUBSET Int] /\ \A q \in DOMAIN h : FencedNode(h[q], K[q], K) /\ q \in Nodes
    BY DEF Fenced, HeapType
  <1>2. L \in [Nodes -> SUBSET Int] /\ \A q \in Nodes : L[q] = {v \in K[q] : Occurs(h, v)}
    BY <1>1
  <1>3. ASSUME NEW q \in DOMAIN h PROVE FencedNode(h[q], L[q], L)
    <2>1. \A i \in 1 .. Len(h[q].key) : h[q].key[i] \in L[q]
      BY <1>1, <1>2 DEF FencedNode, Holds, Occurs
    <2>2. ASSUME NEW c \in KidSet(h[q]) PROVE L[c] \subseteq L[q]
      <3>1. c \in Nodes /\ K[c] \subseteq K[q]
        BY <1>1, KidSetType DEF FencedNode, Holds
      <3>2. QED
        BY <1>1, <1>2, <3>1
    <2>3. Beside(h[q], L)
      <3>1. \A j \in 1 .. Len(h[q].child) : L[h[q].child[j]] \subseteq K[h[q].child[j]]
        BY <1>2, NodeTypes
      <3>2. Beside(h[q], K)
        BY <1>1 DEF FencedNode
      <3>3. QED
        BY <3>1, <3>2 DEF Beside, Apart
    <2>4. Rising(h[q])
      BY <1>1 DEF FencedNode
    <2>5. QED
      BY <2>1, <2>2, <2>3, <2>4 DEF FencedNode, Holds
  <1>4. Fenced(h, L)
    BY <1>2, <1>3 DEF Fenced
  <1>5. k \in L[n] /\ n \in Nodes
    BY <1>1, <1>4 DEF Under
  <1>6. QED
    BY <1>1, <1>2, <1>5

LEMMA UnderKey ==
  ASSUME NEW h, NEW n \in DOMAIN h, NEW k, KeyAt(h[n], k)
  PROVE  Under(h, n, k)
  BY DEF Under, KeyAt, Fenced, FencedNode, Holds

LEMMA UnderKid ==
  ASSUME NEW h, NEW n \in DOMAIN h, NEW k, NEW c \in KidSet(h[n]), Under(h, c, k)
  PROVE  Under(h, n, k)
  BY DEF Under, Fenced, FencedNode, Holds

(* A key below a node is in the node or below one of its children.          *)
LEMMA UnderDown ==
  ASSUME NEW h, HeapType(h), NEW K, Fenced(h, K), NEW n \in DOMAIN h, NEW k, Under(h, n, k)
  PROVE  KeyAt(h[n], k) \/ \E c \in KidSet(h[n]) : Under(h, c, k)
  <1> PICK M : M = Core(h, K)
    OBVIOUS
  <1>1. Exact(h, M) /\ \A q \in Nodes : \A v : v \in M[q] <=> Under(h, q, v)
    BY CoreFences
  <1>2. n \in Nodes /\ KidSet(h[n]) \subseteq Nodes
    BY KidSetType DEF HeapType
  <1>3. k \in M[n]
    BY <1>1, <1>2
  <1>4. (\E i \in 1 .. Len(h[n].key) : h[n].key[i] = k) \/ \E c \in KidSet(h[n]) : k \in M[c]
    BY <1>1, <1>3 DEF Exact, ExactNode
  <1>5. QED
    BY <1>1, <1>2, <1>4 DEF KeyAt

----------------------------------------------------------------------------
(* The operators on sequences that the nodes are changed with               *)

(* A sequence put together of two with an element between them.             *)
LEMMA JoinSeq ==
  ASSUME NEW S, NEW s \in Seq(S), NEW e \in S, NEW t \in Seq(S)
  PROVE  /\ s \o <<e>> \o t \in Seq(S) /\ Len(s \o <<e>> \o t) = Len(s) + 1 + Len(t)
         /\ Joined(s \o <<e>> \o t, s, e, t)
  <1>1. Len(s \o <<e>> \o t) = Len(s) + 1 + Len(t) /\ s \o <<e>> \o t \in Seq(S)
    OBVIOUS
  <1>2. \A q \in 1 .. Len(s) + 1 + Len(t) : (s \o <<e>> \o t)[q] =
           IF q <= Len(s) THEN s[q] ELSE IF q = Len(s) + 1 THEN e ELSE t[q - Len(s) - 1]
    OBVIOUS
  <1>3. QED
    BY <1>1, <1>2 DEF Joined

LEMMA CatSeq ==
  ASSUME NEW S, NEW s \in Seq(S), NEW t \in Seq(S)
  PROVE  s \o t \in Seq(S) /\ Len(s \o t) = Len(s) + Len(t) /\ Cat(s \o t, s, t)
  BY DEF Cat

(* a is the first i of s, and b is what comes after the first j.            *)
Forepart(a, s, i) == Len(a) = i /\ \A q \in 1 .. i : a[q] = s[q]
Rest(b, s, j) == Len(b) = Len(s) - j /\ \A q \in 1 .. Len(s) - j : b[q] = s[j + q]

LEMMA SubSeqFirst ==
  ASSUME NEW S, NEW s \in Seq(S), NEW j \in 0 .. Len(s)
  PROVE  SubSeq(s, 1, j) \in Seq(S) /\ Forepart(SubSeq(s, 1, j), s, j)
  <1>1. SubSeq(s, 1, j) \in Seq(S) /\ Len(SubSeq(s, 1, j)) = j
        /\ \A q \in 1 .. j : SubSeq(s, 1, j)[q] = s[q]
    OBVIOUS
  <1>2. QED
    BY <1>1 DEF Forepart

LEMMA SubSeqLast ==
  ASSUME NEW S, NEW s \in Seq(S), NEW j \in 0 .. Len(s)
  PROVE  SubSeq(s, j + 1, Len(s)) \in Seq(S) /\ Rest(SubSeq(s, j + 1, Len(s)), s, j)
  <1>1. SubSeq(s, j + 1, Len(s)) \in Seq(S) /\ Len(SubSeq(s, j + 1, Len(s))) = Len(s) - j
        /\ \A q \in 1 .. Len(s) - j : SubSeq(s, j + 1, Len(s))[q] = s[j + q]
    OBVIOUS
  <1>2. QED
    BY <1>1 DEF Rest

InsertedAt(w, s, i, e) == Len(w) = Len(s) + 1 /\ Without(s, w, i) /\ w[i] = e

LEMMA WithoutOfJoined ==
  ASSUME NEW s, NEW w, NEW a, NEW b, NEW e, NEW i, Len(s) \in Nat, i \in 1 .. Len(s) + 1,
         Forepart(a, s, i - 1), Rest(b, s, i - 1), Joined(w, a, e, b)
  PROVE  InsertedAt(w, s, i, e)
  <1> PICK n \in Nat : n = Len(s)
    OBVIOUS
  <1>1. /\ Len(a) = i - 1 /\ Len(b) = n - (i - 1)
        /\ \A q \in 1 .. i - 1 : a[q] = s[q]
        /\ \A q \in 1 .. n - (i - 1) : b[q] = s[(i - 1) + q]
    BY DEF Forepart, Rest
  <1>2. Len(w) = n + 1
    BY <1>1 DEF Joined
  <1>3. \A q \in 1 .. n + 1 : w[q] = IF q <= i - 1 THEN a[q] ELSE IF q = (i - 1) + 1 THEN e
                                     ELSE b[q - (i - 1) - 1]
    BY <1>1, <1>2 DEF Joined
  <1>4. ASSUME NEW q \in 1 .. n PROVE s[q] = IF q < i THEN w[q] ELSE w[q + 1]
    <2>1. CASE q < i
      BY <1>1, <1>3, <2>1
    <2>2. CASE q >= i
      <3>1. w[q + 1] = b[(q + 1) - (i - 1) - 1]
        BY <1>3, <2>2, SMTT(40)
      <3>2. (q + 1) - (i - 1) - 1 \in 1 .. n - (i - 1) /\ (i - 1) + ((q + 1) - (i - 1) - 1) = q
        BY <2>2
      <3>3. QED
        BY <1>1, <2>2, <3>1, <3>2
    <2>3. QED
      BY <2>1, <2>2
  <1>5. w[i] = e
    BY <1>3
  <1>6. QED
    BY <1>2, <1>4, <1>5 DEF Without, InsertedAt

LEMMA WithoutOfCat ==
  ASSUME NEW s, NEW w, NEW a, NEW b, NEW i, Len(s) \in Nat, i \in 1 .. Len(s),
         Forepart(a, s, i - 1), Rest(b, s, i), Cat(w, a, b)
  PROVE  Len(w) = Len(s) - 1 /\ Without(w, s, i)
  <1> PICK n \in Nat : n = Len(s)
    OBVIOUS
  <1>1. /\ Len(a) = i - 1 /\ Len(b) = n - i
        /\ \A q \in 1 .. i - 1 : a[q] = s[q]
        /\ \A q \in 1 .. n - i : b[q] = s[i + q]
    BY DEF Forepart, Rest
  <1>2. Len(w) = n - 1
    BY <1>1 DEF Cat
  <1>3. \A q \in 1 .. n - 1 : w[q] = IF q <= i - 1 THEN a[q] ELSE b[q - (i - 1)]
    BY <1>1, <1>2 DEF Cat
  <1>4. ASSUME NEW q \in 1 .. n - 1 PROVE w[q] = IF q < i THEN s[q] ELSE s[q + 1]
    <2>1. CASE q < i
      BY <1>1, <1>3, <2>1
    <2>2. CASE q >= i
      <3>1. w[q] = b[q - (i - 1)]
        BY <1>3, <2>2
      <3>2. q - (i - 1) \in 1 .. n - i /\ i + (q - (i - 1)) = q + 1
        BY <2>2
      <3>3. QED
        BY <1>1, <2>2, <3>1, <3>2
    <2>3. QED
      BY <2>1, <2>2
  <1>6. QED
    BY <1>2, <1>4 DEF Without

(* InsertAt puts an element at a place and keeps the others in order.       *)
LEMMA InsertAtIs ==
  ASSUME NEW S, NEW s \in Seq(S), NEW e \in S, NEW i \in 1 .. Len(s) + 1
  PROVE  /\ InsertAt(s, i, e) \in Seq(S) /\ Len(InsertAt(s, i, e)) = Len(s) + 1
         /\ Without(s, InsertAt(s, i, e), i) /\ InsertAt(s, i, e)[i] = e
  <1>1. Len(s) \in Nat /\ i - 1 \in 0 .. Len(s) /\ (i - 1) + 1 = i
    OBVIOUS
  <1>0. Len(s) \in Nat /\ i \in 1 .. Len(s) + 1
    OBVIOUS
  <1>2. PICK a \in Seq(S) : a = SubSeq(s, 1, i - 1) /\ Forepart(a, s, i - 1)
    BY <1>1, SubSeqFirst
  <1>3. SubSeq(s, (i - 1) + 1, Len(s)) \in Seq(S) /\ Rest(SubSeq(s, (i - 1) + 1, Len(s)), s, i - 1)
    BY <1>1, SubSeqLast
  <1>4. PICK b \in Seq(S) : b = SubSeq(s, i, Len(s)) /\ Rest(b, s, i - 1)
    BY <1>1, <1>3
  <1>5. PICK w \in Seq(S) : w = a \o <<e>> \o b /\ Joined(w, a, e, b)
    BY JoinSeq
  <1>6. InsertedAt(w, s, i, e)
    BY <1>0, <1>2, <1>4, <1>5, WithoutOfJoined
  <1>7. w = InsertAt(s, i, e)
    BY <1>2, <1>4, <1>5 DEF InsertAt
  <1>8. QED
    BY <1>5, <1>6, <1>7 DEF InsertedAt

(* RemoveAt takes the element at a place.                                   *)
LEMMA RemoveAtIs ==
  ASSUME NEW S, NEW s \in Seq(S), NEW i \in 1 .. Len(s)
  PROVE  /\ RemoveAt(s, i) \in Seq(S) /\ Len(RemoveAt(s, i)) = Len(s) - 1
         /\ Without(RemoveAt(s, i), s, i)
  <1>1. Len(s) \in Nat /\ i - 1 \in 0 .. Len(s) /\ i \in 0 .. Len(s)
    OBVIOUS
  <1>2. PICK a \in Seq(S) : a = SubSeq(s, 1, i - 1) /\ Forepart(a, s, i - 1)
    BY <1>1, SubSeqFirst
  <1>4. PICK b \in Seq(S) : b = SubSeq(s, i + 1, Len(s)) /\ Rest(b, s, i)
    BY <1>1, SubSeqLast
  <1>5. PICK w \in Seq(S) : w = a \o b /\ Cat(w, a, b)
    BY CatSeq
  <1>6. Len(w) = Len(s) - 1 /\ Without(w, s, i)
    BY <1>1, <1>2, <1>4, <1>5, WithoutOfCat
  <1>7. w = RemoveAt(s, i)
    BY <1>2, <1>4, <1>5 DEF RemoveAt
  <1>8. QED
    BY <1>6, <1>7

(* Where the elements from i up to j are equal, inserting another at j is   *)
(* inserting it at i.                                                       *)
LEMMA InsertSame ==
  ASSUME NEW S, NEW s \in Seq(S), NEW e \in S, NEW i \in 1 .. Len(s) + 1, NEW j \in i .. Len(s) + 1,
         \A q \in i .. j - 1 : s[q] = e
  PROVE  Without(s, InsertAt(s, j, e), i) /\ InsertAt(s, j, e)[i] = e
  <1> PICK w : w = InsertAt(s, j, e)
    OBVIOUS
  <1>1. Without(s, w, j) /\ w[j] = e /\ Len(w) = Len(s) + 1
    BY InsertAtIs
  <1>2. \A q \in 1 .. Len(s) : s[q] = IF q < j THEN w[q] ELSE w[q + 1]
    BY <1>1 DEF Without
  <1>3. \A q \in i .. j : w[q] = e
    BY <1>1, <1>2
  <1>4. ASSUME NEW q \in 1 .. Len(s) PROVE s[q] = IF q < i THEN w[q] ELSE w[q + 1]
    <2>1. CASE q < i
      BY <1>2, <2>1
    <2>2. CASE q >= j
      BY <1>2, <2>2
    <2>3. CASE q >= i /\ q < j
      <3>1. s[q] = e /\ q + 1 \in i .. j
        BY <2>3
      <3>2. QED
        BY <1>3, <2>3, <3>1
    <2>4. QED
      BY <2>1, <2>2, <2>3
  <1>5. QED
    BY <1>1, <1>3, <1>4 DEF Without

LEMMA CutsCat ==
  ASSUME NEW s, NEW a, NEW b, NEW j, Len(s) \in Nat, j \in 0 .. Len(s), Forepart(a, s, j), Rest(b, s, j)
  PROVE  Cat(s, a, b)
  <1> PICK n \in Nat : n = Len(s)
    OBVIOUS
  <1>1. /\ Len(a) = j /\ Len(b) = n - j
        /\ \A q \in 1 .. j : a[q] = s[q]
        /\ \A q \in 1 .. n - j : b[q] = s[j + q]
    BY DEF Forepart, Rest
  <1>2. ASSUME NEW q \in 1 .. n PROVE s[q] = IF q <= j THEN a[q] ELSE b[q - j]
    <2>1. CASE q <= j
      BY <1>1, <2>1
    <2>2. CASE q > j
      <3>1. q - j \in 1 .. n - j /\ j + (q - j) = q
        BY <2>2
      <3>2. QED
        BY <1>1, <2>2, <3>1
    <2>3. QED
      BY <2>1, <2>2
  <1>3. QED
    BY <1>1, <1>2 DEF Cat

LEMMA CutsJoined ==
  ASSUME NEW s, NEW a, NEW b, NEW j, Len(s) \in Nat, j \in 1 .. Len(s),
         Forepart(a, s, j - 1), Rest(b, s, j)
  PROVE  Joined(s, a, s[j], b)
  <1> PICK n \in Nat : n = Len(s)
    OBVIOUS
  <1>1. /\ Len(a) = j - 1 /\ Len(b) = n - j
        /\ \A q \in 1 .. j - 1 : a[q] = s[q]
        /\ \A q \in 1 .. n - j : b[q] = s[j + q]
    BY DEF Forepart, Rest
  <1>2. ASSUME NEW q \in 1 .. n
        PROVE  s[q] = IF q <= j - 1 THEN a[q] ELSE IF q = j - 1 + 1 THEN s[j] ELSE b[q - (j - 1) - 1]
    <2>1. CASE q <= j
      BY <1>1, <2>1
    <2>2. CASE q > j
      <3>1. q - (j - 1) - 1 \in 1 .. n - j /\ j + (q - (j - 1) - 1) = q
        BY <2>2
      <3>2. QED
        BY <1>1, <2>2, <3>1
    <2>3. QED
      BY <2>1, <2>2
  <1>3. QED
    BY <1>1, <1>2 DEF Joined

----------------------------------------------------------------------------
(* Greatest and least places                                                *)

LEMMA MaxIs ==
  ASSUME NEW S \in SUBSET Int, IsFiniteSet(S), S # {}
  PROVE  Max(S) \in S /\ \A y \in S : y <= Max(S)
  <1> PICK f : f = [x \in S |-> x]
    OBVIOUS
  <1>1. \E m \in S : \A x \in S : f[x] <= f[m]
    BY Greatest
  <1>2. \E m \in S : \A x \in S : m >= x
    BY <1>1
  <1>3. QED
    BY <1>2 DEF Max

LEMMA MinIs ==
  ASSUME NEW S \in SUBSET Int, IsFiniteSet(S), S # {}
  PROVE  Min(S) \in S /\ \A y \in S : Min(S) <= y
  <1> PICK f : f = [x \in S |-> x]
    OBVIOUS
  <1>1. \E m \in S : \A x \in S : f[m] <= f[x]
    BY Smallest
  <1>2. \E m \in S : \A x \in S : m =< x
    BY <1>1
  <1>3. QED
    BY <1>2 DEF Min

(* Behind is the place that follows the last key not greater than k.        *)
LEMMA BehindIs ==
  ASSUME NEW x, Len(x.key) \in Nat, Ints(x.key, Len(x.key)), Rising(x), NEW k \in Int
  PROVE  /\ Behind(x, k) \in 1 .. Len(x.key) + 1
         /\ \A q \in 1 .. Len(x.key) : IF q < Behind(x, k) THEN x.key[q] <= k ELSE k < x.key[q]
  <1> PICK n \in Nat : n = Len(x.key)
    OBVIOUS
  <1> PICK s : s = x.key
    OBVIOUS
  <1>1. (\A i \in 1 .. n : s[i] \in Int) /\ \A i, j \in 1 .. n : i <= j => s[i] <= s[j]
    BY DEF Ints, Rising, Up
  <1> PICK S : S = {i \in 1 .. n : s[i] <= k} \cup {0}
    OBVIOUS
  <1>2. S \subseteq 0 .. n /\ IsFiniteSet(0 .. n) /\ 0 \in S
    <2>1. IsFiniteSet(0 .. n)
      BY FS_Interval
    <2>2. QED
      BY <2>1
  <1>3. IsFiniteSet(S) /\ S \in SUBSET Int /\ S # {}
    BY <1>2, FS_Subset
  <1>4. PICK m : m = Max(S)
    OBVIOUS
  <1>5. m \in S /\ \A y \in S : y <= m
    BY <1>3, <1>4, MaxIs
  <1>6. Behind(x, k) = m + 1
    BY <1>4 DEF Behind
  <1>7. m \in 0 .. n
    BY <1>2, <1>5
  <1>8. ASSUME NEW q \in 1 .. n, q < m + 1 PROVE s[q] <= k
    <2>1. q <= m /\ m \in 1 .. n /\ m # 0
      BY <1>7, <1>8
    <2>2. s[m] <= k /\ s[q] <= s[m] /\ s[q] \in Int /\ s[m] \in Int
      BY <1>1, <1>5, <2>1
    <2>3. QED
      BY <2>2
  <1>9. ASSUME NEW q \in 1 .. n, ~(q < m + 1) PROVE k < s[q]
    <2>1. q \notin S
      BY <1>5, <1>7, <1>9
    <2>2. QED
      BY <1>1, <2>1
  <1>10. QED
    BY <1>6, <1>7, <1>8, <1>9

(* FindIndex is the place of the first key not less than k.                 *)
LEMMA FindIndexIs ==
  ASSUME NEW x, Len(x.key) \in Nat, Ints(x.key, Len(x.key)), Rising(x), NEW k \in Int
  PROVE  /\ FindIndex(x, k) \in 1 .. Len(x.key) + 1
         /\ \A q \in 1 .. Len(x.key) : IF q < FindIndex(x, k) THEN x.key[q] < k ELSE k <= x.key[q]
  <1> PICK n \in Nat : n = Len(x.key)
    OBVIOUS
  <1> PICK s : s = x.key
    OBVIOUS
  <1>1. (\A i \in 1 .. n : s[i] \in Int) /\ \A i, j \in 1 .. n : i <= j => s[i] <= s[j]
    BY DEF Ints, Rising, Up
  <1> PICK S : S = {i \in 1 .. n : s[i] >= k} \cup {n + 1}
    OBVIOUS
  <1>2. S \subseteq 1 .. n + 1 /\ IsFiniteSet(1 .. n + 1) /\ n + 1 \in S
    <2>1. IsFiniteSet(1 .. n + 1)
      BY FS_Interval
    <2>2. QED
      BY <2>1
  <1>3. IsFiniteSet(S) /\ S \in SUBSET Int /\ S # {}
    BY <1>2, FS_Subset
  <1>4. PICK m : m = Min(S)
    OBVIOUS
  <1>5. m \in S /\ \A y \in S : m <= y
    BY <1>3, <1>4, MinIs
  <1>6. FindIndex(x, k) = m
    BY <1>4 DEF FindIndex
  <1>7. m \in 1 .. n + 1
    BY <1>2, <1>5
  <1>8. ASSUME NEW q \in 1 .. n, q < m PROVE s[q] < k
    <2>1. q \notin S
      BY <1>5, <1>7, <1>8
    <2>2. QED
      BY <1>1, <2>1
  <1>9. ASSUME NEW q \in 1 .. n, ~(q < m) PROVE k <= s[q]
    <2>1. m <= q /\ m \in 1 .. n /\ m # n + 1
      BY <1>7, <1>9
    <2>2. s[m] >= k /\ s[m] <= s[q] /\ s[q] \in Int /\ s[m] \in Int
      BY <1>1, <1>5, <2>1
    <2>3. QED
      BY <2>2
  <1>10. QED
    BY <1>6, <1>7, <1>8, <1>9

----------------------------------------------------------------------------
(* Sizes, and the memory they need                                          *)

SizedNode(x, top) ==
  /\ Len(x.key) <= Full
  /\ ~top => Len(x.key) >= MinDegree - 1
  /\ ~x.leaf => Len(x.key) >= 1
Sized(h, r) == \A n \in DOMAIN h : SizedNode(h[n], n = r)

Number(h) == Total(KeysOf(h), Keys)

(* The number of keys is the number of places.                              *)
LEMMA NumberPlaces ==
  ASSUME NEW h, HeapType(h), \A n \in DOMAIN h : Len(h[n].key) <= Full
  PROVE  /\ IsFiniteSet(PlacesIn(KeysOf(h), DOMAIN h, Full, Keys))
         /\ Cardinality(PlacesIn(KeysOf(h), DOMAIN h, Full, Keys)) = Number(h)
  <1> PICK f : f = KeysOf(h)
    OBVIOUS
  <1>1. Lists(f) /\ DOMAIN f = DOMAIN h /\ \A n \in DOMAIN h : f[n] = h[n].key
    BY HeapLists
  <1>2. Full \in Nat
    BY BTreeAssumption DEF Full
  <1>3. \A n \in DOMAIN f : Len(f[n]) <= Full
    BY <1>1
  <1>4. /\ IsFiniteSet(PlacesIn(f, DOMAIN f, Full, Keys))
        /\ Cardinality(PlacesIn(f, DOMAIN f, Full, Keys)) = Total(f, Keys)
    BY <1>1, <1>2, <1>3, PlacesCount
  <1>5. QED
    BY <1>1, <1>4 DEF Number

(* Every node but the root has a key, so there are few nodes.               *)
LEMMA FewNodes ==
  ASSUME NEW h, HeapType(h), NEW r \in DOMAIN h, Sized(h, r)
  PROVE  Number(h) \in Nat /\ Cardinality(DOMAIN h) <= Number(h) + 1
  <1> PICK P : P = PlacesIn(KeysOf(h), DOMAIN h, Full, Keys)
    OBVIOUS
  <1>1. IsFiniteSet(P) /\ Cardinality(P) = Number(h)
    BY NumberPlaces DEF Sized, SizedNode
  <1> PICK D : D = DOMAIN h \ {r}
    OBVIOUS
  <1>2. IsFiniteSet(D) /\ IsFiniteSet(DOMAIN h)
    BY HeapLists, FS_Subset
  <1>3. Cardinality(DOMAIN h) = Cardinality(D) + 1
    <2>1. DOMAIN h = D \cup {r} /\ r \notin D
      OBVIOUS
    <2>2. QED
      BY <1>2, <2>1, FS_AddElement
  <1> PICK f : f = [n \in D |-> <<n, 1>>]
    OBVIOUS
  <1>4. f \in Injection(D, P)
    <2>1. ASSUME NEW n \in D PROVE <<n, 1>> \in P
      <3>1. n \in DOMAIN h /\ n # r /\ KeysOf(h)[n] = h[n].key /\ Len(h[n].key) \in Nat
        BY HeapLists, NodeTypes
      <3>2. Len(h[n].key) >= MinDegree - 1
        BY <3>1 DEF Sized, SizedNode
      <3>3. 1 <= Len(h[n].key) /\ 1 \in 1 .. Full /\ 1 \in 1 .. Len(h[n].key)
        BY <3>1, <3>2, BTreeAssumption DEF Full
      <3>4. h[n].key[1] \in Keys
        BY <3>1, <3>3, NodeTypes
      <3>5. QED
        BY <3>1, <3>3, <3>4 DEF PlacesIn
    <2>2. f \in [D -> P] /\ \A a, b \in D : f[a] = f[b] => a = b
      BY <2>1
    <2>3. QED
      BY <2>2 DEF Injection, IsInjective
  <1>5. Cardinality(D) <= Cardinality(P)
    BY <1>1, <1>2, <1>4, FS_Injection DEF ExistsInjection
  <1>6. Cardinality(D) \in Nat /\ Cardinality(P) \in Nat
    BY <1>1, <1>2, FS_CardinalityType
  <1>7. QED
    BY <1>1, <1>3, <1>5, <1>6

(* malloc succeeds while the tree is within its bounds.                     *)
LEMMA NewNodeIs ==
  ASSUME NEW D, D \subseteq Nodes, Cardinality(D) < Cardinality(Nodes), NEW h, DOMAIN h = D
  PROVE  NewNode(h) \in Nodes \ D
  <1>1. Nodes \ D # {}
    <2>1. Cardinality(Nodes) \in Nat
      BY BTreeAssumption, FS_CardinalityType
    <2>2. Nodes # D
      BY <2>1
    <2>3. QED
      BY <2>2
  <1>2. IsFiniteSet(Nodes \ D) /\ Nodes \ D \in SUBSET Int
    BY BTreeAssumption, FS_Subset
  <1>3. QED
    BY <1>1, <1>2, MinIs DEF NewNode

----------------------------------------------------------------------------
(* Lower bounds on counts                                                   *)

(* A sequence that holds only members of V at n places counts n or more.    *)
LEMMA CountAtLeast ==
  ASSUME NEW s, Len(s) \in Nat, NEW V, NEW a \in Nat, NEW b \in Nat, 1 <= a, b <= Len(s),
         a <= b + 1, \A i \in a .. b : s[i] \in V
  PROVE  b - a + 1 <= CountIn(s, V)
  <1> PICK S : S = {i \in 1 .. Len(s) : s[i] \in V}
    OBVIOUS
  <1>1. IsFiniteSet(S)
    <2>1. IsFiniteSet(1 .. Len(s)) /\ S \in SUBSET (1 .. Len(s))
      BY UpToFinite
    <2>2. QED
      BY <2>1, FS_Subset
  <1>2. a .. b \in SUBSET S
    OBVIOUS
  <1>3. Cardinality(a .. b) <= Cardinality(S)
    BY <1>1, <1>2, FS_Subset
  <1>4. Cardinality(a .. b) = IF a > b THEN 0 ELSE b - a + 1
    BY FS_Interval
  <1>5. Cardinality(S) \in Nat
    BY <1>1, FS_CardinalityType
  <1>6. QED
    BY <1>3, <1>4, <1>5 DEF CountIn

LEMMA SumNonnegative ==
  ASSUME NEW f, NEW S, IsFiniteSet(S), \A x \in S : f[x] \in Nat
  PROVE  SumFunctionOnSet(f, S) \in Nat
  <1> PICK o : o = [x \in S |-> 0]
    OBVIOUS
  <1>1. \A x \in S : o[x] = 0 /\ o[x] \in Int /\ f[x] \in Int /\ o[x] <= f[x]
    OBVIOUS
  <1>2. SumFunctionOnSet(o, S) = Cardinality(S) * 0
    BY <1>1, SumConstant
  <1>3. Cardinality(S) * 0 = 0
    BY FS_CardinalityType
  <1>4. SumFunctionOnSet(o, S) <= SumFunctionOnSet(f, S)
    BY <1>1, SumMonotone
  <1>5. SumFunctionOnSet(f, S) \in Int
    BY <1>1, SumInt
  <1>6. QED
    BY <1>2, <1>3, <1>4, <1>5

LEMMA TotalAtLeast ==
  ASSUME NEW f, NEW V, NEW x \in DOMAIN f, NEW y \in DOMAIN f, NEW w \in DOMAIN f,
         x # y, x # w, y # w, Lists(f)
  PROVE  CountIn(f[x], V) + CountIn(f[y], V) + CountIn(f[w], V) <= Total(f, V)
  <1> PICK c : c = Counts(f, V)
    OBVIOUS
  <1>1. \A n \in DOMAIN f : c[n] \in Nat /\ c[n] = CountIn(f[n], V)
    BY CountType DEF Counts, Lists
  <1> PICK D : D = DOMAIN f \ {x, y}
    OBVIOUS
  <1>2. IsFiniteSet(D) /\ w \in D /\ IsFiniteSet(D \ {w})
    BY FS_Subset DEF Lists
  <1>3. Total(f, V) = CountIn(f[x], V) + CountIn(f[y], V) + SumFunctionOnSet(c, D)
    <2>1. /\ Total(f, V) = CountIn(f[x], V) + CountIn(f[y], V)
                             + SumFunctionOnSet(Counts(f, V), DOMAIN f \ {x, y})
          /\ SumFunctionOnSet(Counts(f, V), DOMAIN f \ {x, y}) \in Int
      BY TotalWithout
    <2>2. QED
      BY <2>1
  <1>4. \A n \in D : c[n] \in Int
    BY <1>1
  <1>5. SumFunctionOnSet(c, D) = c[w] + SumFunctionOnSet(c, D \ {w})
    BY <1>2, <1>4, SumRemove
  <1>6. SumFunctionOnSet(c, D \ {w}) \in Nat
    BY <1>1, <1>2, SumNonnegative
  <1> PICK a \in Nat : a = c[x]
    BY <1>1
  <1> PICK b \in Nat : b = c[y]
    BY <1>1
  <1> PICK d \in Nat : d = c[w]
    BY <1>1
  <1> PICK e \in Nat : e = SumFunctionOnSet(c, D \ {w})
    BY <1>6
  <1>7. Total(f, V) = a + b + (d + e)
    BY <1>1, <1>3, <1>5
  <1>8. a + b + d <= a + b + (d + e)
    OBVIOUS
  <1>9. QED
    BY <1>1, <1>7, <1>8

FewCopies == MaxCopies <= 2 * MinDegree

(* The median of a full child belongs before or right behind the key that  *)
(* follows the child: further on there would be more copies than allowed.   *)
LEMMA MedianBehind ==
  ASSUME NEW h, NEW r, NEW lev, NEW K, Tree(h, r, lev, K), FewCopies,
         NEW x \in DOMAIN h, ~h[x].leaf, NEW i \in 1 .. Len(h[x].key) + 1,
         NEW y \in DOMAIN h, h[x].child[i] = y, Len(h[y].key) = Full,
         NEW m \in Int, m = h[y].key[MinDegree],
         \A j \in 1 .. Len(h[x].child) : Len(h[h[x].child[j]].key) >= MinDegree - 1,
         Copies(h, m) <= MaxCopies
  PROVE  /\ Behind(h[x], m) \in {i, i + 1}
         /\ Behind(h[x], m) = i + 1 => i <= Len(h[x].key) /\ h[x].key[i] = m
  <1> PICK n \in Nat : n = Len(h[x].key)
    BY NodeTypes DEF Tree, Frame
  <1> PICK s : s = h[x].key
    OBVIOUS
  <1> PICK B : B = Behind(h[x], m)
    OBVIOUS
  <1> PICK t \in Nat : t = MinDegree /\ t >= 2
    BY BTreeAssumption
  <1>1. HeapType(h) /\ Shaped(h) /\ Wired(h, r) /\ Levelled(h, lev) /\ Fenced(h, K)
    BY DEF Tree, Frame
  <1>2. Len(h[x].child) = n + 1 /\ Len(h[y].key) = 2 * t - 1 /\ t \in 1 .. 2 * t - 1
    BY <1>1 DEF Shaped, ShapedNode, Full
  <1>3. FencedNode(h[x], K[x], K) /\ FencedNode(h[y], K[y], K) /\ K[x] \subseteq Int
    BY <1>1 DEF Fenced, HeapType
  <1>4. Ints(s, n) /\ Rising(h[x])
    BY <1>3, HoldsInts DEF FencedNode
  <1>5. B \in 1 .. n + 1 /\ \A q \in 1 .. n : IF q < B THEN s[q] <= m ELSE m < s[q]
    BY <1>4, BehindIs
  <1>6. \A q \in 1 .. n : s[q] \in Int
    BY <1>4 DEF Ints
  <1>7. \A q \in 1 .. 2 * t - 1 : h[y].key[q] \in K[y] /\ h[y].key[q] \in Int
    BY <1>1, <1>2, <1>3, NodeTypes DEF FencedNode, Holds
  <1>8. \A q \in 1 .. n, j \in 1 .. n + 1 : \A v \in K[h[x].child[j]] :
          IF j <= q THEN v <= s[q] ELSE s[q] <= v
    BY <1>2, <1>3 DEF FencedNode, Beside, Apart
  <1>9. m \in K[y]
    BY <1>2, <1>7
  <1>10. \A q \in 1 .. n : IF i <= q THEN m <= s[q] ELSE s[q] <= m
    BY <1>8, <1>9
  <1>11. B >= i
    <2>1. CASE B = n + 1
      BY <2>1
    <2>2. CASE B # n + 1
      BY <1>5, <1>6, <1>10, <2>2
    <2>3. QED
      BY <2>1, <2>2
  <1>12. \A q \in 1 .. n : i <= q /\ q < B => s[q] = m
    BY <1>5, <1>6, <1>10
  <1>13. ASSUME B > i + 1 PROVE FALSE
    <2>1. i \in 1 .. n /\ i + 1 \in 1 .. n /\ s[i] = m /\ s[i + 1] = m
      BY <1>5, <1>12, <1>13
    <2> PICK w : w = h[x].child[i + 1]
      OBVIOUS
    <2>2. w \in DOMAIN h /\ w # y /\ y # x /\ w # x
      <3>1. Inside(h, r) /\ Once(h)
        BY <1>1, WiredSays
      <3>2. i \in 1 .. n + 1 /\ i + 1 \in 1 .. n + 1 /\ i # i + 1
        BY <2>1
      <3>3. w \in DOMAIN h /\ w # y
        BY <1>2, <3>1, <3>2 DEF Inside, Once
      <3>4. w \in KidSet(h[x]) /\ y \in KidSet(h[x])
        BY <1>2, <3>2 DEF KidSet, Elements
      <3>5. lev[w] + 1 = lev[x] /\ lev[y] + 1 = lev[x] /\ lev[x] \in Int
        BY <1>1, <3>4 DEF Levelled, LevelledNode, HeapType
      <3>6. QED
        BY <1>1, <3>3, <3>5 DEF Levelled, HeapType
    <2>3. \A v \in K[w] : v = m
      <3>1. \A v \in K[w] : s[i] <= v /\ v <= s[i + 1] /\ v \in Int
        <4>1. K[w] \subseteq Int
          BY <1>1, <2>2 DEF Fenced, HeapType
        <4>2. ~(i + 1 <= i) /\ i + 1 <= i + 1 /\ i + 1 \in 1 .. n + 1
          BY <2>1
        <4>3. QED
          BY <1>8, <2>1, <4>1, <4>2
      <3>2. QED
        BY <2>1, <3>1
    <2>4. \A q \in t .. 2 * t - 1 : h[y].key[q] = m
      <3>1. \A q \in t .. 2 * t - 1 : h[y].key[q] \in K[y] /\ h[y].key[q] \in Int /\ m <= h[y].key[q]
        <4>1. Up(h[y].key, 2 * t - 1)
          BY <1>2, <1>3 DEF FencedNode, Rising
        <4>2. QED
          BY <1>2, <1>7, <4>1 DEF Up
      <3>2. \A v \in K[y] : v <= s[i]
        BY <1>8, <2>1
      <3>3. QED
        BY <2>1, <3>1, <3>2, SMTT(40)
    <2> PICK f : f = KeysOf(h)
      OBVIOUS
    <2>5. Lists(f) /\ DOMAIN f = DOMAIN h /\ \A q \in DOMAIN h : f[q] = h[q].key
      BY <1>1, HeapLists
    <2>6. 2 <= CountIn(f[x], {m})
      <3>1. Len(f[x]) = n /\ i \in Nat /\ i + 1 \in Nat /\ 1 <= i /\ i + 1 <= n /\ i <= i + 1 + 1
        BY <2>1, <2>5
      <3>2. \A q \in i .. i + 1 : f[x][q] \in {m}
        BY <2>1, <2>5
      <3>3. (i + 1) - i + 1 <= CountIn(f[x], {m})
        BY <3>1, <3>2, CountAtLeast
      <3>4. (i + 1) - i + 1 = 2
        OBVIOUS
      <3>5. QED
        BY <3>3, <3>4
    <2>7. t <= CountIn(f[y], {m})
      <3>1. Len(f[y]) = 2 * t - 1 /\ 2 * t - 1 \in Nat /\ 1 <= t /\ 2 * t - 1 <= 2 * t - 1 /\ t <= 2 * t - 1 + 1
        BY <1>2, <2>5
      <3>2. \A q \in t .. 2 * t - 1 : f[y][q] \in {m}
        BY <2>4, <2>5
      <3>3. (2 * t - 1) - t + 1 <= CountIn(f[y], {m})
        BY <3>1, <3>2, CountAtLeast
      <3>4. (2 * t - 1) - t + 1 = t
        OBVIOUS
      <3>5. QED
        BY <3>3, <3>4
    <2>8. t - 1 <= CountIn(f[w], {m})
      <3> PICK u \in Nat : u = t - 1 /\ 1 <= u + 1
        OBVIOUS
      <3>1. Len(h[w].key) \in Nat /\ u <= Len(h[w].key)
        <4>1. i + 1 \in 1 .. Len(h[x].child)
          BY <1>2, <2>1
        <4>2. Len(h[w].key) >= MinDegree - 1
          BY <4>1
        <4>3. Len(h[w].key) \in Nat
          BY <1>1, <2>2, NodeTypes
        <4>4. QED
          BY <4>2, <4>3
      <3>2. f[w] = h[w].key
        BY <2>2, <2>5
      <3>3. \A q \in 1 .. u : f[w][q] \in {m}
        <4>1. FencedNode(h[w], K[w], K)
          BY <1>1, <2>2 DEF Fenced
        <4>2. \A q \in 1 .. Len(h[w].key) : h[w].key[q] = m
          BY <2>3, <4>1 DEF FencedNode, Holds
        <4>3. 1 .. u \subseteq 1 .. Len(h[w].key)
          BY <3>1
        <4>4. QED
          BY <3>2, <4>2, <4>3
      <3>4. u - 1 + 1 <= CountIn(f[w], {m})
        <4>1. Len(f[w]) \in Nat /\ u <= Len(f[w]) /\ 1 \in Nat /\ 1 <= 1
          BY <3>1, <3>2
        <4>2. QED
          BY <3>3, <4>1, CountAtLeast
      <3>5. u - 1 + 1 = t - 1
        OBVIOUS
      <3>6. QED
        BY <3>4, <3>5
    <2>9. CountIn(f[x], {m}) + CountIn(f[y], {m}) + CountIn(f[w], {m}) <= Total(f, {m})
      BY <2>2, <2>5, TotalAtLeast
    <2>10. /\ CountIn(f[x], {m}) \in Nat /\ CountIn(f[y], {m}) \in Nat /\ CountIn(f[w], {m}) \in Nat
           /\ Total(f, {m}) \in Int
      BY <2>2, <2>5, CountType, TotalType DEF Lists
    <2>11. Total(f, {m}) <= MaxCopies /\ MaxCopies \in Nat /\ MaxCopies <= 2 * t
      BY BTreeAssumption DEF Copies, FewCopies
    <2>12. QED
      BY <2>6, <2>7, <2>8, <2>9, <2>10, <2>11
  <1>14. B \in {i, i + 1}
    BY <1>5, <1>11, <1>13
  <1>15. B = i + 1 => i <= n /\ s[i] = m
    BY <1>5, <1>12
  <1>16. QED
    BY <1>14, <1>15

----------------------------------------------------------------------------
(* Inserting a key into a node, and deleting one                            *)

(* nodeInsert: the key goes behind those not greater.                       *)
LEMMA NodeInsertIs ==
  ASSUME NEW x \in NodeType, NEW k \in Keys, Behind(x, k) \in 1 .. Len(x.key) + 1
  PROVE  /\ NodeInsert(x, k).leaf = x.leaf
         /\ NodeInsert(x, k).key = InsertAt(x.key, Behind(x, k), k)
         /\ NodeInsert(x, k).key \in Seq(Keys)
         /\ x.leaf => NodeInsert(x, k).child = x.child
         /\ ~x.leaf => NodeInsert(x, k).child = InsertAt(x.child, Behind(x, k) + 1, x.child[Behind(x, k)])
         /\ NodeInsert(x, k) = [leaf |-> NodeInsert(x, k).leaf, key |-> NodeInsert(x, k).key,
                                child |-> NodeInsert(x, k).child]
  <1> PICK B : B = Behind(x, k)
    OBVIOUS
  <1> PICK s : s = InsertAt(x.key, B, k)
    OBVIOUS
  <1> PICK c : c = IF x.leaf THEN x.child ELSE InsertAt(x.child, B + 1, x.child[B])
    OBVIOUS
  <1>1. NodeInsert(x, k) = [x EXCEPT !.key = s, !.child = c]
    BY DEF NodeInsert
  <1>2. x = [leaf |-> x.leaf, key |-> x.key, child |-> x.child] /\ x.key \in Seq(Keys)
    BY DEF NodeType
  <1>3. NodeInsert(x, k) = [leaf |-> x.leaf, key |-> s, child |-> c]
    BY <1>1, <1>2
  <1>4. s \in Seq(Keys)
    BY <1>2, InsertAtIs
  <1>5. QED
    BY <1>3, <1>4

(* What the key k at place i looks like when it is inserted behind keys     *)
(* that equal it.                                                           *)
LEMMA NodeInsertKey ==
  ASSUME NEW x \in NodeType, Rising(x), NEW k \in Keys, NEW i \in 1 .. Len(x.key) + 1,
         Behind(x, k) \in i .. Len(x.key) + 1,
         \A q \in i .. Behind(x, k) - 1 : x.key[q] = k
  PROVE  /\ Without(x.key, NodeInsert(x, k).key, i) /\ NodeInsert(x, k).key[i] = k
         /\ Len(NodeInsert(x, k).key) = Len(x.key) + 1
  <1>1. x.key \in Seq(Keys)
    BY DEF NodeType
  <1> PICK B : B = Behind(x, k)
    OBVIOUS
  <1>2. B \in 1 .. Len(x.key) + 1
    BY <1>1
  <1>3. NodeInsert(x, k).key = InsertAt(x.key, B, k)
    BY <1>2, NodeInsertIs
  <1>4. Without(x.key, InsertAt(x.key, B, k), i) /\ InsertAt(x.key, B, k)[i] = k
    BY <1>1, InsertSame
  <1>5. Len(InsertAt(x.key, B, k)) = Len(x.key) + 1
    BY <1>1, <1>2, InsertAtIs
  <1>6. QED
    BY <1>3, <1>4, <1>5

(* nodeDelete: the key goes, and the child behind it.                       *)
LEMMA NodeDeleteIs ==
  ASSUME NEW x \in NodeType, ShapedNode(x), NEW i \in 1 .. Len(x.key)
  PROVE  /\ NodeDelete(x, i) \in NodeType /\ NodeDelete(x, i).leaf = x.leaf
         /\ Without(NodeDelete(x, i).key, x.key, i)
         /\ Len(NodeDelete(x, i).key) = Len(x.key) - 1
         /\ x.leaf => NodeDelete(x, i).child = x.child
         /\ ~x.leaf => /\ Without(NodeDelete(x, i).child, x.child, i + 1)
                       /\ Len(NodeDelete(x, i).child) = Len(x.child) - 1
         /\ ShapedNode(NodeDelete(x, i))
  <1> PICK s : s = RemoveAt(x.key, i)
    OBVIOUS
  <1> PICK c : c = IF x.leaf THEN x.child ELSE RemoveAt(x.child, i + 1)
    OBVIOUS
  <1>1. NodeDelete(x, i) = [x EXCEPT !.key = s, !.child = c]
    BY DEF NodeDelete
  <1>2. /\ x = [leaf |-> x.leaf, key |-> x.key, child |-> x.child]
        /\ x.key \in Seq(Keys) /\ x.child \in Seq(Nodes) /\ x.leaf \in BOOLEAN
    BY DEF NodeType
  <1>3. NodeDelete(x, i) = [leaf |-> x.leaf, key |-> s, child |-> c]
    BY <1>1, <1>2
  <1>4. s \in Seq(Keys) /\ Len(s) = Len(x.key) - 1 /\ Without(s, x.key, i)
    BY <1>2, RemoveAtIs
  <1>5. ~x.leaf => c \in Seq(Nodes) /\ Len(c) = Len(x.child) - 1 /\ Without(c, x.child, i + 1)
    <2>1. ~x.leaf => i + 1 \in 1 .. Len(x.child)
      BY <1>2 DEF ShapedNode
    <2>2. i + 1 \in 1 .. Len(x.child) =>
            /\ RemoveAt(x.child, i + 1) \in Seq(Nodes) /\ Len(RemoveAt(x.child, i + 1)) = Len(x.child) - 1
            /\ Without(RemoveAt(x.child, i + 1), x.child, i + 1)
      BY <1>2, RemoveAtIs
    <2>3. QED
      BY <2>1, <2>2
  <1>6. c \in Seq(Nodes)
    BY <1>2, <1>5
  <1>7. NodeDelete(x, i) \in NodeType
    BY <1>2, <1>3, <1>4, <1>6 DEF NodeType
  <1>8. ShapedNode(NodeDelete(x, i))
    BY <1>2, <1>3, <1>4, <1>5 DEF ShapedNode
  <1>9. QED
    BY <1>3, <1>4, <1>5, <1>7, <1>8

(* Another value at the place itself changes nothing in what is left out.   *)
Patched(u, w, i, e) == u = [w EXCEPT ![i] = e]
PatchedIs(u, v, w, i, e, S) == u \in Seq(S) /\ Without(v, u, i) /\ u[i] = e /\ Len(u) = Len(w)

LEMMA WithoutAnother ==
  ASSUME NEW S, NEW v, NEW w \in Seq(S), NEW i, Len(v) \in Nat, Without(v, w, i), NEW e \in S,
         NEW u, Patched(u, w, i, e)
  PROVE  PatchedIs(u, v, w, i, e, S)
  <1>1. i \in 1 .. Len(w) /\ Len(w) = Len(v) + 1
        /\ \A j \in 1 .. Len(v) : v[j] = IF j < i THEN w[j] ELSE w[j + 1]
    BY DEF Without
  <1>2. u \in Seq(S) /\ Len(u) = Len(w) /\ u[i] = e /\ \A j \in 1 .. Len(w) : j # i => u[j] = w[j]
    BY <1>1 DEF Patched
  <1>3. \A j \in 1 .. Len(v) : v[j] = IF j < i THEN u[j] ELSE u[j + 1]
    BY <1>1, <1>2
  <1>4. QED
    BY <1>1, <1>2, <1>3 DEF Without, PatchedIs

----------------------------------------------------------------------------
(* SplitChild divides                                                       *)

LowerHalf(w) == [w EXCEPT !.key = SubSeq(@, 1, MinDegree - 1),
                          !.child = IF w.leaf THEN @ ELSE SubSeq(@, 1, MinDegree)]
UpperHalf(w) == [leaf  |-> w.leaf,
                 key   |-> SubSeq(w.key, MinDegree + 1, Full),
                 child |-> IF w.leaf THEN << >> ELSE SubSeq(w.child, MinDegree + 1, Full + 1)]

(* The two halves of a full node.                                           *)
LEMMA HalvesOf ==
  ASSUME NEW w \in NodeType, ShapedNode(w), Len(w.key) = Full
  PROVE  /\ LowerHalf(w) \in NodeType /\ LowerHalf(w).leaf = w.leaf /\ ShapedNode(LowerHalf(w))
         /\ UpperHalf(w) \in NodeType /\ UpperHalf(w).leaf = w.leaf /\ ShapedNode(UpperHalf(w))
         /\ Len(LowerHalf(w).key) = MinDegree - 1 /\ Len(UpperHalf(w).key) = MinDegree - 1
         /\ Joined(w.key, LowerHalf(w).key, w.key[MinDegree], UpperHalf(w).key)
         /\ Cat(w.child, LowerHalf(w).child, UpperHalf(w).child)
  <1> PICK t \in Nat : t = MinDegree /\ t >= 2
    BY BTreeAssumption
  <1> PICK s \in Seq(Keys) : s = w.key
    BY DEF NodeType
  <1> PICK c \in Seq(Nodes) : c = w.child
    BY DEF NodeType
  <1>1. Full = 2 * t - 1 /\ Len(s) = 2 * t - 1 /\ t \in 1 .. Len(s) /\ t - 1 \in 0 .. Len(s) /\ t \in 0 .. Len(s)
    BY DEF Full
  <1>2. /\ w = [leaf |-> w.leaf, key |-> s, child |-> c] /\ w.leaf \in BOOLEAN
    BY DEF NodeType
  <1> PICK lk : lk = SubSeq(s, 1, t - 1)
    OBVIOUS
  <1> PICK uk : uk = SubSeq(s, t + 1, Len(s))
    OBVIOUS
  <1>3. lk \in Seq(Keys) /\ Forepart(lk, s, t - 1)
    BY <1>1, SubSeqFirst
  <1>4. uk \in Seq(Keys) /\ Rest(uk, s, t)
    BY <1>1, SubSeqLast
  <1>5. Joined(s, lk, s[t], uk) /\ Len(lk) = t - 1 /\ Len(uk) = t - 1
    <2>0. Len(s) \in Nat /\ t \in 1 .. Len(s)
      BY <1>1
    <2>1. Joined(s, lk, s[t], uk)
      BY <2>0, <1>3, <1>4, CutsJoined
    <2>2. QED
      BY <1>1, <1>3, <1>4, <2>1 DEF Forepart, Rest
  <1> PICK lc : lc = IF w.leaf THEN c ELSE SubSeq(c, 1, t)
    OBVIOUS
  <1> PICK uc : uc = IF w.leaf THEN << >> ELSE SubSeq(c, t + 1, 2 * t)
    OBVIOUS
  <1>6. lc \in Seq(Nodes) /\ uc \in Seq(Nodes) /\ Cat(c, lc, uc)
        /\ (w.leaf => lc = << >> /\ uc = << >>) /\ (~w.leaf => Len(lc) = t /\ Len(uc) = t)
    <2>1. CASE w.leaf
      <3>1. c = << >>
        BY <2>1 DEF ShapedNode
      <3>2. lc = << >> /\ uc = << >>
        BY <2>1, <3>1
      <3>3. QED
        BY <2>1, <3>1, <3>2 DEF Cat
    <2>2. CASE ~w.leaf
      <3>1. Len(c) = 2 * t /\ t \in 0 .. Len(c)
        BY <1>1, <2>2 DEF ShapedNode
      <3>2. SubSeq(c, 1, t) \in Seq(Nodes) /\ Forepart(SubSeq(c, 1, t), c, t)
        BY <3>1, SubSeqFirst
      <3>3. SubSeq(c, t + 1, Len(c)) \in Seq(Nodes) /\ Rest(SubSeq(c, t + 1, Len(c)), c, t)
        BY <3>1, SubSeqLast
      <3>4. lc = SubSeq(c, 1, t) /\ uc = SubSeq(c, t + 1, Len(c))
        BY <2>2, <3>1
      <3>5. lc \in Seq(Nodes) /\ uc \in Seq(Nodes) /\ Forepart(lc, c, t) /\ Rest(uc, c, t)
        BY <3>2, <3>3, <3>4
      <3>6. Cat(c, lc, uc)
        BY <3>1, <3>5, CutsCat
      <3>7. Len(lc) = t /\ Len(uc) = t
        BY <3>1, <3>5 DEF Forepart, Rest
      <3>8. QED
        BY <2>2, <3>5, <3>6, <3>7
    <2>3. QED
      BY <2>1, <2>2
  <1>7. LowerHalf(w) = [leaf |-> w.leaf, key |-> lk, child |-> lc]
    <2>1. LowerHalf(w) = [w EXCEPT !.key = lk, !.child = lc]
      BY DEF LowerHalf
    <2>2. QED
      BY <1>2, <2>1
  <1>8. UpperHalf(w) = [leaf |-> w.leaf, key |-> uk, child |-> uc]
    <2>1. uk = SubSeq(s, t + 1, 2 * t - 1) /\ 2 * t - 1 + 1 = 2 * t
      BY <1>1
    <2>2. QED
      BY <1>1, <2>1 DEF UpperHalf
  <1>9. LowerHalf(w) \in NodeType /\ UpperHalf(w) \in NodeType
    BY <1>2, <1>3, <1>4, <1>6, <1>7, <1>8, SMTT(40) DEF NodeType
  <1>10. ShapedNode(LowerHalf(w)) /\ ShapedNode(UpperHalf(w))
    BY <1>5, <1>6, <1>7, <1>8 DEF ShapedNode
  <1>11. /\ Joined(w.key, LowerHalf(w).key, w.key[MinDegree], UpperHalf(w).key)
         /\ Cat(w.child, LowerHalf(w).child, UpperHalf(w).child)
    BY <1>5, <1>6, <1>7, <1>8
  <1>12. /\ LowerHalf(w).leaf = w.leaf /\ UpperHalf(w).leaf = w.leaf
         /\ Len(LowerHalf(w).key) = MinDegree - 1 /\ Len(UpperHalf(w).key) = MinDegree - 1
    BY <1>5, <1>7, <1>8
  <1>13. QED
    BY <1>9, <1>10, <1>11, <1>12

ParentWith(w, m, z, i) == [NodeInsert(w, m) EXCEPT !.child[i + 1] = z]

ParentIs(p, w, m, z, i) ==
  /\ p \in NodeType /\ ~p.leaf /\ ShapedNode(p) /\ Len(p.key) = Len(w.key) + 1
  /\ Without(w.key, p.key, i) /\ p.key[i] = m
  /\ Without(w.child, p.child, i + 1) /\ p.child[i + 1] = z

(* The parent gets the median and, behind it, the new child.                *)
LEMMA ParentOf ==
  ASSUME NEW w \in NodeType, ShapedNode(w), ~w.leaf, Rising(w), NEW m \in Keys, NEW z \in Nodes,
         NEW i \in 1 .. Len(w.key) + 1,
         Behind(w, m) \in 1 .. Len(w.key) + 1, Behind(w, m) \in {i, i + 1},
         Behind(w, m) = i + 1 => w.key[i] = m
  PROVE  ParentIs(ParentWith(w, m, z, i), w, m, z, i)
  <1> PICK B : B = Behind(w, m)
    OBVIOUS
  <1>1. w.key \in Seq(Keys) /\ w.child \in Seq(Nodes) /\ Len(w.child) = Len(w.key) + 1 /\ Len(w.key) \in Nat
    BY DEF NodeType, ShapedNode
  <1> PICK v : v = NodeInsert(w, m)
    OBVIOUS
  <1>2. /\ v.leaf = w.leaf /\ v.key \in Seq(Keys)
        /\ v.child = InsertAt(w.child, B + 1, w.child[B])
        /\ v = [leaf |-> v.leaf, key |-> v.key, child |-> v.child]
    BY NodeInsertIs
  <1>3. Without(w.key, v.key, i) /\ v.key[i] = m /\ Len(v.key) = Len(w.key) + 1
    <2>1. B \in i .. Len(w.key) + 1 /\ \A q \in i .. B - 1 : w.key[q] = m
      BY <1>1
    <2>2. QED
      BY <2>1, NodeInsertKey
  <1>4. v.child \in Seq(Nodes) /\ Len(v.child) = Len(w.child) + 1 /\ Without(w.child, v.child, i + 1)
    <2>1. w.child[B] \in Nodes /\ B + 1 \in 1 .. Len(w.child) + 1 /\ i + 1 \in 1 .. Len(w.child) + 1
      BY <1>1
    <2>2. B + 1 \in i + 1 .. Len(w.child) + 1 /\ \A q \in i + 1 .. (B + 1) - 1 : w.child[q] = w.child[B]
      BY <1>1
    <2> PICK e \in Nodes : e = w.child[B]
      BY <2>1
    <2> PICK j \in i + 1 .. Len(w.child) + 1 : j = B + 1
      BY <2>2
    <2>3. \A q \in i + 1 .. j - 1 : w.child[q] = e
      BY <2>2
    <2>4. Without(w.child, InsertAt(w.child, j, e), i + 1)
      BY <1>1, <2>1, <2>3, InsertSame
    <2>5. j \in 1 .. Len(w.child) + 1
      BY <2>1
    <2>6. InsertAt(w.child, j, e) \in Seq(Nodes) /\ Len(InsertAt(w.child, j, e)) = Len(w.child) + 1
      <3>1. w.child \in Seq(Nodes) /\ e \in Nodes /\ j \in 1 .. Len(w.child) + 1
        BY <1>1, <2>5
      <3>2. QED
        BY <3>1, InsertAtIs
    <2>7. QED
      BY <1>2, <2>4, <2>6
  <1> PICK c : c = [v.child EXCEPT ![i + 1] = z]
    OBVIOUS
  <1>5. c \in Seq(Nodes) /\ Without(w.child, c, i + 1) /\ c[i + 1] = z /\ Len(c) = Len(v.child)
    <2> PICK j : j = i + 1
      OBVIOUS
    <2>1. Len(w.child) \in Nat /\ v.child \in Seq(Nodes) /\ Without(w.child, v.child, j)
      BY <1>1, <1>4
    <2>2. Patched(c, v.child, j, z)
      BY DEF Patched
    <2>3. PatchedIs(c, w.child, v.child, j, z, Nodes)
      BY <2>1, <2>2, WithoutAnother
    <2>4. QED
      BY <2>3 DEF PatchedIs
  <1>6. ParentWith(w, m, z, i) = [leaf |-> v.leaf, key |-> v.key, child |-> c]
    BY <1>2 DEF ParentWith
  <1>7. ParentWith(w, m, z, i) \in NodeType /\ ShapedNode(ParentWith(w, m, z, i))
    <2>1. v.leaf \in BOOLEAN
      BY <1>2 DEF NodeType
    <2>2. Len(c) = Len(v.key) + 1
      BY <1>1, <1>3, <1>4, <1>5
    <2>3. QED
      BY <1>2, <1>5, <1>6, <2>1, <2>2 DEF NodeType, ShapedNode
  <1>8. /\ Len(ParentWith(w, m, z, i).key) = Len(w.key) + 1 /\ ~ParentWith(w, m, z, i).leaf
        /\ Without(w.key, ParentWith(w, m, z, i).key, i) /\ ParentWith(w, m, z, i).key[i] = m
    BY <1>2, <1>3, <1>6
  <1>9. /\ Without(w.child, ParentWith(w, m, z, i).child, i + 1)
        /\ ParentWith(w, m, z, i).child[i + 1] = z
    BY <1>5, <1>6
  <1>10. QED
    BY <1>7, <1>8, <1>9 DEF ParentIs

(* h may be divided at child i of x: the child is full, and there is memory. *)
Splittable(h, x, i) ==
  /\ x \in DOMAIN h /\ ~h[x].leaf /\ i \in 1 .. Len(h[x].key) + 1
  /\ Len(h[h[x].child[i]].key) = Full
  /\ \A j \in 1 .. Len(h[x].child) : Len(h[h[x].child[j]].key) >= MinDegree - 1
  /\ NewNode(h) \in Nodes \ DOMAIN h
  /\ \A k \in Keys : Copies(h, k) <= MaxCopies

SplitSizes(h, g, x, y, z) ==
  /\ Len(g[x].key) = Len(h[x].key) + 1
  /\ Len(g[y].key) = MinDegree - 1 /\ Len(g[z].key) = MinDegree - 1

(* A child of a node is a node one level lower.                             *)
LEMMA ChildIs ==
  ASSUME NEW h, NEW r, NEW lev, Frame(h, r, lev), NEW x \in DOMAIN h, NEW i \in 1 .. Len(h[x].child)
  PROVE  /\ h[x].child[i] \in DOMAIN h \ {r} /\ h[x].child[i] # x
         /\ h[x].child[i] \in KidSet(h[x])
         /\ lev[h[x].child[i]] \in Nat /\ lev[x] \in Nat /\ lev[h[x].child[i]] + 1 = lev[x]
  <1>1. HeapType(h) /\ Shaped(h) /\ Wired(h, r) /\ Levelled(h, lev)
    BY DEF Frame
  <1>2. Inside(h, r)
    BY <1>1, WiredSays
  <1>3. h[x].child[i] \in DOMAIN h \ {r} /\ h[x].child[i] \in KidSet(h[x])
    BY <1>2 DEF Inside, KidSet, Elements
  <1>4. lev[h[x].child[i]] \in Nat /\ lev[x] \in Nat /\ lev[h[x].child[i]] + 1 = lev[x]
    BY <1>1, <1>3 DEF Levelled, LevelledNode, HeapType
  <1>5. QED
    BY <1>3, <1>4

(* An inner node has one child more than it has keys.                       *)
LEMMA KidsCount ==
  ASSUME NEW h, HeapType(h), Shaped(h), NEW x \in DOMAIN h, ~h[x].leaf
  PROVE  Len(h[x].child) = Len(h[x].key) + 1 /\ Len(h[x].key) \in Nat
  BY NodeTypes DEF Shaped, ShapedNode

SplitHeap(h, x, y, z, m, i) ==
  [n \in DOMAIN h \cup {z} |->
     CASE n = x -> ParentWith(h[x], m, z, i) [] n = y -> LowerHalf(h[y])
       [] n = z -> UpperHalf(h[y]) [] OTHER -> h[n]]

LEMMA SplitChildIs ==
  ASSUME NEW h, NEW x, NEW i
  PROVE  SplitChild(h, x, i) =
           SplitHeap(h, x, h[x].child[i], NewNode(h), h[h[x].child[i]].key[MinDegree], i)
  BY DEF SplitChild, SplitHeap, LowerHalf, UpperHalf, ParentWith

(* splitChild divides the child, as long as the median does not go past a   *)
(* key of the parent that follows the child.                                *)
LEMMA SplitIs ==
  ASSUME NEW h, NEW r, NEW lev, NEW K, Tree(h, r, lev, K), FewCopies,
         NEW x, NEW i, Splittable(h, x, i)
  PROVE  /\ Divided(h, SplitChild(h, x, i), x, h[x].child[i], NewNode(h), i)
         /\ SplitSizes(h, SplitChild(h, x, i), x, h[x].child[i], NewNode(h))
  <1> PICK y : y = h[x].child[i]
    OBVIOUS
  <1> PICK z : z = NewNode(h)
    OBVIOUS
  <1> PICK g : g = SplitChild(h, x, i)
    OBVIOUS
  <1> PICK m : m = h[y].key[MinDegree]
    OBVIOUS
  <1>1. /\ x \in DOMAIN h /\ ~h[x].leaf /\ i \in 1 .. Len(h[x].key) + 1 /\ Len(h[y].key) = Full
        /\ z \in Nodes \ DOMAIN h
    BY DEF Splittable
  <1>2. HeapType(h) /\ Shaped(h) /\ Frame(h, r, lev) /\ Fenced(h, K)
    BY DEF Tree, Frame
  <1>3. Len(h[x].child) = Len(h[x].key) + 1 /\ i \in 1 .. Len(h[x].child) /\ Len(h[x].key) \in Nat
    BY <1>1, <1>2, KidsCount
  <1>4. y \in DOMAIN h /\ x # y
    BY <1>1, <1>2, <1>3, ChildIs
  <1>5. h[x] \in NodeType /\ h[y] \in NodeType /\ ShapedNode(h[x]) /\ ShapedNode(h[y])
    BY <1>1, <1>2, <1>4 DEF HeapType, Shaped
  <1>6. m \in Keys /\ m \in Int
    <2>1. MinDegree \in 1 .. Full
      BY BTreeAssumption DEF Full
    <2>2. QED
      BY <1>1, <1>2, <1>4, <2>1, NodeTypes
  <1>7. Rising(h[x]) /\ Ints(h[x].key, Len(h[x].key))
    BY <1>1, <1>2, HoldsInts DEF Fenced, FencedNode, HeapType
  <1>8. Behind(h[x], m) \in {i, i + 1} /\ (Behind(h[x], m) = i + 1 => i <= Len(h[x].key) /\ h[x].key[i] = m)
    <2>1. \A j \in 1 .. Len(h[x].child) : Len(h[h[x].child[j]].key) >= MinDegree - 1
      BY DEF Splittable
    <2>2. Copies(h, m) <= MaxCopies
      BY <1>6 DEF Splittable
    <2>3. QED
      BY <1>1, <1>4, <1>6, <2>1, <2>2, MedianBehind
  <1>9. Behind(h[x], m) \in 1 .. Len(h[x].key) + 1
    BY <1>3, <1>6, <1>7, BehindIs
  <1> PICK low : low = LowerHalf(h[y])
    OBVIOUS
  <1> PICK up : up = UpperHalf(h[y])
    OBVIOUS
  <1> PICK par : par = ParentWith(h[x], m, z, i)
    OBVIOUS
  <1>10. g = [n \in DOMAIN h \cup {z} |->
                CASE n = x -> par [] n = y -> low [] n = z -> up [] OTHER -> h[n]]
    <2>1. g = SplitHeap(h, x, y, z, m, i)
      BY SplitChildIs
    <2>2. QED
      BY <2>1 DEF SplitHeap
  <1>11. /\ DOMAIN g = DOMAIN h \cup {z} /\ g[x] = par /\ g[y] = low /\ g[z] = up
         /\ \A n \in DOMAIN h \ {x, y} : g[n] = h[n]
    BY <1>1, <1>4, <1>10
  <1>12. /\ low \in NodeType /\ low.leaf = h[y].leaf /\ ShapedNode(low)
         /\ up \in NodeType /\ up.leaf = h[y].leaf /\ ShapedNode(up)
         /\ Len(low.key) = MinDegree - 1 /\ Len(up.key) = MinDegree - 1
         /\ Joined(h[y].key, low.key, m, up.key)
         /\ Cat(h[y].child, low.child, up.child)
    BY <1>1, <1>5, HalvesOf
  <1>13. /\ par \in NodeType /\ ~par.leaf /\ ShapedNode(par) /\ Len(par.key) = Len(h[x].key) + 1
         /\ Without(h[x].key, par.key, i) /\ par.key[i] = m
         /\ Without(h[x].child, par.child, i + 1) /\ par.child[i + 1] = z
    <2> PICK w \in NodeType : w = h[x]
      BY <1>5
    <2>1. /\ ShapedNode(w) /\ ~w.leaf /\ Rising(w) /\ i \in 1 .. Len(w.key) + 1
          /\ Behind(w, m) \in 1 .. Len(w.key) + 1 /\ Behind(w, m) \in {i, i + 1}
          /\ Behind(w, m) = i + 1 => w.key[i] = m
          /\ m \in Keys /\ z \in Nodes
      BY <1>1, <1>5, <1>6, <1>7, <1>8, <1>9
    <2>2. ParentIs(ParentWith(w, m, z, i), w, m, z, i)
      BY <2>1, ParentOf
    <2>3. QED
      BY <2>2 DEF ParentIs
  <1>14. par.child[i] = y
    <2>1. \A j \in 1 .. Len(h[x].child) : h[x].child[j] = IF j < i + 1 THEN par.child[j] ELSE par.child[j + 1]
      BY <1>13 DEF Without
    <2>2. i < i + 1
      BY <1>3
    <2>3. QED
      BY <1>3, <2>1, <2>2
  <1>15. HeapType(g) /\ Shaped(g)
    <2>1. \A n \in DOMAIN g : g[n] \in NodeType /\ ShapedNode(g[n])
      <3>1. \A n \in DOMAIN h : h[n] \in NodeType /\ ShapedNode(h[n])
        BY <1>2 DEF HeapType, Shaped
      <3>2. QED
        BY <1>11, <1>12, <1>13, <3>1
    <2>2. DOMAIN g \subseteq Nodes
      BY <1>1, <1>2, <1>11 DEF HeapType
    <2>3. g = [n \in DOMAIN g |-> g[n]]
      BY <1>10
    <2>4. QED
      BY <2>1, <2>2, <2>3 DEF HeapType, Shaped
  <1>16. SameOn(h, g, DOMAIN h \ {x, y})
    BY <1>11 DEF SameOn
  <1>17. /\ Without(h[x].key, g[x].key, i) /\ Without(h[x].child, g[x].child, i + 1)
         /\ Joined(h[y].key, g[y].key, g[x].key[i], g[z].key)
         /\ Cat(h[y].child, g[y].child, g[z].child)
    BY <1>11, <1>12, <1>13
  <1>18. /\ ~g[x].leaf /\ (g[y].leaf <=> h[y].leaf) /\ (g[z].leaf <=> h[y].leaf)
         /\ h[x].child[i] = y /\ g[x].child[i] = y /\ g[x].child[i + 1] = z
    BY <1>11, <1>12, <1>13, <1>14
  <1>19. Divided(h, g, x, y, z, i)
    BY <1>1, <1>2, <1>4, <1>11, <1>15, <1>16, <1>17, <1>18 DEF Divided
  <1>20. SplitSizes(h, g, x, y, z)
    BY <1>11, <1>12, <1>13 DEF SplitSizes
  <1>21. QED
    BY <1>19, <1>20

----------------------------------------------------------------------------
(* Merging, the other way round: a merged tree can be divided into the one  *)
(* it came from, and borrowing is dividing it elsewhere                     *)

Melt(h, p, i) ==
  LET left  == h[p].child[i]
      right == h[p].child[i + 1]
      all   == [h[left] EXCEPT !.key = @ \o <<h[p].key[i]>> \o h[right].key,
                               !.child = @ \o h[right].child]
  IN  [n \in DOMAIN h \ {right} |->
         CASE n = p -> NodeDelete(h[p], i) [] n = left -> all [] OTHER -> h[n]]

MeltedNode(v, w, k) == [v EXCEPT !.key = @ \o <<k>> \o w.key, !.child = @ \o w.child]

MeltedIs(x, v, w, k) ==
  /\ x \in NodeType /\ x.leaf = v.leaf /\ ShapedNode(x)
  /\ Len(x.key) = Len(v.key) + 1 + Len(w.key)
  /\ Joined(x.key, v.key, k, w.key) /\ Cat(x.child, v.child, w.child)

LEMMA MeltedShape ==
  ASSUME NEW x \in NodeType, NEW v \in NodeType, NEW w \in NodeType, ShapedNode(v), ShapedNode(w),
         v.leaf <=> w.leaf, x.leaf = v.leaf, Len(x.key) = Len(v.key) + 1 + Len(w.key),
         Len(x.child) = Len(v.child) + Len(w.child)
  PROVE  ShapedNode(x)
  <1>1. /\ Len(v.key) \in Nat /\ Len(w.key) \in Nat /\ x.child \in Seq(Nodes)
    BY DEF NodeType
  <1>2. CASE v.leaf
    <2>1. v.child = << >> /\ w.child = << >>
      BY <1>2 DEF ShapedNode
    <2>2. Len(v.child) = 0 /\ Len(w.child) = 0
      BY <2>1
    <2>3. Len(x.child) = 0
      BY <2>2
    <2>4. x.child = << >>
      BY <1>1, <2>3
    <2>5. QED
      BY <1>2, <2>4 DEF ShapedNode
  <1>3. CASE ~v.leaf
    <2>1. Len(v.child) = Len(v.key) + 1 /\ Len(w.child) = Len(w.key) + 1
      BY <1>3 DEF ShapedNode
    <2>2. \A a, b \in Nat : (a + 1) + (b + 1) = (a + 1 + b) + 1
      OBVIOUS
    <2>3. Len(x.child) = (Len(v.key) + 1) + (Len(w.key) + 1)
      BY <2>1
    <2>4. Len(x.child) = Len(x.key) + 1
      BY <1>1, <2>2, <2>3
    <2>5. QED
      BY <1>3, <2>4 DEF ShapedNode
  <1>4. QED
    BY <1>2, <1>3

(* The merged node is the left one, the key between, and the right one.     *)
LEMMA MeltedNodeIs ==
  ASSUME NEW v \in NodeType, NEW w \in NodeType, ShapedNode(v), ShapedNode(w), v.leaf <=> w.leaf,
         NEW k \in Keys
  PROVE  MeltedIs(MeltedNode(v, w, k), v, w, k)
  <1> PICK x : x = MeltedNode(v, w, k)
    OBVIOUS
  <1>1. /\ v = [leaf |-> v.leaf, key |-> v.key, child |-> v.child]
        /\ v.key \in Seq(Keys) /\ v.child \in Seq(Nodes) /\ v.leaf \in BOOLEAN
        /\ w.key \in Seq(Keys) /\ w.child \in Seq(Nodes) /\ w.leaf \in BOOLEAN
    BY DEF NodeType
  <1> PICK s \in Seq(Keys) : s = v.key \o <<k>> \o w.key /\ Len(s) = Len(v.key) + 1 + Len(w.key)
                             /\ Joined(s, v.key, k, w.key)
    BY <1>1, JoinSeq
  <1> PICK c \in Seq(Nodes) : c = v.child \o w.child /\ Len(c) = Len(v.child) + Len(w.child)
                              /\ Cat(c, v.child, w.child)
    BY <1>1, CatSeq
  <1>2. x = [v EXCEPT !.key = s, !.child = c]
    BY DEF MeltedNode
  <1>3. x = [leaf |-> v.leaf, key |-> s, child |-> c]
    BY <1>1, <1>2
  <1>4. x \in NodeType
    BY <1>1, <1>3 DEF NodeType
  <1>5. ShapedNode(x)
    <2>1. Len(x.key) = Len(v.key) + 1 + Len(w.key) /\ Len(x.child) = Len(v.child) + Len(w.child) /\ x.leaf = v.leaf
      BY <1>3
    <2>2. QED
      BY <1>4, <2>1, MeltedShape
  <1>6. QED
    BY <1>3, <1>4, <1>5 DEF MeltedIs

MeltHeap(h, p, left, right, i) ==
  [n \in DOMAIN h \ {right} |->
     CASE n = p -> NodeDelete(h[p], i) [] n = left -> MeltedNode(h[left], h[right], h[p].key[i])
       [] OTHER -> h[n]]

LEMMA MeltIsHeap ==
  ASSUME NEW h, NEW p, NEW i
  PROVE  Melt(h, p, i) = MeltHeap(h, p, h[p].child[i], h[p].child[i + 1], i)
  BY DEF Melt, MeltHeap, MeltedNode

(* The two children of p that are to be merged.                             *)
Siblings(h, p, i, left, right) ==
  /\ p \in DOMAIN h /\ ~h[p].leaf /\ i \in 1 .. Len(h[p].key)
  /\ left = h[p].child[i] /\ right = h[p].child[i + 1]

LEMMA SiblingsAre ==
  ASSUME NEW h, NEW r, NEW lev, Frame(h, r, lev), NEW p, NEW i, NEW left, NEW right,
         Siblings(h, p, i, left, right)
  PROVE  /\ left \in DOMAIN h \ {r} /\ right \in DOMAIN h \ {r}
         /\ left # right /\ p # left /\ p # right
         /\ (h[left].leaf <=> h[right].leaf) /\ lev[left] = lev[right]
         /\ lev[left] \in Nat /\ lev[p] \in Nat /\ lev[left] + 1 = lev[p]
         /\ h[p] \in NodeType /\ h[left] \in NodeType /\ h[right] \in NodeType
         /\ ShapedNode(h[p]) /\ ShapedNode(h[left]) /\ ShapedNode(h[right])
         /\ h[p].key[i] \in Keys
         /\ Len(h[p].child) = Len(h[p].key) + 1 /\ Len(h[p].key) \in Nat
  <1>1. HeapType(h) /\ Shaped(h) /\ Wired(h, r) /\ Levelled(h, lev)
    BY DEF Frame
  <1>2. /\ p \in DOMAIN h /\ ~h[p].leaf /\ i \in 1 .. Len(h[p].key)
        /\ left = h[p].child[i] /\ right = h[p].child[i + 1]
    BY DEF Siblings
  <1>3. Len(h[p].child) = Len(h[p].key) + 1 /\ Len(h[p].key) \in Nat
    BY <1>1, <1>2, KidsCount
  <1>4. i \in 1 .. Len(h[p].child) /\ i + 1 \in 1 .. Len(h[p].child) /\ i # i + 1
    BY <1>2, <1>3
  <1>5. /\ left \in DOMAIN h \ {r} /\ left # p /\ left \in KidSet(h[p])
        /\ lev[left] \in Nat /\ lev[p] \in Nat /\ lev[left] + 1 = lev[p]
    BY <1>2, <1>4, ChildIs
  <1>6. /\ right \in DOMAIN h \ {r} /\ right # p /\ right \in KidSet(h[p])
        /\ lev[right] \in Nat /\ lev[right] + 1 = lev[p]
    BY <1>2, <1>4, ChildIs
  <1>7. left # right
    BY <1>1, <1>2, <1>4, WiredSays DEF Once
  <1>8. lev[left] = lev[right]
    BY <1>5, <1>6
  <1>9. h[left].leaf <=> h[right].leaf
    BY <1>1, <1>5, <1>6, <1>8 DEF Levelled, LevelledNode
  <1>10. /\ h[p] \in NodeType /\ h[left] \in NodeType /\ h[right] \in NodeType
         /\ ShapedNode(h[p]) /\ ShapedNode(h[left]) /\ ShapedNode(h[right])
    BY <1>1, <1>2, <1>5, <1>6 DEF HeapType, Shaped
  <1>11. h[p].key[i] \in Keys
    BY <1>1, <1>2, NodeTypes
  <1>12. QED
    BY <1>3, <1>5, <1>6, <1>7, <1>8, <1>9, <1>10, <1>11

(* Merging is the reverse of dividing.                                      *)
LEMMA MeltIs ==
  ASSUME NEW h, NEW r, NEW lev, Frame(h, r, lev), NEW p, NEW i, NEW left, NEW right,
         Siblings(h, p, i, left, right)
  PROVE  /\ Divided(Melt(h, p, i), h, p, left, right, i)
         /\ Len(Melt(h, p, i)[left].key) = Len(h[left].key) + 1 + Len(h[right].key)
         /\ Len(Melt(h, p, i)[p].key) = Len(h[p].key) - 1
  <1> PICK e : e = Melt(h, p, i)
    OBVIOUS
  <1> PICK all : all = MeltedNode(h[left], h[right], h[p].key[i])
    OBVIOUS
  <1> PICK rest : rest = NodeDelete(h[p], i)
    OBVIOUS
  <1>1. HeapType(h) /\ Shaped(h)
    BY DEF Frame
  <1>2. /\ p \in DOMAIN h /\ ~h[p].leaf /\ i \in 1 .. Len(h[p].key)
        /\ left = h[p].child[i] /\ right = h[p].child[i + 1]
    BY DEF Siblings
  <1>3. /\ left \in DOMAIN h /\ right \in DOMAIN h /\ left # right /\ p # left /\ p # right
        /\ (h[left].leaf <=> h[right].leaf)
        /\ h[p] \in NodeType /\ h[left] \in NodeType /\ h[right] \in NodeType
        /\ ShapedNode(h[p]) /\ ShapedNode(h[left]) /\ ShapedNode(h[right]) /\ h[p].key[i] \in Keys
        /\ Len(h[p].child) = Len(h[p].key) + 1 /\ Len(h[p].key) \in Nat
    BY SiblingsAre
  <1>4. e = MeltHeap(h, p, left, right, i)
    BY <1>2, MeltIsHeap
  <1>5. e = [n \in DOMAIN h \ {right} |-> CASE n = p -> rest [] n = left -> all [] OTHER -> h[n]]
    BY <1>4 DEF MeltHeap
  <1>6. /\ DOMAIN e = DOMAIN h \ {right} /\ e[p] = rest /\ e[left] = all
        /\ \A n \in DOMAIN e \ {p, left} : e[n] = h[n]
    BY <1>2, <1>3, <1>5
  <1>7. MeltedIs(all, h[left], h[right], h[p].key[i])
    BY <1>3, MeltedNodeIs
  <1>8. /\ all \in NodeType /\ all.leaf = h[left].leaf /\ ShapedNode(all)
        /\ Len(all.key) = Len(h[left].key) + 1 + Len(h[right].key)
        /\ Joined(all.key, h[left].key, h[p].key[i], h[right].key)
        /\ Cat(all.child, h[left].child, h[right].child)
    BY <1>7 DEF MeltedIs
  <1>9. /\ rest \in NodeType /\ ~rest.leaf /\ ShapedNode(rest)
        /\ Without(rest.key, h[p].key, i) /\ Len(rest.key) = Len(h[p].key) - 1
        /\ Without(rest.child, h[p].child, i + 1)
    BY <1>2, <1>3, NodeDeleteIs, SMTT(40)
  <1>10. HeapType(e) /\ Shaped(e)
    <2>1. \A n \in DOMAIN e : e[n] \in NodeType /\ ShapedNode(e[n])
      <3>1. \A n \in DOMAIN h : h[n] \in NodeType /\ ShapedNode(h[n])
        BY <1>1 DEF HeapType, Shaped
      <3>2. QED
        BY <1>6, <1>8, <1>9, <3>1
    <2>2. DOMAIN e \subseteq Nodes
      BY <1>1, <1>6 DEF HeapType
    <2>3. e = [n \in DOMAIN e |-> e[n]]
      BY <1>5
    <2>4. QED
      BY <2>1, <2>2, <2>3 DEF HeapType, Shaped
  <1>11. /\ DOMAIN h = DOMAIN e \cup {right} /\ p \in DOMAIN e /\ left \in DOMAIN e
         /\ right \in Nodes \ DOMAIN e
    BY <1>1, <1>2, <1>3, <1>6 DEF HeapType
  <1>12. SameOn(e, h, DOMAIN e \ {p, left})
    BY <1>6 DEF SameOn
  <1>13. rest.child[i] = left
    <2>1. /\ i + 1 \in 1 .. Len(h[p].child) /\ Len(h[p].child) = Len(rest.child) + 1
          /\ \A j \in 1 .. Len(rest.child) :
               rest.child[j] = IF j < i + 1 THEN h[p].child[j] ELSE h[p].child[j + 1]
      BY <1>9 DEF Without
    <2>2. i \in 1 .. Len(rest.child) /\ i < i + 1
      BY <1>2, <1>3, <2>1
    <2>3. QED
      BY <1>2, <2>1, <2>2
  <1>14. i \in 1 .. Len(rest.key) + 1
    BY <1>2, <1>3, <1>9
  <1>15. /\ Without(e[p].key, h[p].key, i) /\ Without(e[p].child, h[p].child, i + 1)
         /\ Joined(e[left].key, h[left].key, h[p].key[i], h[right].key)
         /\ Cat(e[left].child, h[left].child, h[right].child)
    BY <1>6, <1>8, <1>9
  <1>16. /\ ~e[p].leaf /\ (h[left].leaf <=> e[left].leaf) /\ (h[right].leaf <=> e[left].leaf)
         /\ e[p].child[i] = left /\ i \in 1 .. Len(e[p].key) + 1
    BY <1>3, <1>6, <1>8, <1>9, <1>13, <1>14
  <1>17. Divided(e, h, p, left, right, i)
    BY <1>1, <1>2, <1>3, <1>10, <1>11, <1>12, <1>15, <1>16 DEF Divided
  <1>18. QED
    BY <1>6, <1>8, <1>9, <1>17

(* An element moves from one part into the other, and the one between them  *)
(* moves on.                                                                *)
LEMMA ShiftRight ==
  ASSUME NEW w, NEW s, NEW m, NEW t, NEW s2, NEW t2, Len(s2) \in Nat, Len(t) \in Nat,
         Joined(w, s, m, t), Without(s2, s, Len(s)), Without(t, t2, 1), t2[1] = m
  PROVE  Joined(w, s2, s[Len(s)], t2)
  <1> PICK a \in Nat : a = Len(s2)
    OBVIOUS
  <1> PICK b \in Nat : b = Len(t)
    OBVIOUS
  <1>1. /\ Len(s) = a + 1
        /\ \A j \in 1 .. a : s2[j] = IF j < a + 1 THEN s[j] ELSE s[j + 1]
    BY DEF Without
  <1>2. /\ Len(t2) = b + 1
        /\ \A j \in 1 .. b : t[j] = IF j < 1 THEN t2[j] ELSE t2[j + 1]
    BY DEF Without
  <1>3. Len(w) = a + 1 + 1 + b
    BY <1>1 DEF Joined
  <1>4. \A i \in 1 .. a + 1 + 1 + b :
          w[i] = IF i <= a + 1 THEN s[i] ELSE IF i = a + 1 + 1 THEN m ELSE t[i - (a + 1) - 1]
    BY <1>1, <1>3 DEF Joined
  <1>5. ASSUME NEW i \in 1 .. a + 1 + 1 + b
        PROVE  w[i] = IF i <= a THEN s2[i] ELSE IF i = a + 1 THEN s[a + 1] ELSE t2[i - a - 1]
    <2>1. CASE i <= a
      BY <1>1, <1>4, <2>1
    <2>2. CASE i = a + 1
      BY <1>4, <2>2
    <2>3. CASE i = a + 1 + 1
      <3>1. w[i] = m /\ i - a - 1 = 1 /\ ~(i <= a) /\ i # a + 1
        BY <1>4, <2>3
      <3>2. QED
        BY <3>1
    <2>4. CASE i > a + 1 + 1
      <3>0. w[i] = t[i - (a + 1) - 1]
        BY <1>4, <2>4, SMTT(40)
      <3>1. i - (a + 1) - 1 \in 1 .. b /\ (i - (a + 1) - 1) + 1 = i - a - 1
        BY <2>4
      <3>2. QED
        BY <1>2, <2>4, <3>0, <3>1
    <2>5. QED
      BY <2>1, <2>2, <2>3, <2>4
  <1>6. a + 1 + (b + 1) = a + 1 + 1 + b
    OBVIOUS
  <1>7. QED
    BY <1>1, <1>2, <1>3, <1>5, <1>6 DEF Joined

(* The same from the right.                                                 *)
LEMMA ShiftLeft ==
  ASSUME NEW w, NEW s, NEW m, NEW t, NEW s2, NEW t2, Len(s) \in Nat, Len(t2) \in Nat,
         Joined(w, s, m, t), Without(s, s2, Len(s) + 1), s2[Len(s) + 1] = m, Without(t2, t, 1)
  PROVE  Joined(w, s2, t[1], t2)
  <1> PICK a \in Nat : a = Len(s)
    OBVIOUS
  <1> PICK b \in Nat : b = Len(t2)
    OBVIOUS
  <1>1. /\ Len(s2) = a + 1
        /\ \A j \in 1 .. a : s[j] = IF j < a + 1 THEN s2[j] ELSE s2[j + 1]
    BY DEF Without
  <1>2. /\ Len(t) = b + 1
        /\ \A j \in 1 .. b : t2[j] = IF j < 1 THEN t[j] ELSE t[j + 1]
    BY DEF Without
  <1>3. Len(w) = a + 1 + (b + 1)
    BY <1>2 DEF Joined
  <1>4. \A i \in 1 .. a + 1 + (b + 1) :
          w[i] = IF i <= a THEN s[i] ELSE IF i = a + 1 THEN m ELSE t[i - a - 1]
    BY <1>2, <1>3 DEF Joined
  <1>5. ASSUME NEW i \in 1 .. a + 1 + (b + 1)
        PROVE  w[i] = IF i <= a + 1 THEN s2[i] ELSE IF i = a + 1 + 1 THEN t[1] ELSE t2[i - (a + 1) - 1]
    <2>1. CASE i <= a
      BY <1>1, <1>4, <2>1
    <2>2. CASE i = a + 1
      BY <1>4, <2>2
    <2>3. CASE i = a + 1 + 1
      <3>1. w[i] = t[i - a - 1] /\ i - a - 1 = 1 /\ ~(i <= a + 1)
        BY <1>4, <2>3
      <3>2. QED
        BY <2>3, <3>1
    <2>4. CASE i > a + 1 + 1
      <3>1. /\ w[i] = t[i - a - 1] /\ i - (a + 1) - 1 \in 1 .. b
            /\ (i - (a + 1) - 1) + 1 = i - a - 1
        BY <1>4, <2>4
      <3>2. QED
        BY <1>2, <2>4, <3>1, SMTT(40)
    <2>5. QED
      BY <2>1, <2>2, <2>3, <2>4
  <1>6. a + 1 + (b + 1) = a + 1 + 1 + b
    OBVIOUS
  <1>7. QED
    BY <1>1, <1>2, <1>3, <1>5, <1>6 DEF Joined

LEMMA CatShiftRight ==
  ASSUME NEW w, NEW s, NEW t, NEW s2, NEW t2, Len(s2) \in Nat, Len(t) \in Nat,
         Cat(w, s, t), Without(s2, s, Len(s)), Without(t, t2, 1), t2[1] = s[Len(s)]
  PROVE  Cat(w, s2, t2)
  <1> PICK a \in Nat : a = Len(s2)
    OBVIOUS
  <1> PICK b \in Nat : b = Len(t)
    OBVIOUS
  <1>1. /\ Len(s) = a + 1
        /\ \A j \in 1 .. a : s2[j] = IF j < a + 1 THEN s[j] ELSE s[j + 1]
    BY DEF Without
  <1>2. /\ Len(t2) = b + 1
        /\ \A j \in 1 .. b : t[j] = IF j < 1 THEN t2[j] ELSE t2[j + 1]
    BY DEF Without
  <1>3. Len(w) = a + 1 + b
    BY <1>1 DEF Cat
  <1>4. \A i \in 1 .. a + 1 + b : w[i] = IF i <= a + 1 THEN s[i] ELSE t[i - (a + 1)]
    BY <1>1, <1>3 DEF Cat
  <1>5. ASSUME NEW i \in 1 .. a + 1 + b
        PROVE  w[i] = IF i <= a THEN s2[i] ELSE t2[i - a]
    <2>1. CASE i <= a
      BY <1>1, <1>4, <2>1
    <2>2. CASE i = a + 1
      <3>1. w[i] = s[a + 1] /\ i - a = 1 /\ ~(i <= a)
        BY <1>4, <2>2
      <3>2. QED
        BY <1>1, <3>1
    <2>3. CASE i > a + 1
      <3>1. w[i] = t[i - (a + 1)] /\ i - (a + 1) \in 1 .. b /\ (i - (a + 1)) + 1 = i - a
        BY <1>4, <2>3
      <3>2. QED
        BY <1>2, <2>3, <3>1, SMTT(40)
    <2>4. QED
      BY <2>1, <2>2, <2>3
  <1>6. a + (b + 1) = a + 1 + b
    OBVIOUS
  <1>7. QED
    BY <1>1, <1>2, <1>3, <1>5, <1>6 DEF Cat

LEMMA CatShiftLeft ==
  ASSUME NEW w, NEW s, NEW t, NEW s2, NEW t2, Len(s) \in Nat, Len(t2) \in Nat,
         Cat(w, s, t), Without(s, s2, Len(s) + 1), s2[Len(s) + 1] = t[1], Without(t2, t, 1)
  PROVE  Cat(w, s2, t2)
  <1> PICK a \in Nat : a = Len(s)
    OBVIOUS
  <1> PICK b \in Nat : b = Len(t2)
    OBVIOUS
  <1>1. /\ Len(s2) = a + 1
        /\ \A j \in 1 .. a : s[j] = IF j < a + 1 THEN s2[j] ELSE s2[j + 1]
    BY DEF Without
  <1>2. /\ Len(t) = b + 1
        /\ \A j \in 1 .. b : t2[j] = IF j < 1 THEN t[j] ELSE t[j + 1]
    BY DEF Without
  <1>3. Len(w) = a + (b + 1)
    BY <1>2 DEF Cat
  <1>4. \A i \in 1 .. a + (b + 1) : w[i] = IF i <= a THEN s[i] ELSE t[i - a]
    BY <1>2, <1>3 DEF Cat
  <1>5. ASSUME NEW i \in 1 .. a + (b + 1)
        PROVE  w[i] = IF i <= a + 1 THEN s2[i] ELSE t2[i - (a + 1)]
    <2>1. CASE i <= a
      BY <1>1, <1>4, <2>1
    <2>2. CASE i = a + 1
      <3>1. w[i] = t[i - a] /\ i - a = 1
        BY <1>4, <2>2
      <3>2. QED
        BY <2>2, <3>1
    <2>3. CASE i > a + 1
      <3>1. w[i] = t[i - a] /\ i - (a + 1) \in 1 .. b /\ (i - (a + 1)) + 1 = i - a
        BY <1>4, <2>3
      <3>2. QED
        BY <1>2, <2>3, <3>1, SMTT(40)
    <2>4. QED
      BY <2>1, <2>2, <2>3
  <1>6. a + (b + 1) = a + 1 + b
    OBVIOUS
  <1>7. QED
    BY <1>1, <1>2, <1>3, <1>5, <1>6 DEF Cat

LEMMA TailIs ==
  ASSUME NEW S, NEW s \in Seq(S), Len(s) >= 1
  PROVE  Tail(s) \in Seq(S) /\ Len(Tail(s)) = Len(s) - 1 /\ Without(Tail(s), s, 1)
  <1>1. Tail(s) \in Seq(S) /\ Len(Tail(s)) = Len(s) - 1 /\ \A j \in 1 .. Len(s) - 1 : Tail(s)[j] = s[j + 1]
    OBVIOUS
  <1>2. QED
    BY <1>1 DEF Without

LEMMA ConsIs ==
  ASSUME NEW S, NEW s \in Seq(S), NEW e \in S
  PROVE  PatchedIs(<<e>> \o s, s, InsertAt(s, 1, e), 1, e, S)
  <1> PICK w : w = <<e>> \o s
    OBVIOUS
  <1>1. w \in Seq(S) /\ Len(w) = Len(s) + 1 /\ w[1] = e /\ \A j \in 1 .. Len(s) : w[j + 1] = s[j]
    OBVIOUS
  <1>2. Without(s, w, 1)
    BY <1>1 DEF Without
  <1>3. Len(InsertAt(s, 1, e)) = Len(s) + 1
    BY InsertAtIs
  <1>4. QED
    BY <1>1, <1>2, <1>3 DEF PatchedIs

LEMMA AppendIs ==
  ASSUME NEW S, NEW f \in Seq(S), NEW e \in S
  PROVE  /\ f \o <<e>> \in Seq(S) /\ Len(f \o <<e>>) = Len(f) + 1 /\ (f \o <<e>>)[Len(f) + 1] = e
         /\ \A j \in 1 .. Len(f) : (f \o <<e>>)[j] = f[j]
  OBVIOUS

LEMMA WithoutLast ==
  ASSUME NEW s, NEW u, NEW f, NEW w, Len(s) \in Nat, Without(s, u, Len(s) + 1),
         Forepart(f, u, Len(s)), Len(w) = Len(f) + 1, \A j \in 1 .. Len(f) : w[j] = f[j]
  PROVE  Without(s, w, Len(s) + 1)
  BY DEF Without, Forepart

(* A last element is put in the place of the last one.                      *)
LEMMA SnocIs ==
  ASSUME NEW S, NEW s \in Seq(S), NEW u \in Seq(S), Without(s, u, Len(s) + 1), NEW e \in S
  PROVE  PatchedIs(Front1(u) \o <<e>>, s, u, Len(s) + 1, e, S)
  <1>1. Len(s) \in Nat /\ Len(u) = Len(s) + 1
    BY DEF Without
  <1>2. Len(s) \in 0 .. Len(u) /\ Len(u) - 1 = Len(s)
    BY <1>1
  <1>3. SubSeq(u, 1, Len(s)) \in Seq(S) /\ Forepart(SubSeq(u, 1, Len(s)), u, Len(s))
    BY <1>2, SubSeqFirst
  <1>4. Front1(u) = SubSeq(u, 1, Len(s))
    BY <1>2 DEF Front1
  <1>5. Front1(u) \in Seq(S) /\ Forepart(Front1(u), u, Len(s))
    BY <1>3, <1>4
  <1> PICK f \in Seq(S) : f = Front1(u) /\ Forepart(f, u, Len(s))
    BY <1>5
  <1>6. /\ f \o <<e>> \in Seq(S) /\ Len(f \o <<e>>) = Len(f) + 1 /\ (f \o <<e>>)[Len(f) + 1] = e
        /\ \A j \in 1 .. Len(f) : (f \o <<e>>)[j] = f[j]
    BY AppendIs
  <1>7. Len(f) = Len(s)
    BY DEF Forepart
  <1>8. \A w : Len(w) = Len(f) + 1 /\ (\A j \in 1 .. Len(f) : w[j] = f[j]) => Without(s, w, Len(s) + 1)
    BY <1>1, WithoutLast
  <1>9. QED
    BY <1>1, <1>6, <1>7, <1>8 DEF PatchedIs

(* What a child becomes that takes the key k, and its brother's last or     *)
(* first child c.                                                           *)
TakenLeft(x, k, c) ==
  [NodeInsert(x, k) EXCEPT !.child = IF x.leaf THEN @ ELSE <<c>> \o x.child]
TakenRight(x, k, c) ==
  [NodeInsert(x, k) EXCEPT !.child = IF x.leaf THEN @ ELSE Front1(@) \o <<c>>]

(* y is x with k put in at place i, and with the child c at place j.        *)
Widened(y, x, k, i, c, j) ==
  /\ y \in NodeType /\ y.leaf = x.leaf /\ ShapedNode(y) /\ Len(y.key) = Len(x.key) + 1
  /\ Without(x.key, y.key, i) /\ y.key[i] = k
  /\ x.leaf => y.child = << >>
  /\ ~x.leaf => Without(x.child, y.child, j) /\ y.child[j] = c

LEMMA WidenedIs ==
  ASSUME NEW x \in NodeType, ShapedNode(x), NEW k \in Keys, NEW i, NEW c, NEW j, NEW d,
         Behind(x, k) \in 1 .. Len(x.key) + 1,
         Without(x.key, NodeInsert(x, k).key, i), NodeInsert(x, k).key[i] = k,
         Len(NodeInsert(x, k).key) = Len(x.key) + 1,
         NEW y, y = [NodeInsert(x, k) EXCEPT !.child = d],
         x.leaf => d = << >>,
         ~x.leaf => d \in Seq(Nodes) /\ Len(d) = Len(x.child) + 1 /\ Without(x.child, d, j) /\ d[j] = c
  PROVE  Widened(y, x, k, i, c, j)
  <1> PICK v : v = NodeInsert(x, k)
    OBVIOUS
  <1>1. /\ v.leaf = x.leaf /\ v.key \in Seq(Keys)
        /\ v = [leaf |-> v.leaf, key |-> v.key, child |-> v.child]
    BY NodeInsertIs
  <1>2. y = [leaf |-> x.leaf, key |-> v.key, child |-> d]
    BY <1>1
  <1>3. x.leaf \in BOOLEAN /\ Len(x.key) \in Nat
    BY DEF NodeType
  <1>4. d \in Seq(Nodes)
    <2>1. CASE x.leaf
      <3>1. << >> \in Seq(Nodes)
        OBVIOUS
      <3>2. QED
        BY <2>1, <3>1
    <2>2. CASE ~x.leaf
      BY <2>2
    <2>3. QED
      BY <1>3, <2>1, <2>2
  <1>5. y \in NodeType
    BY <1>1, <1>2, <1>3, <1>4 DEF NodeType
  <1>6. ShapedNode(y)
    <2>1. CASE x.leaf
      BY <1>2, <2>1 DEF ShapedNode
    <2>2. CASE ~x.leaf
      <3>1. Len(d) = Len(x.child) + 1 /\ Len(x.child) = Len(x.key) + 1 /\ Len(v.key) = Len(x.key) + 1
        BY <2>2 DEF ShapedNode
      <3>2. Len(d) = Len(v.key) + 1
        BY <1>3, <3>1
      <3>3. QED
        BY <1>2, <2>2, <3>2 DEF ShapedNode
    <2>3. QED
      BY <1>3, <2>1, <2>2
  <1>7. QED
    BY <1>2, <1>5, <1>6 DEF Widened

LEMMA TakenLeftIs ==
  ASSUME NEW x \in NodeType, ShapedNode(x), Rising(x), NEW k \in Keys,
         Behind(x, k) \in 1 .. Len(x.key) + 1, \A q \in 1 .. Behind(x, k) - 1 : x.key[q] = k,
         NEW c, ~x.leaf => c \in Nodes
  PROVE  Widened(TakenLeft(x, k, c), x, k, 1, c, 1)
  <1> PICK d : d = IF x.leaf THEN NodeInsert(x, k).child ELSE <<c>> \o x.child
    OBVIOUS
  <1>1. x.key \in Seq(Keys) /\ Len(x.key) \in Nat /\ x.child \in Seq(Nodes)
    BY DEF NodeType
  <1>2. /\ Without(x.key, NodeInsert(x, k).key, 1) /\ NodeInsert(x, k).key[1] = k
        /\ Len(NodeInsert(x, k).key) = Len(x.key) + 1
    <2>1. 1 \in 1 .. Len(x.key) + 1 /\ Behind(x, k) \in 1 .. Len(x.key) + 1
      BY <1>1
    <2>2. QED
      BY <2>1, NodeInsertKey
  <1>3. x.leaf => d = << >>
    <2>1. x.leaf => NodeInsert(x, k).child = x.child
      BY NodeInsertIs
    <2>2. QED
      BY <2>1 DEF ShapedNode
  <1>4. ASSUME ~x.leaf
        PROVE  d \in Seq(Nodes) /\ Len(d) = Len(x.child) + 1 /\ Without(x.child, d, 1) /\ d[1] = c
    <2>1. c \in Nodes
      BY <1>4
    <2>2. PatchedIs(<<c>> \o x.child, x.child, InsertAt(x.child, 1, c), 1, c, Nodes)
      BY <1>1, <2>1, ConsIs
    <2>3. d = <<c>> \o x.child
      BY <1>4
    <2>4. PatchedIs(d, x.child, InsertAt(x.child, 1, c), 1, c, Nodes)
      BY <2>2, <2>3
    <2>5. d \in Seq(Nodes) /\ Without(x.child, d, 1) /\ d[1] = c
      BY <2>4 DEF PatchedIs
    <2>6. Len(d) = Len(x.child) + 1
      BY <2>5 DEF Without
    <2>7. QED
      BY <2>5, <2>6
  <1>5. TakenLeft(x, k, c) = [NodeInsert(x, k) EXCEPT !.child = d]
    BY DEF TakenLeft
  <1>6. QED
    BY <1>2, <1>3, <1>4, <1>5, WidenedIs

LEMMA TakenRightIs ==
  ASSUME NEW x \in NodeType, ShapedNode(x), Rising(x), NEW k \in Keys,
         Behind(x, k) = Len(x.key) + 1,
         NEW c, ~x.leaf => c \in Nodes
  PROVE  Widened(TakenRight(x, k, c), x, k, Len(x.key) + 1, c, Len(x.child) + 1)
  <1> PICK u : u = NodeInsert(x, k).child
    OBVIOUS
  <1> PICK d : d = IF x.leaf THEN u ELSE Front1(u) \o <<c>>
    OBVIOUS
  <1> PICK n \in Nat : n = Len(x.key)
    BY DEF NodeType
  <1>1. x.key \in Seq(Keys) /\ x.child \in Seq(Nodes) /\ Behind(x, k) = n + 1
    BY DEF NodeType
  <1>2. /\ Without(x.key, NodeInsert(x, k).key, n + 1) /\ NodeInsert(x, k).key[n + 1] = k
        /\ Len(NodeInsert(x, k).key) = Len(x.key) + 1
    <2>1. n + 1 \in 1 .. Len(x.key) + 1 /\ Behind(x, k) \in n + 1 .. Len(x.key) + 1
      BY <1>1
    <2>2. \A q \in n + 1 .. Behind(x, k) - 1 : x.key[q] = k
      BY <1>1
    <2>3. QED
      BY <2>1, <2>2, NodeInsertKey
  <1>3. Behind(x, k) \in 1 .. Len(x.key) + 1
    BY <1>1
  <1>4. /\ x.leaf => u = x.child
        /\ ~x.leaf => u = InsertAt(x.child, Behind(x, k) + 1, x.child[Behind(x, k)])
    BY <1>3, NodeInsertIs
  <1>5. x.leaf => d = << >>
    BY <1>4 DEF ShapedNode
  <1>6. ASSUME ~x.leaf
        PROVE  /\ d \in Seq(Nodes) /\ Len(d) = Len(x.child) + 1
               /\ Without(x.child, d, Len(x.child) + 1) /\ d[Len(x.child) + 1] = c
    <2>1. c \in Nodes
      BY <1>6
    <2>2. Len(x.child) = n + 1
      BY <1>6 DEF ShapedNode
    <2>3. u = InsertAt(x.child, Len(x.child) + 1, x.child[n + 1])
      BY <1>1, <1>4, <1>6, <2>2
    <2>4. x.child[n + 1] \in Nodes /\ Len(x.child) + 1 \in 1 .. Len(x.child) + 1
      BY <1>1, <2>2
    <2>5. u \in Seq(Nodes) /\ Without(x.child, u, Len(x.child) + 1)
      <3> PICK e \in Nodes : e = x.child[n + 1]
        BY <2>4
      <3>1. /\ InsertAt(x.child, Len(x.child) + 1, e) \in Seq(Nodes)
            /\ Len(InsertAt(x.child, Len(x.child) + 1, e)) = Len(x.child) + 1
            /\ Without(x.child, InsertAt(x.child, Len(x.child) + 1, e), Len(x.child) + 1)
            /\ InsertAt(x.child, Len(x.child) + 1, e)[Len(x.child) + 1] = e
        BY <1>1, <2>4, InsertAtIs
      <3>2. QED
        BY <2>3, <3>1
    <2>6. PatchedIs(Front1(u) \o <<c>>, x.child, u, Len(x.child) + 1, c, Nodes)
      BY <1>1, <2>1, <2>5, SnocIs
    <2>7. d = Front1(u) \o <<c>>
      BY <1>6
    <2>8. PatchedIs(d, x.child, u, Len(x.child) + 1, c, Nodes)
      BY <2>6, <2>7
    <2>9. d \in Seq(Nodes) /\ Without(x.child, d, Len(x.child) + 1) /\ d[Len(x.child) + 1] = c
      BY <2>8 DEF PatchedIs
    <2>10. Len(d) = Len(x.child) + 1
      BY <2>9 DEF Without
    <2>11. QED
      BY <2>9, <2>10
  <1>7. TakenRight(x, k, c) = [NodeInsert(x, k) EXCEPT !.child = d]
    BY DEF TakenRight
  <1>8. QED
    BY <1>2, <1>3, <1>5, <1>6, <1>7, WidenedIs

(* g has the nodes l and u and the key between them divided otherwise.      *)
Redone(h, g, p, l, u, j, k) ==
  /\ l # u /\ DOMAIN g = DOMAIN h /\ g = [n \in DOMAIN g |-> g[n]]
  /\ SameOn(h, g, DOMAIN h \ {p, l, u})
  /\ g[p] = [h[p] EXCEPT !.key = [@ EXCEPT ![j] = k]]
  /\ g[l] \in NodeType /\ ShapedNode(g[l]) /\ (g[l].leaf <=> h[l].leaf)
  /\ g[u] \in NodeType /\ ShapedNode(g[u]) /\ (g[u].leaf <=> h[u].leaf)

(* Two nodes that share their keys otherwise are the same node divided.     *)
LEMMA DividedAgain ==
  ASSUME NEW e, NEW h, NEW p, NEW l, NEW u, NEW j, Divided(e, h, p, l, u, j),
         NEW k \in Keys, NEW g, Redone(h, g, p, l, u, j, k),
         Joined(e[l].key, g[l].key, k, g[u].key), Cat(e[l].child, g[l].child, g[u].child)
  PROVE  Divided(e, g, p, l, u, j) /\ g[p].key[j] = k /\ Len(g[p].key) = Len(h[p].key)
  <1>1. /\ HeapType(e) /\ HeapType(h) /\ Shaped(e) /\ Shaped(h)
        /\ p \in DOMAIN e /\ l \in DOMAIN e /\ p # l /\ u \in Nodes \ DOMAIN e
        /\ DOMAIN h = DOMAIN e \cup {u} /\ SameOn(e, h, DOMAIN e \ {p, l})
        /\ ~e[p].leaf /\ ~h[p].leaf /\ (h[l].leaf <=> e[l].leaf) /\ (h[u].leaf <=> e[l].leaf)
        /\ j \in 1 .. Len(e[p].key) + 1
        /\ e[p].child[j] = l /\ h[p].child[j] = l /\ h[p].child[j + 1] = u
        /\ Without(e[p].key, h[p].key, j) /\ Without(e[p].child, h[p].child, j + 1)
    BY DEF Divided
  <1>2. /\ l # u /\ DOMAIN g = DOMAIN h /\ g = [n \in DOMAIN g |-> g[n]]
        /\ SameOn(h, g, DOMAIN h \ {p, l, u})
        /\ g[p] = [h[p] EXCEPT !.key = [@ EXCEPT ![j] = k]]
        /\ g[l] \in NodeType /\ ShapedNode(g[l]) /\ (g[l].leaf <=> h[l].leaf)
        /\ g[u] \in NodeType /\ ShapedNode(g[u]) /\ (g[u].leaf <=> h[u].leaf)
    BY DEF Redone
  <1>3. h[p] \in NodeType /\ ShapedNode(h[p]) /\ e[p].key \in Seq(Keys) /\ Len(e[p].key) \in Nat
    BY <1>1 DEF HeapType, Shaped, NodeType
  <1>4. h[p] = [leaf |-> h[p].leaf, key |-> h[p].key, child |-> h[p].child] /\ h[p].key \in Seq(Keys)
        /\ h[p].child \in Seq(Nodes) /\ h[p].leaf \in BOOLEAN
    BY <1>3 DEF NodeType
  <1> PICK w : w = [h[p].key EXCEPT ![j] = k]
    OBVIOUS
  <1>5. PatchedIs(w, e[p].key, h[p].key, j, k, Keys)
    <2>1. Patched(w, h[p].key, j, k)
      BY DEF Patched
    <2>2. QED
      BY <1>1, <1>3, <1>4, <2>1, WithoutAnother
  <1>6. w \in Seq(Keys) /\ Without(e[p].key, w, j) /\ w[j] = k /\ Len(w) = Len(h[p].key)
    BY <1>5 DEF PatchedIs
  <1>7. g[p] = [leaf |-> h[p].leaf, key |-> w, child |-> h[p].child]
    BY <1>2, <1>4
  <1>8. g[p] \in NodeType /\ ShapedNode(g[p])
    BY <1>3, <1>4, <1>6, <1>7 DEF NodeType, ShapedNode
  <1>9. HeapType(g) /\ Shaped(g)
    <2>1. \A n \in DOMAIN g : g[n] \in NodeType /\ ShapedNode(g[n])
      <3>1. \A n \in DOMAIN h : h[n] \in NodeType /\ ShapedNode(h[n])
        BY <1>1 DEF HeapType, Shaped
      <3>2. QED
        BY <1>2, <1>8, <3>1 DEF SameOn
    <2>2. QED
      BY <1>1, <1>2, <2>1 DEF HeapType, Shaped
  <1>10. SameOn(e, g, DOMAIN e \ {p, l})
    BY <1>1, <1>2 DEF SameOn
  <1>11. /\ ~g[p].leaf /\ (g[l].leaf <=> e[l].leaf) /\ (g[u].leaf <=> e[l].leaf)
         /\ g[p].child[j] = l /\ g[p].child[j + 1] = u /\ g[p].key[j] = k
         /\ Without(e[p].key, g[p].key, j) /\ Without(e[p].child, g[p].child, j + 1)
    BY <1>1, <1>2, <1>6, <1>7
  <1>12. DOMAIN g = DOMAIN e \cup {u}
    BY <1>1, <1>2
  <1>13. Joined(e[l].key, g[l].key, g[p].key[j], g[u].key)
    BY <1>11
  <1>14. Divided(e, g, p, l, u, j)
    BY <1>1, <1>9, <1>10, <1>11, <1>12, <1>13 DEF Divided
  <1>15. QED
    BY <1>6, <1>7, <1>11, <1>14

BorrowLeftHeap(h, p, kid, left, j, x, k) ==
  [h EXCEPT ![kid] = x, ![p].key[j] = k, ![left] = NodeDelete(@, Len(@.key))]

LEMMA BorrowLeftIsHeap ==
  ASSUME NEW h, NEW p, NEW i
  PROVE  BorrowLeft(h, p, i) =
           BorrowLeftHeap(h, p, h[p].child[i], h[p].child[i - 1], i - 1,
                          TakenLeft(h[h[p].child[i]], h[p].key[i - 1], LastChild(h[h[p].child[i - 1]])),
                          LastKey(h[h[p].child[i - 1]]))
  BY DEF BorrowLeft, BorrowLeftHeap, TakenLeft

IsHeap(h) == h = [n \in DOMAIN h |-> h[n]]

(* g is h with the three nodes changed.                                     *)
Changed(h, g, p, kid, sib, j, x, k, y) ==
  /\ DOMAIN g = DOMAIN h /\ g = [n \in DOMAIN g |-> g[n]]
  /\ SameOn(h, g, DOMAIN h \ {p, sib, kid})
  /\ g[kid] = x /\ g[sib] = y
  /\ g[p] = [h[p] EXCEPT !.key = [@ EXCEPT ![j] = k]]

LEMMA BorrowLeftSays ==
  ASSUME NEW h, IsHeap(h), NEW p \in DOMAIN h, NEW kid \in DOMAIN h,
         NEW left \in DOMAIN h, p # kid, p # left, kid # left, NEW j, NEW x, NEW k
  PROVE  Changed(h, BorrowLeftHeap(h, p, kid, left, j, x, k), p, kid, left, j, x, k,
                 NodeDelete(h[left], Len(h[left].key)))
  <1> PICK g : g = BorrowLeftHeap(h, p, kid, left, j, x, k)
    OBVIOUS
  <1>0. h = [n \in DOMAIN h |-> h[n]]
    BY DEF IsHeap
  <1> PICK a : a = [h EXCEPT ![kid] = x]
    OBVIOUS
  <1> PICK b : b = [a EXCEPT ![p].key[j] = k]
    OBVIOUS
  <1> PICK c : c = [b EXCEPT ![left] = NodeDelete(@, Len(@.key))]
    OBVIOUS
  <1>1. g = c
    BY DEF BorrowLeftHeap
  <1>2. DOMAIN a = DOMAIN h /\ a[kid] = x /\ \A n \in DOMAIN h \ {kid} : a[n] = h[n]
    BY <1>0
  <1>3. DOMAIN b = DOMAIN h /\ b[p] = [a[p] EXCEPT !.key = [@ EXCEPT ![j] = k]]
        /\ \A n \in DOMAIN h \ {p} : b[n] = a[n]
    BY <1>2
  <1>4. DOMAIN c = DOMAIN h /\ c[left] = NodeDelete(b[left], Len(b[left].key))
        /\ \A n \in DOMAIN h \ {left} : c[n] = b[n]
    BY <1>3
  <1>5. c = [n \in DOMAIN c |-> c[n]]
    OBVIOUS
  <1>6. SameOn(h, c, DOMAIN h \ {p, left, kid})
    BY <1>2, <1>3, <1>4 DEF SameOn
  <1>7. b[left] = h[left] /\ a[p] = h[p]
    BY <1>2, <1>3
  <1>8. QED
    BY <1>1, <1>2, <1>3, <1>4, <1>5, <1>6, <1>7 DEF Changed

(* The keys of two brothers lie on the two sides of the key between them.   *)
LEMMA BrothersApart ==
  ASSUME NEW h, NEW r, NEW lev, NEW K, Tree(h, r, lev, K), NEW p, NEW j, NEW left, NEW right,
         Siblings(h, p, j, left, right)
  PROVE  /\ Rising(h[left]) /\ Rising(h[right])
         /\ Ints(h[left].key, Len(h[left].key)) /\ Ints(h[right].key, Len(h[right].key))
         /\ h[p].key[j] \in Int
         /\ \A q \in 1 .. Len(h[left].key) : h[left].key[q] <= h[p].key[j]
         /\ \A q \in 1 .. Len(h[right].key) : h[p].key[j] <= h[right].key[q]
  <1>1. Frame(h, r, lev) /\ HeapType(h) /\ Fenced(h, K)
    BY DEF Tree, Frame
  <1>2. left \in DOMAIN h /\ right \in DOMAIN h /\ Len(h[p].child) = Len(h[p].key) + 1 /\ Len(h[p].key) \in Nat
    BY <1>1, SiblingsAre
  <1>3. /\ p \in DOMAIN h /\ j \in 1 .. Len(h[p].key)
        /\ left = h[p].child[j] /\ right = h[p].child[j + 1]
    BY DEF Siblings
  <1>4. FencedNode(h[p], K[p], K) /\ FencedNode(h[left], K[left], K) /\ FencedNode(h[right], K[right], K)
    BY <1>1, <1>2, <1>3 DEF Fenced
  <1>5. K[left] \subseteq Int /\ K[right] \subseteq Int
    BY <1>1, <1>2 DEF Fenced, HeapType
  <1>6. Rising(h[left]) /\ Rising(h[right]) /\ Holds(h[left], K[left], K) /\ Holds(h[right], K[right], K)
        /\ Beside(h[p], K)
    BY <1>4 DEF FencedNode
  <1>7. Ints(h[left].key, Len(h[left].key)) /\ Ints(h[right].key, Len(h[right].key))
    BY <1>5, <1>6, HoldsInts
  <1>8. h[p].key[j] \in Int
    BY <1>1, <1>3, NodeTypes
  <1>9. (\A v \in K[left] : v <= h[p].key[j]) /\ (\A v \in K[right] : h[p].key[j] <= v)
    <2>1. \A q \in 1 .. Len(h[p].child) : \A v \in K[h[p].child[q]] :
            IF q <= j THEN v <= h[p].key[j] ELSE h[p].key[j] <= v
      BY <1>3, <1>6 DEF Beside, Apart
    <2>2. j \in 1 .. Len(h[p].child) /\ j + 1 \in 1 .. Len(h[p].child) /\ ~(j + 1 <= j) /\ j <= j
      BY <1>2, <1>3
    <2>3. QED
      BY <1>3, <2>1, <2>2
  <1>10. QED
    BY <1>6, <1>7, <1>8, <1>9 DEF Holds

Lent(h, g, p, from, to) ==
  /\ Len(g[p].key) = Len(h[p].key)
  /\ Len(g[from].key) = Len(h[from].key) - 1 /\ Len(g[to].key) = Len(h[to].key) + 1

(* borrowFromLeftSibling: the merged nodes, divided one key further left.   *)
LEMMA BorrowLeftIs ==
  ASSUME NEW h, NEW r, NEW lev, NEW K, Tree(h, r, lev, K), NEW p, NEW j, NEW left, NEW kid,
         Siblings(h, p, j, left, kid), Len(h[left].key) >= 1
  PROVE  /\ Divided(Melt(h, p, j), BorrowLeft(h, p, j + 1), p, left, kid, j)
         /\ Lent(h, BorrowLeft(h, p, j + 1), p, left, kid)
         /\ Patched(BorrowLeft(h, p, j + 1)[p].key, h[p].key, j, LastKey(h[left]))
  <1> PICK g : g = BorrowLeft(h, p, j + 1)
    OBVIOUS
  <1> PICK e : e = Melt(h, p, j)
    OBVIOUS
  <1> PICK m : m = h[p].key[j]
    OBVIOUS
  <1> PICK k : k = LastKey(h[left])
    OBVIOUS
  <1> PICK x : x = TakenLeft(h[kid], m, LastChild(h[left]))
    OBVIOUS
  <1>1. Frame(h, r, lev) /\ HeapType(h) /\ Shaped(h)
    BY DEF Tree, Frame
  <1>2. /\ left \in DOMAIN h /\ kid \in DOMAIN h /\ left # kid /\ p # left /\ p # kid
        /\ (h[left].leaf <=> h[kid].leaf) /\ h[left] \in NodeType /\ h[kid] \in NodeType
        /\ ShapedNode(h[left]) /\ ShapedNode(h[kid]) /\ m \in Keys
        /\ h[p] \in NodeType /\ Len(h[p].key) \in Nat
    BY <1>1, SiblingsAre
  <1>3. /\ p \in DOMAIN h /\ ~h[p].leaf /\ j \in 1 .. Len(h[p].key)
        /\ left = h[p].child[j] /\ kid = h[p].child[j + 1]
    BY DEF Siblings
  <1>4. Divided(e, h, p, left, kid, j)
    BY <1>1, MeltIs
  <1>5. /\ Rising(h[kid]) /\ Ints(h[kid].key, Len(h[kid].key)) /\ m \in Int
        /\ \A q \in 1 .. Len(h[kid].key) : m <= h[kid].key[q]
    BY BrothersApart
  <1>6. Len(h[kid].key) \in Nat /\ Len(h[left].key) \in Nat
    BY <1>2 DEF NodeType
  <1> PICK B : B = Behind(h[kid], m)
    OBVIOUS
  <1>7. B \in 1 .. Len(h[kid].key) + 1
        /\ \A q \in 1 .. Len(h[kid].key) : IF q < B THEN h[kid].key[q] <= m ELSE m < h[kid].key[q]
    BY <1>5, <1>6, BehindIs
  <1>8. \A q \in 1 .. B - 1 : h[kid].key[q] = m
    <2>1. \A q \in 1 .. Len(h[kid].key) : h[kid].key[q] \in Int
      BY <1>5 DEF Ints
    <2>2. QED
      BY <1>5, <1>6, <1>7, <2>1
  <1>9. ~h[kid].leaf => LastChild(h[left]) \in Nodes
    <2>1. h[left].child \in Seq(Nodes)
      BY <1>2 DEF NodeType
    <2>2. ~h[kid].leaf => Len(h[left].child) \in 1 .. Len(h[left].child)
      BY <1>2, <1>6 DEF ShapedNode
    <2>3. QED
      BY <2>1, <2>2 DEF LastChild
  <1>10. Widened(x, h[kid], m, 1, LastChild(h[left]), 1)
    BY <1>2, <1>5, <1>7, <1>8, <1>9, TakenLeftIs
  <1>11. /\ x \in NodeType /\ x.leaf = h[kid].leaf /\ ShapedNode(x) /\ Len(x.key) = Len(h[kid].key) + 1
         /\ Without(h[kid].key, x.key, 1) /\ x.key[1] = m
         /\ h[kid].leaf => x.child = << >>
         /\ ~h[kid].leaf => Without(h[kid].child, x.child, 1) /\ x.child[1] = LastChild(h[left])
    BY <1>10 DEF Widened
  <1>12. g = BorrowLeftHeap(h, p, kid, left, j, x, k)
    <2>1. (j + 1) - 1 = j
      BY <1>3
    <2>2. QED
      BY <1>3, <2>1, BorrowLeftIsHeap
  <1>13. /\ DOMAIN g = DOMAIN h /\ g = [n \in DOMAIN g |-> g[n]]
         /\ SameOn(h, g, DOMAIN h \ {p, left, kid})
         /\ g[kid] = x /\ g[left] = NodeDelete(h[left], Len(h[left].key))
         /\ g[p] = [h[p] EXCEPT !.key = [@ EXCEPT ![j] = k]]
    <2>1. IsHeap(h)
      BY <1>1 DEF HeapType, IsHeap
    <2>2. Changed(h, BorrowLeftHeap(h, p, kid, left, j, x, k), p, kid, left, j, x, k,
                  NodeDelete(h[left], Len(h[left].key)))
      BY <1>2, <1>3, <2>1, BorrowLeftSays
    <2>3. QED
      BY <1>12, <2>2 DEF Changed
  <1> PICK y : y = NodeDelete(h[left], Len(h[left].key))
    OBVIOUS
  <1>14. /\ y \in NodeType /\ y.leaf = h[left].leaf /\ ShapedNode(y)
         /\ Without(y.key, h[left].key, Len(h[left].key)) /\ Len(y.key) = Len(h[left].key) - 1
         /\ h[left].leaf => y.child = h[left].child
         /\ ~h[left].leaf => Without(y.child, h[left].child, Len(h[left].key) + 1)
    <2>1. Len(h[left].key) \in 1 .. Len(h[left].key)
      BY <1>6
    <2>2. QED
      BY <1>2, <2>1, NodeDeleteIs
  <1>15. k \in Keys /\ k = h[left].key[Len(h[left].key)]
    BY <1>2, <1>6 DEF LastKey, NodeType
  <1>16. Joined(e[left].key, h[left].key, m, h[kid].key) /\ Cat(e[left].child, h[left].child, h[kid].child)
    BY <1>4 DEF Divided
  <1>17. Joined(e[left].key, y.key, k, x.key)
    <2>1. Len(y.key) \in Nat
      BY <1>6, <1>14
    <2>2. Joined(e[left].key, y.key, h[left].key[Len(h[left].key)], x.key)
      <3>1. Without(y.key, h[left].key, Len(h[left].key)) /\ Len(y.key) = Len(h[left].key) - 1
        BY <1>14
      <3>2. Without(h[kid].key, x.key, 1) /\ x.key[1] = m /\ Len(x.key) = Len(h[kid].key) + 1
        BY <1>11
      <3>3. Joined(e[left].key, h[left].key, m, h[kid].key)
        BY <1>16
      <3>4. Len(h[left].key) \in Nat /\ Len(h[kid].key) \in Nat
        BY <1>6
      <3>5. QED
        BY <2>1, <3>1, <3>2, <3>3, <3>4, ShiftRight
    <2>3. QED
      BY <1>15, <2>2
  <1>18. Cat(e[left].child, y.child, x.child)
    <2>1. CASE h[kid].leaf
      <3>1. h[left].child = << >> /\ h[kid].child = << >> /\ y.child = << >> /\ x.child = << >>
        BY <1>2, <1>11, <1>14, <2>1 DEF ShapedNode
      <3>2. QED
        BY <1>16, <3>1
    <2>2. CASE ~h[kid].leaf
      <3>1. Len(h[left].child) = Len(h[left].key) + 1 /\ ~h[left].leaf
        BY <1>2, <2>2 DEF ShapedNode
      <3>2. Without(y.child, h[left].child, Len(h[left].child))
        BY <1>14, <3>1
      <3>3. Len(y.child) \in Nat /\ Len(h[kid].child) \in Nat
        BY <1>2, <1>14 DEF NodeType
      <3>4. Without(h[kid].child, x.child, 1) /\ x.child[1] = h[left].child[Len(h[left].child)]
        BY <1>11, <2>2 DEF LastChild
      <3>5. QED
        BY <1>16, <3>2, <3>3, <3>4, CatShiftRight
    <2>3. QED
      BY <2>1, <2>2
  <1>19. Redone(h, g, p, left, kid, j, k)
    BY <1>2, <1>11, <1>13, <1>14 DEF Redone
  <1>20. Joined(e[left].key, g[left].key, k, g[kid].key) /\ Cat(e[left].child, g[left].child, g[kid].child)
    BY <1>13, <1>17, <1>18
  <1>21. Divided(e, g, p, left, kid, j) /\ Len(g[p].key) = Len(h[p].key)
    BY <1>4, <1>15, <1>19, <1>20, DividedAgain
  <1>22. Lent(h, g, p, left, kid)
    BY <1>11, <1>13, <1>14, <1>21 DEF Lent
  <1>23. g[p].key = [h[p].key EXCEPT ![j] = k]
    <2>1. h[p] = [leaf |-> h[p].leaf, key |-> h[p].key, child |-> h[p].child]
      BY <1>2 DEF NodeType
    <2>2. QED
      BY <1>13, <2>1
  <1>24. QED
    BY <1>21, <1>22, <1>23 DEF Patched

LEMMA BeheadedIs ==
  ASSUME NEW x \in NodeType, ShapedNode(x), Len(x.key) >= 1
  PROVE  /\ Beheaded(x) \in NodeType /\ Beheaded(x).leaf = x.leaf /\ ShapedNode(Beheaded(x))
         /\ Without(Beheaded(x).key, x.key, 1) /\ Len(Beheaded(x).key) = Len(x.key) - 1
         /\ x.leaf => Beheaded(x).child = x.child
         /\ ~x.leaf => Without(Beheaded(x).child, x.child, 1)
  <1> PICK s : s = Tail(x.key)
    OBVIOUS
  <1> PICK c : c = IF x.leaf THEN x.child ELSE Tail(x.child)
    OBVIOUS
  <1>1. /\ x = [leaf |-> x.leaf, key |-> x.key, child |-> x.child]
        /\ x.key \in Seq(Keys) /\ x.child \in Seq(Nodes) /\ x.leaf \in BOOLEAN /\ Len(x.key) \in Nat
    BY DEF NodeType
  <1>2. s \in Seq(Keys) /\ Len(s) = Len(x.key) - 1 /\ Without(s, x.key, 1)
    BY <1>1, TailIs
  <1>3. ~x.leaf => c \in Seq(Nodes) /\ Len(c) = Len(x.child) - 1 /\ Without(c, x.child, 1)
    <2>1. ~x.leaf => Len(x.child) >= 1
      BY <1>1 DEF ShapedNode
    <2>2. Len(x.child) >= 1 => /\ Tail(x.child) \in Seq(Nodes) /\ Len(Tail(x.child)) = Len(x.child) - 1
                               /\ Without(Tail(x.child), x.child, 1)
      BY <1>1, TailIs
    <2>3. QED
      BY <2>1, <2>2
  <1>4. Beheaded(x) = [x EXCEPT !.key = s, !.child = c]
    BY DEF Beheaded
  <1>5. Beheaded(x) = [leaf |-> x.leaf, key |-> s, child |-> c]
    BY <1>1, <1>4
  <1>6. c \in Seq(Nodes)
    BY <1>1, <1>3
  <1>7. Beheaded(x) \in NodeType
    BY <1>1, <1>2, <1>5, <1>6 DEF NodeType
  <1>8. ShapedNode(Beheaded(x))
    <2>1. CASE x.leaf
      BY <1>5, <2>1 DEF ShapedNode
    <2>2. CASE ~x.leaf
      <3>1. Len(c) = Len(x.child) - 1 /\ Len(x.child) = Len(x.key) + 1 /\ Len(s) = Len(x.key) - 1
        BY <1>2, <1>3, <2>2 DEF ShapedNode
      <3>2. Len(c) = Len(s) + 1
        BY <1>1, <3>1
      <3>3. QED
        BY <1>5, <2>2, <3>2 DEF ShapedNode
    <2>3. QED
      BY <1>1, <2>1, <2>2
  <1>9. QED
    BY <1>2, <1>3, <1>5, <1>7, <1>8

BorrowRightHeap(h, p, kid, right, j, x, k) ==
  [h EXCEPT ![kid] = x, ![p].key[j] = k, ![right] = Beheaded(@)]

LEMMA BorrowRightIsHeap ==
  ASSUME NEW h, NEW p, NEW i
  PROVE  BorrowRight(h, p, i) =
           BorrowRightHeap(h, p, h[p].child[i], h[p].child[i + 1], i,
                           TakenRight(h[h[p].child[i]], h[p].key[i], h[h[p].child[i + 1]].child[1]),
                           h[h[p].child[i + 1]].key[1])
  BY DEF BorrowRight, BorrowRightHeap, TakenRight

LEMMA BorrowRightSays ==
  ASSUME NEW h, IsHeap(h), NEW p \in DOMAIN h, NEW kid \in DOMAIN h,
         NEW right \in DOMAIN h, p # kid, p # right, kid # right, NEW j, NEW x, NEW k
  PROVE  Changed(h, BorrowRightHeap(h, p, kid, right, j, x, k), p, kid, right, j, x, k,
                 Beheaded(h[right]))
  <1> PICK g : g = BorrowRightHeap(h, p, kid, right, j, x, k)
    OBVIOUS
  <1>0. h = [n \in DOMAIN h |-> h[n]]
    BY DEF IsHeap
  <1> PICK a : a = [h EXCEPT ![kid] = x]
    OBVIOUS
  <1> PICK b : b = [a EXCEPT ![p].key[j] = k]
    OBVIOUS
  <1> PICK c : c = [b EXCEPT ![right] = Beheaded(@)]
    OBVIOUS
  <1>1. g = c
    BY DEF BorrowRightHeap
  <1>2. DOMAIN a = DOMAIN h /\ a[kid] = x /\ \A n \in DOMAIN h \ {kid} : a[n] = h[n]
    BY <1>0
  <1>3. DOMAIN b = DOMAIN h /\ b[p] = [a[p] EXCEPT !.key = [@ EXCEPT ![j] = k]]
        /\ \A n \in DOMAIN h \ {p} : b[n] = a[n]
    BY <1>2
  <1>4. /\ DOMAIN c = DOMAIN h
        /\ c[right] = Beheaded(b[right])
        /\ \A n \in DOMAIN h \ {right} : c[n] = b[n]
    BY <1>3
  <1>5. c = [n \in DOMAIN c |-> c[n]]
    OBVIOUS
  <1>6. SameOn(h, c, DOMAIN h \ {p, right, kid})
    BY <1>2, <1>3, <1>4 DEF SameOn
  <1>7. b[right] = h[right] /\ a[p] = h[p]
    BY <1>2, <1>3
  <1>8. c[right] = Beheaded(h[right])
    BY <1>4, <1>7
  <1>9. QED
    BY <1>1, <1>2, <1>3, <1>4, <1>5, <1>6, <1>7, <1>8 DEF Changed

(* borrowFromRightSibling: the same, one key further right.                 *)
LEMMA BorrowRightIs ==
  ASSUME NEW h, NEW r, NEW lev, NEW K, Tree(h, r, lev, K), NEW p, NEW j, NEW kid, NEW right,
         Siblings(h, p, j, kid, right), Len(h[right].key) >= 1
  PROVE  /\ Divided(Melt(h, p, j), BorrowRight(h, p, j), p, kid, right, j)
         /\ Lent(h, BorrowRight(h, p, j), p, right, kid)
         /\ Patched(BorrowRight(h, p, j)[p].key, h[p].key, j, h[right].key[1])
  <1> PICK g : g = BorrowRight(h, p, j)
    OBVIOUS
  <1> PICK e : e = Melt(h, p, j)
    OBVIOUS
  <1> PICK m : m = h[p].key[j]
    OBVIOUS
  <1> PICK k : k = h[right].key[1]
    OBVIOUS
  <1> PICK x : x = TakenRight(h[kid], m, h[right].child[1])
    OBVIOUS
  <1>1. Frame(h, r, lev) /\ HeapType(h) /\ Shaped(h)
    BY DEF Tree, Frame
  <1>2. /\ right \in DOMAIN h /\ kid \in DOMAIN h /\ kid # right /\ p # right /\ p # kid
        /\ (h[kid].leaf <=> h[right].leaf) /\ h[right] \in NodeType /\ h[kid] \in NodeType
        /\ ShapedNode(h[right]) /\ ShapedNode(h[kid]) /\ m \in Keys
        /\ h[p] \in NodeType /\ Len(h[p].key) \in Nat
    BY <1>1, SiblingsAre
  <1>3. /\ p \in DOMAIN h /\ ~h[p].leaf /\ j \in 1 .. Len(h[p].key)
        /\ kid = h[p].child[j] /\ right = h[p].child[j + 1]
    BY DEF Siblings
  <1>4. Divided(e, h, p, kid, right, j)
    BY <1>1, MeltIs
  <1>5. /\ Rising(h[kid]) /\ Ints(h[kid].key, Len(h[kid].key)) /\ m \in Int
        /\ \A q \in 1 .. Len(h[kid].key) : h[kid].key[q] <= m
    BY BrothersApart
  <1>6. Len(h[kid].key) \in Nat /\ Len(h[right].key) \in Nat
    BY <1>2 DEF NodeType
  <1> PICK B : B = Behind(h[kid], m)
    OBVIOUS
  <1>7. B \in 1 .. Len(h[kid].key) + 1
        /\ \A q \in 1 .. Len(h[kid].key) : IF q < B THEN h[kid].key[q] <= m ELSE m < h[kid].key[q]
    BY <1>5, <1>6, BehindIs
  <1>8. B = Len(h[kid].key) + 1
    <2>1. \A q \in 1 .. Len(h[kid].key) : h[kid].key[q] \in Int
      BY <1>5 DEF Ints
    <2>2. ASSUME B # Len(h[kid].key) + 1 PROVE FALSE
      <3>1. B \in 1 .. Len(h[kid].key) /\ ~(B < B)
        BY <1>6, <1>7, <2>2
      <3>2. m < h[kid].key[B] /\ h[kid].key[B] <= m /\ h[kid].key[B] \in Int
        BY <1>5, <1>7, <2>1, <3>1
      <3>3. QED
        BY <1>5, <3>2
    <2>3. QED
      BY <2>2
  <1>9. ~h[kid].leaf => h[right].child[1] \in Nodes
    <2>1. h[right].child \in Seq(Nodes)
      BY <1>2 DEF NodeType
    <2>2. ~h[kid].leaf => 1 \in 1 .. Len(h[right].child)
      BY <1>2, <1>6 DEF ShapedNode
    <2>3. QED
      BY <2>1, <2>2
  <1>10. Widened(x, h[kid], m, Len(h[kid].key) + 1, h[right].child[1], Len(h[kid].child) + 1)
    BY <1>2, <1>5, <1>8, <1>9, TakenRightIs
  <1>11. /\ x \in NodeType /\ x.leaf = h[kid].leaf /\ ShapedNode(x) /\ Len(x.key) = Len(h[kid].key) + 1
         /\ Without(h[kid].key, x.key, Len(h[kid].key) + 1) /\ x.key[Len(h[kid].key) + 1] = m
         /\ h[kid].leaf => x.child = << >>
         /\ ~h[kid].leaf => /\ Without(h[kid].child, x.child, Len(h[kid].child) + 1)
                            /\ x.child[Len(h[kid].child) + 1] = h[right].child[1]
    BY <1>10 DEF Widened
  <1>12. g = BorrowRightHeap(h, p, kid, right, j, x, k)
    BY <1>3, BorrowRightIsHeap
  <1> PICK y : y = Beheaded(h[right])
    OBVIOUS
  <1>13. /\ DOMAIN g = DOMAIN h /\ g = [n \in DOMAIN g |-> g[n]]
         /\ SameOn(h, g, DOMAIN h \ {p, right, kid})
         /\ g[kid] = x /\ g[right] = y
         /\ g[p] = [h[p] EXCEPT !.key = [@ EXCEPT ![j] = k]]
    <2>1. IsHeap(h)
      BY <1>1 DEF HeapType, IsHeap
    <2>2. Changed(h, BorrowRightHeap(h, p, kid, right, j, x, k), p, kid, right, j, x, k, Beheaded(h[right]))
      BY <1>2, <1>3, <2>1, BorrowRightSays
    <2>3. QED
      BY <1>12, <2>2 DEF Changed
  <1>14. /\ y \in NodeType /\ y.leaf = h[right].leaf /\ ShapedNode(y)
         /\ Without(y.key, h[right].key, 1) /\ Len(y.key) = Len(h[right].key) - 1
         /\ h[right].leaf => y.child = h[right].child
         /\ ~h[right].leaf => Without(y.child, h[right].child, 1)
    BY <1>2, BeheadedIs
  <1>15. k \in Keys
    BY <1>2, <1>6 DEF NodeType
  <1>16. Joined(e[kid].key, h[kid].key, m, h[right].key) /\ Cat(e[kid].child, h[kid].child, h[right].child)
    BY <1>4 DEF Divided
  <1>17. Joined(e[kid].key, x.key, k, y.key)
    <2>1. Len(y.key) \in Nat
      BY <1>6, <1>14
    <2>2. Joined(e[kid].key, x.key, h[right].key[1], y.key)
      BY <1>6, <1>11, <1>14, <1>16, <2>1, ShiftLeft
    <2>3. QED
      BY <2>2
  <1>18. Cat(e[kid].child, x.child, y.child)
    <2>1. CASE h[kid].leaf
      <3>1. h[right].child = << >> /\ h[kid].child = << >> /\ y.child = << >> /\ x.child = << >>
        BY <1>2, <1>11, <1>14, <2>1 DEF ShapedNode
      <3>2. QED
        BY <1>16, <3>1
    <2>2. CASE ~h[kid].leaf
      <3>1. ~h[right].leaf /\ Without(y.child, h[right].child, 1)
        BY <1>2, <1>14, <2>2
      <3>2. Len(y.child) \in Nat /\ Len(h[kid].child) \in Nat
        BY <1>2, <1>14 DEF NodeType
      <3>3. /\ Without(h[kid].child, x.child, Len(h[kid].child) + 1)
            /\ x.child[Len(h[kid].child) + 1] = h[right].child[1]
        BY <1>11, <2>2
      <3>4. QED
        BY <1>16, <3>1, <3>2, <3>3, CatShiftLeft
    <2>3. QED
      BY <2>1, <2>2
  <1>19. Redone(h, g, p, kid, right, j, k)
    <2>1. SameOn(h, g, DOMAIN h \ {p, kid, right})
      BY <1>13 DEF SameOn
    <2>2. QED
      BY <1>2, <1>11, <1>13, <1>14, <2>1 DEF Redone
  <1>20. Joined(e[kid].key, g[kid].key, k, g[right].key) /\ Cat(e[kid].child, g[kid].child, g[right].child)
    BY <1>13, <1>17, <1>18
  <1>21. Divided(e, g, p, kid, right, j) /\ Len(g[p].key) = Len(h[p].key)
    BY <1>4, <1>15, <1>19, <1>20, DividedAgain
  <1>22. Lent(h, g, p, right, kid)
    BY <1>11, <1>13, <1>14, <1>21 DEF Lent
  <1>23. g[p].key = [h[p].key EXCEPT ![j] = k]
    <2>1. h[p] = [leaf |-> h[p].leaf, key |-> h[p].key, child |-> h[p].child]
      BY <1>2 DEF NodeType
    <2>2. QED
      BY <1>13, <2>1
  <1>24. QED
    BY <1>21, <1>22, <1>23 DEF Patched
=============================================================================

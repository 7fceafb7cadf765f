------------------------------ MODULE HashRows ------------------------------
(* What linear_hashing.cpp and extendible_hashing.cpp have in common.  A   *)
(* row is what getHash makes of its BOOK_ID, the sum of its characters; a  *)
(* bucket's rows are a bag, as no property tells its places apart.         *)
EXTENDS Integers, FiniteSets, FiniteSetsExt, Functions

CONSTANT Rows

ASSUME RowsAssumption == Rows \subseteq Nat /\ IsFiniteSet(Rows)

BUCKET_SIZE == 4

NoRows == [k \in Rows |-> 0]
Total(bag) == SumFunctionOnSet(bag, Rows)

(* 1 << n                                                                  *)
pow2[n \in Nat] == IF n = 0 THEN 1 ELSE 2 * pow2[n - 1]

getHash(k, depth) == k % pow2[depth]
=============================================================================

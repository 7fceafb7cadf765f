----------------------------- MODULE LinearHash -----------------------------
(* The table of linear_hashing.cpp: buckets of four places with overflows; *)
(* when it is more than three quarters full the bucket at next_idx is split*)
(* and its rows are placed again.                                          *)
EXTENDS HashRows

CONSTANT LinearBound   \* bound: insertions
ASSUME LinearAssumption == LinearBound \in Nat

VARIABLES
  buckets,    \* index -> bag of rows
  next_idx,   \* the next bucket to split
  level,      \* addresses are taken modulo 2^level
  count,      \* the rows in the table, as the code counts them
  indexed,    \* searchBookID: the rows that the index of names leads to
  outside     \* a bucket past the end of the vector has been written to

lvars == <<buckets, next_idx, level, count, indexed, outside>>

With(bag, k) == [bag EXCEPT ![k] = @ + 1]

----------------------------------------------------------------------------
LH_Init ==
  /\ buckets = [i \in {0, 1} |-> NoRows]
  /\ next_idx = 0 /\ level = 1 /\ count = 0
  /\ indexed = {} /\ outside = FALSE

(* The load factor is 3/4.                                                 *)
splitRequired(n, b) == 4 * n > 3 * BUCKET_SIZE * Cardinality(DOMAIN b)

(* Mutant: the rows that leave the bucket are lost.                        *)
MovedWithoutOverflows(b, i) ==
  [j \in DOMAIN b \cup {Cardinality(DOMAIN b)} |->
     [k \in Rows |-> IF j \in DOMAIN b /\ j # i THEN b[j][k]
                      ELSE IF j = i /\ getHash(k, level + 1) = j THEN b[i][k] ELSE 0]]

(* The bucket is emptied and its rows are inserted with one bit more; a    *)
(* new bucket has been added before.                                       *)
Moved(b, i) ==
  LET wider == [j \in DOMAIN b \cup {Cardinality(DOMAIN b)} |->
                  IF j \in DOMAIN b /\ j # i THEN b[j] ELSE NoRows]
  IN  [j \in DOMAIN wider |->
         [k \in Rows |-> wider[j][k] + IF getHash(k, level + 1) = j THEN b[i][k] ELSE 0]]

Overruns(b, i) ==
  \E k \in Rows : b[i][k] > 0 /\ getHash(k, level + 1) > Cardinality(DOMAIN b)

(* Mutant: the level is never raised.                                      *)
SplitKeepsLevel(b) ==
  /\ buckets' = Moved(b, next_idx) /\ outside' = Overruns(b, next_idx)
  /\ next_idx' = (next_idx + 1) % pow2[level] /\ level' = level

bucketSplit(b) ==
  LET next == (next_idx + 1) % pow2[level]
  IN  /\ buckets' = Moved(b, next_idx)
      /\ outside' = Overruns(b, next_idx)
      /\ next_idx' = next
      /\ level' = IF next = 0 THEN level + 1 ELSE level

(* The rows that a split inserts again never make another split necessary, *)
(* as LoadBounded says.                                                    *)
LH_insert(k) ==
  LET i == getHash(k, level)
      placed == [buckets EXCEPT ![i] = With(@, k)]
  IN  /\ ~outside /\ count < LinearBound
      /\ count' = count + 1
      /\ indexed' = indexed \cup {k}
      /\ IF splitRequired(count + 1, buckets)
           THEN bucketSplit(placed)
           ELSE buckets' = placed /\ UNCHANGED <<next_idx, level, outside>>

Under(k, depth) == getHash(k, depth) \in DOMAIN buckets /\ buckets[getHash(k, depth)][k] > 0
LH_getValue(k) == Under(k, level)

(* searchBook prints the rows of a name that getValue finds.               *)
LH_searchBook(names) == {k \in indexed \cap names : LH_getValue(k)}

LH_Next == \E k \in Rows : LH_insert(k)

----------------------------------------------------------------------------
(* The buckets are those of 2^level addresses and one more for each that   *)
(* has been split since the level was raised; the count that decides about *)
(* splits is the number of rows, through any number of splits that take    *)
(* rows out and insert them again, and it never stays above three quarters *)
(* of the places: one split is always enough.                              *)
LoadBounded ==
  /\ DOMAIN buckets = 0 .. pow2[level] + next_idx - 1
  /\ next_idx \in 0 .. pow2[level] - 1
  /\ ~outside =>
       /\ count = SumFunction([i \in DOMAIN buckets |-> Total(buckets[i])])
       /\ ~splitRequired(count, buckets)

(* A split loses no row that a name leads to: it lies where the level, one *)
(* bit more or fewer bits lead, and searchBook shows it as long as no      *)
(* bucket of its address has been split.  That is said up to the first     *)
(* write past the end of the vector, which takes thirteen rows: the first  *)
(* split at level 2 may find rows that were placed at level 1.             *)
NoRowLost ==
  /\ count <= 12 => ~outside
  /\ ~outside => \A k \in indexed : \E depth \in 1 .. level + 1 : Under(k, depth)
  /\ level = 1 => {k \in indexed : getHash(k, level) >= next_idx} \subseteq LH_searchBook(Rows)
=============================================================================

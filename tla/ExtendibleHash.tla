--------------------------- MODULE ExtendibleHash ---------------------------
(* The table of extendible_hashing.cpp: a directory of pointers to buckets *)
(* of four places; a full bucket is split after the directory has been     *)
(* doubled where necessary.                                                *)
(* A bucket is its local depth, its size and the bag of rows in its places.*)
EXTENDS HashRows

CONSTANT ExtendibleBound   \* bound: insertions
ASSUME ExtendibleAssumption == ExtendibleBound \in Nat

VARIABLES
  directories,  \* index -> bucket
  bucket,       \* the allocated buckets
  globalDepth,
  searchable,   \* searchBookID: the rows that the index of names leads to
  removed,      \* the rows of which removeValue has taken a copy since
  inserted      \* the number of insertions

evars == <<directories, bucket, globalDepth, searchable, removed, inserted>>

Bucket(depth) == [localDepth |-> depth, size |-> 0, rows |-> NoRows]

At(k) == directories[getHash(k, globalDepth)]

EH_Init ==
  /\ directories = [i \in {0} |-> 1]
  /\ bucket = [b \in {1} |-> Bucket(0)]
  /\ globalDepth = 0
  /\ searchable = {} /\ removed = {} /\ inserted = 0

----------------------------------------------------------------------------
(* Mutant: every entry is followed by its copy.                            *)
DoubledInPairs(dir) == [i \in 0 .. 2 * Cardinality(DOMAIN dir) - 1 |-> dir[i \div 2]]

(* doubleDirectories: the second half points where the first does.         *)
Doubled(dir) ==
  LET n == Cardinality(DOMAIN dir)
  IN  [i \in 0 .. 2 * n - 1 |-> dir[i % n]]

(* The other entries that rows of the bucket belong to and that point to   *)
(* it as well; each gets a new bucket.                                     *)
Leaving(dir, depth, b, i) ==
  {j \in DOMAIN dir \ {i} :
     dir[j] = b /\ \E k \in Rows : bucket[b].rows[k] > 0 /\ getHash(k, depth) = j}

NewBuckets(moves) ==
  CHOOSE f \in [moves -> Cardinality(DOMAIN bucket) + 1 ..
                           Cardinality(DOMAIN bucket) + Cardinality(moves)] :
    \A i, j \in moves : f[i] = f[j] => i = j

(* Mutant: the new buckets stay empty.                                     *)
SplitDropsLeaving(dir, depth, b, i) ==
  LET moves == Leaving(dir, depth, b, i)
      new   == NewBuckets(moves)
      stays == [k \in Rows |-> IF getHash(k, depth) = i THEN bucket[b].rows[k] ELSE 0]
      depth2 == bucket[b].localDepth + 1
  IN  [dir |-> [j \in DOMAIN dir |-> IF j \in moves THEN new[j] ELSE dir[j]],
       bucket |-> [c \in DOMAIN bucket \cup {new[j] : j \in moves} |->
                     IF c = b THEN [localDepth |-> depth2, size |-> Total(stays), rows |-> stays]
                     ELSE IF c \in DOMAIN bucket THEN bucket[c] ELSE Bucket(depth2)]]

(* bucketSplit with the insertion of the rows of the bucket again: they    *)
(* are at most four, and every bucket they go to has been emptied or is    *)
(* new, so no insertion splits again.                                      *)
Split(dir, depth, b, i) ==
  LET moves == Leaving(dir, depth, b, i)
      new   == NewBuckets(moves)
      dir2  == [j \in DOMAIN dir |-> IF j \in moves THEN new[j] ELSE dir[j]]
      here(c) == [k \in Rows |-> IF dir2[getHash(k, depth)] = c
                                 THEN bucket[b].rows[k] ELSE 0]
      filled(c) == [localDepth |-> bucket[b].localDepth + 1,
                    size |-> Total(here(c)), rows |-> here(c)]
      touched == {b} \cup {new[j] : j \in moves}
  IN  [dir |-> dir2,
       bucket |-> [c \in DOMAIN bucket \cup touched |->
                     IF c \in touched THEN filled(c) ELSE bucket[c]]]

Place(buckets, b, k) ==
  [buckets EXCEPT ![b].rows[k] = @ + 1, ![b].size = @ + 1]

----------------------------------------------------------------------------
Arrives == inserted < ExtendibleBound /\ inserted' = inserted + 1

Indexed(k) == searchable' = searchable \cup {k} /\ removed' = removed \ {k}

InsertThere(k) ==
  /\ Arrives /\ bucket[At(k)].size < BUCKET_SIZE
  /\ bucket' = Place(bucket, At(k), k)
  /\ Indexed(k)
  /\ UNCHANGED <<directories, globalDepth>>

(* Mutant: the directory is doubled whatever the depth of the bucket.      *)
InsertSplitDoubling(k) ==
  LET split == Split(Doubled(directories), globalDepth + 1, At(k), getHash(k, globalDepth))
      there == split.dir[getHash(k, globalDepth + 1)]
  IN  /\ Arrives /\ bucket[At(k)].size >= BUCKET_SIZE
      /\ globalDepth' = globalDepth + 1 /\ directories' = split.dir
      /\ IF Total(split.bucket[there].rows) < BUCKET_SIZE
           THEN bucket' = Place(split.bucket, there, k) /\ Indexed(k)
           ELSE bucket' = split.bucket /\ UNCHANGED <<searchable, removed>>

(* Mutant: the name leads to the row although it was dropped.              *)
InsertSplitIndexing(k) ==
  LET b == At(k)
      i == getHash(k, globalDepth)
      deep == bucket[b].localDepth = globalDepth
      depth == IF deep THEN globalDepth + 1 ELSE globalDepth
      split == Split(IF deep THEN Doubled(directories) ELSE directories, depth, b, i)
      there == split.dir[getHash(k, depth)]
  IN  /\ Arrives /\ bucket[b].size >= BUCKET_SIZE
      /\ globalDepth' = depth /\ directories' = split.dir /\ Indexed(k)
      /\ bucket' = IF Total(split.bucket[there].rows) < BUCKET_SIZE
                   THEN Place(split.bucket, there, k) ELSE split.bucket

(* Without a free place after the split the row is dropped.                *)
InsertSplit(k) ==
  LET b == At(k)
      i == getHash(k, globalDepth)
      deep == bucket[b].localDepth = globalDepth
      depth == IF deep THEN globalDepth + 1 ELSE globalDepth
      split == Split(IF deep THEN Doubled(directories) ELSE directories, depth, b, i)
      there == split.dir[getHash(k, depth)]
      free == Total(split.bucket[there].rows) < BUCKET_SIZE
  IN  /\ Arrives /\ bucket[b].size >= BUCKET_SIZE
      /\ globalDepth' = depth
      /\ directories' = split.dir
      /\ IF free
           THEN bucket' = Place(split.bucket, there, k) /\ Indexed(k)
           ELSE bucket' = split.bucket /\ UNCHANGED <<searchable, removed>>

EH_getValue(k) == bucket[At(k)].rows[k] > 0

(* The place becomes free; neither the size nor searchBookID changes.      *)
removeValue(k) ==
  /\ EH_getValue(k)
  /\ bucket' = [bucket EXCEPT ![At(k)].rows[k] = @ - 1]
  /\ removed' = removed \cup {k}
  /\ UNCHANGED <<directories, globalDepth, searchable, inserted>>

(* searchBook prints the rows of a name that getValue finds.               *)
EH_searchBook(names) == {k \in searchable \cap names : EH_getValue(k)}

EH_Next == \E k \in Rows : InsertThere(k) \/ InsertSplit(k) \/ removeValue(k)

----------------------------------------------------------------------------
EH_Stored(k) == SumFunction([b \in DOMAIN bucket |-> bucket[b].rows[k]])

(* The directory has 2^globalDepth entries, leads to every bucket and is   *)
(* no larger than some bucket's depth asks for; all the same it may double *)
(* with each insertion after the fourth.                                   *)
DirectoryWhole ==
  /\ globalDepth > 0 => globalDepth <= inserted - BUCKET_SIZE
  /\ DOMAIN directories = 0 .. pow2[globalDepth] - 1
  /\ {directories[i] : i \in DOMAIN directories} = DOMAIN bucket
  /\ globalDepth = Max({bucket[b].localDepth : b \in DOMAIN bucket})

(* Whatever was doubled, split and removed: a row lies in the bucket where *)
(* getValue and removeValue look for it.                                   *)
StoredIsFound ==
  \A b \in DOMAIN bucket, k \in Rows : bucket[b].rows[k] > 0 => At(k) = b

(* A call never loses or doubles a row other than its own: an insertion    *)
(* adds its row or drops it, a removal takes one copy, a split none.       *)
OthersKept ==
  [][\E own \in Rows :
       /\ \A k \in Rows \ {own} : EH_Stored(k)' = EH_Stored(k)
       /\ EH_Stored(own)' - EH_Stored(own) \in {-1, 0, 1}
       /\ inserted' > inserted => EH_Stored(own)' >= EH_Stored(own)]_evars

(* What searchBook is led to it can show, unless it was removed.           *)
SearchComplete == searchable \ removed \subseteq EH_searchBook(Rows)
=============================================================================

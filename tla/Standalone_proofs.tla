-------------------------- MODULE Standalone_proofs --------------------------
(* Theorems about the three standalone parts: the page cache (wrapUp       *)
(* brings every page of the file to what was stored into it), the          *)
(* extendible hash index (rows are found, searches are complete, the       *)
(* directory is whole) and the linear hash index (its load is bounded, no  *)
(* row is lost), for any pages, keys, hashes and bucket sizes.             *)
EXTENDS Standalone, Induction, TLAPS

(* The file has its pages without a gap.                                   *)
FileWhole == \E n \in Nat : DOMAIN file = 0 .. n - 1

(* The page in memory, or what the file has of it, is what was stored.     *)
InMemory(n) == n \in DOMAIN pages /\ pages[n] = given[n]
InFile(n) == n \in DOMAIN file => file[n] = given[n]

(* What wrapUp has passed is in the file, what is ahead of it in memory.   *)
Kept ==
  /\ DOMAIN given \subseteq Nat /\ next \in Nat
  /\ state = "open" => \A n \in DOMAIN given : InMemory(n)
  /\ state = "wrapping" =>
       \A n \in DOMAIN given : IF n >= next THEN InMemory(n) ELSE InFile(n)
  /\ state = "closed" => \A n \in DOMAIN given : InFile(n)
  /\ DOMAIN pages \subseteq Nat

PagerInv == FileWhole /\ Kept

----------------------------------------------------------------------------
(* FileLength counts the pages of the file.                                *)
LEMMA LengthOfFile ==
  ASSUME NEW n \in Nat, DOMAIN file = 0 .. n - 1
  PROVE  FileLength = n
<1>1. n - 1 \in Int
  OBVIOUS
<1>2. Cardinality(0 .. n - 1) = IF 0 > n - 1 THEN 0 ELSE (n - 1) - 0 + 1
  BY <1>1, FS_Interval
<1>3. QED
  BY <1>2 DEF FileLength

(* Writing a page leaves the file without a gap.                           *)
LEMMA WrittenWhole ==
  ASSUME FileWhole, NEW n \in Nat, file' = Written(n)
  PROVE  FileWhole'
<1>1. PICK len \in Nat : DOMAIN file = 0 .. len - 1
  BY DEF FileWhole
<1>2. DOMAIN file' = 0 .. (IF len > n THEN len ELSE n + 1) - 1
  BY <1>1 DEF Written
<1>3. (IF len > n THEN len ELSE n + 1) \in Nat
  OBVIOUS
<1>4. QED
  BY <1>2, <1>3 DEF FileWhole

(* Begins in a file without pages, with nothing stored.                    *)
LEMMA PagerStarts == PG_Init => PagerInv
<1>1. SUFFICES ASSUME PG_Init PROVE PagerInv
  OBVIOUS
<1>2. DOMAIN file = {} /\ DOMAIN given = {} /\ DOMAIN pages = {} /\ next = 0
  <2>1. DOMAIN << >> = {}
    OBVIOUS
  <2>2. QED
    BY <1>1, <2>1 DEF PG_Init
<1>3. FileWhole
  <2>1. 0 .. 0 - 1 = {}
    OBVIOUS
  <2>2. QED
    BY <1>2, <2>1 DEF FileWhole
<1>4. QED
  BY <1>2, <1>3 DEF PagerInv, Kept

(* Each action of the pager keeps the invariant.                           *)
LEMMA PagerStep == PagerInv /\ PG_Next => PagerInv'
<1> SUFFICES ASSUME PagerInv, PG_Next PROVE PagerInv'
  OBVIOUS
<1> USE DEF PagerInv, Kept, InMemory, InFile
<1>1. CASE pager_open
  BY <1>1 DEF pager_open, FileWhole
<1>2. CASE PastTheArray \/ addTable
  BY <1>2 DEF PastTheArray, addTable, FileWhole
<1>3. CASE FlushNull \/ Kill
  BY <1>3 DEF FlushNull, Kill, Ended, FileWhole
<1>4. CASE WrapBegin
  <2>1. FileWhole' /\ next' = 0 /\ state' = "wrapping"
    BY <1>4 DEF WrapBegin, FileWhole
  <2>2. \A n \in DOMAIN given : InMemory(n)
    BY <1>4 DEF WrapBegin
  <2>3. QED
    BY <1>4, <2>1, <2>2 DEF WrapBegin
<1>5. CASE WrapPage
  <2>1. PICK len \in Nat : DOMAIN file = 0 .. len - 1
    BY DEF FileWhole
  <2>2. next \in DOMAIN file
    BY <1>5, <2>1, LengthOfFile DEF WrapPage
  <2>3. FileWhole'
    <3>1. CASE next \in DOMAIN pages
      BY <1>5, <3>1, WrittenWhole DEF WrapPage
    <3>2. CASE next \notin DOMAIN pages
      BY <1>5, <3>2 DEF WrapPage, FileWhole
    <3>3. QED
      BY <3>1, <3>2
  <2>4. /\ DOMAIN file' = DOMAIN file
        /\ \A n \in DOMAIN file \ {next} : file'[n] = file[n]
        /\ next \in DOMAIN pages => file'[next] = pages[next]
    <3>1. CASE next \in DOMAIN pages
      <4>1. file' = Written(next) /\ DOMAIN file \cup 0 .. next = DOMAIN file
        BY <1>5, <2>1, <2>2, <3>1 DEF WrapPage
      <4>2. QED
        BY <2>2, <4>1 DEF Written
    <3>2. CASE next \notin DOMAIN pages
      BY <1>5, <3>2 DEF WrapPage
    <3>3. QED
      BY <3>1, <3>2
  <2>5. ASSUME NEW n \in DOMAIN given
        PROVE  IF n >= next + 1 THEN InMemory(n)' ELSE InFile(n)'
    <3>1. CASE n >= next + 1
      BY <1>5, <3>1 DEF WrapPage
    <3>2. CASE n = next
      BY <1>5, <2>4, <3>2 DEF WrapPage
    <3>3. CASE n < next
      BY <1>5, <2>4, <3>3 DEF WrapPage
    <3>4. QED
      BY <3>1, <3>2, <3>3
  <2>6. QED
    BY <1>5, <2>3, <2>5, SMTT(30) DEF WrapPage
<1>6. CASE WrapEnd
  <2>1. PICK len \in Nat : DOMAIN file = 0 .. len - 1
    BY DEF FileWhole
  <2>2. next = len
    BY <1>6, <2>1, LengthOfFile DEF WrapEnd
  <2>3. \A n \in DOMAIN given : InFile(n)
    BY <1>6, <2>1, <2>2 DEF WrapEnd
  <2>4. QED
    BY <1>6, <2>3 DEF WrapEnd, FileWhole
<1>7. ASSUME NEW n \in PageNums, get_page(n) PROVE PagerInv'
  <2>1. PICK c : pages' = With1(pages, n, c)
    BY <1>7 DEF get_page
  <2>2. \A m \in DOMAIN given : InMemory(m)'
    BY <1>7, <2>1 DEF get_page, With1
  <2>3. DOMAIN pages' \subseteq Nat
    BY <2>1, PagerAssumption DEF With1, PageNums
  <2>4. QED
    BY <1>7, <2>2, <2>3 DEF get_page, FileWhole
<1>8. ASSUME NEW n \in PageNums, pager_flush(n) PROVE PagerInv'
  <2>1. n \in Nat
    BY DEF PageNums
  <2>2. FileWhole'
    BY <1>8, <2>1, WrittenWhole DEF pager_flush
  <2>3. QED
    BY <1>8, <2>2 DEF pager_flush
<1>9. ASSUME NEW n \in PageNums, NEW c \in Contents, Store(n, c) PROVE PagerInv'
  <2>1. n \in Nat
    BY DEF PageNums
  <2>2. \A m \in DOMAIN given' : InMemory(m)'
    BY <1>9 DEF Store, With1
  <2>3. QED
    BY <1>9, <2>1, <2>2 DEF Store, With1, FileWhole
<1>10. QED
  BY <1>1, <1>2, <1>3, <1>4, <1>5, <1>6, <1>7, <1>8, <1>9 DEF PG_Next

(* Nothing but the pager changes what the invariant is about.              *)
LEMMA PagerStutters == PagerInv /\ UNCHANGED pvars => PagerInv'
BY DEF PagerInv, FileWhole, Kept, InMemory, InFile, pvars

----------------------------------------------------------------------------
(* After wrapUp every page that the file has holds what was last stored    *)
(* into it, through any loads, flushes and kills in between (Mem.cpp).     *)
THEOREM PagesWrittenBack == Spec => []WrittenBack
<1>1. Init => PagerInv
  BY PagerStarts DEF Init
<1>2. PagerInv /\ [Next]_vars => PagerInv'
  <2> SUFFICES ASSUME PagerInv, [Next]_vars PROVE PagerInv'
    OBVIOUS
  <2>1. CASE PG_Next
    BY <2>1, PagerStep
  <2>2. CASE UNCHANGED pvars
    BY <2>2, PagerStutters
  <2>3. QED
    BY <2>1, <2>2 DEF Next, vars
<1>3. PagerInv => WrittenBack
  BY DEF PagerInv, Kept, InFile, WrittenBack
<1>4. QED
  BY <1>1, <1>2, <1>3, PTL DEF Spec

(***************************************************************************)
(* Powers of two and remainders                                            *)
(***************************************************************************)

LEMMA Pow2Steps ==
  /\ pow2[0] = 1
  /\ \A n \in Nat : pow2[n + 1] = 2 * pow2[n]
  /\ \A n \in Nat : pow2[n] \in Nat \ {0}
  <1> DEFINE P == Nat \ {0}
             step == [n \in Nat |-> [x \in P |-> 2 * x]]
             body(f) == [n \in Nat |-> IF n = 0 THEN 1 ELSE 2 * f[n - 1]]
             one == 1
  <1>1. PICK f : EndlessRun(f, P, one, step)
    <2>1. one \in P
      OBVIOUS
    <2>2. ASSUME NEW N \in Nat PROVE Steps(step, N, P)
      BY DEF Steps
    <2> HIDE DEF P, step, one
    <2>3. QED
      BY <2>1, <2>2, EndlessRecursion
  <1>2. f = body(f)
    <2>1. ASSUME NEW n \in Nat PROVE f[n] = IF n = 0 THEN 1 ELSE 2 * f[n - 1]
      <3>1. CASE n = 0
        BY <1>1, <3>1 DEF EndlessRun
      <3>2. CASE n # 0
        <4>1. n - 1 \in Nat /\ (n - 1) + 1 = n /\ f[n - 1] \in P
          BY <1>1, <3>2 DEF EndlessRun
        <4>2. f[n] = step[n][f[n - 1]]
          BY <1>1, <4>1 DEF EndlessRun
        <4>3. QED
          BY <3>2, <4>1, <4>2
      <3>3. QED
        BY <3>1, <3>2
    <2>2. QED
      BY <1>1, <2>1 DEF EndlessRun
  <1>3. pow2 = body(pow2)
    <2>1. \E g : g = body(g)
      BY <1>2
    <2> HIDE DEF body
    <2>2. (CHOOSE g : g = body(g)) = body(CHOOSE g : g = body(g))
      BY <2>1
    <2>3. pow2 = CHOOSE g : g = body(g)
      BY DEF pow2, body
    <2>4. QED
      BY <2>2, <2>3
  <1>4. pow2[0] = 1 /\ \A n \in Nat : pow2[n + 1] = 2 * pow2[n]
    BY <1>3
  <1>5. \A n \in Nat : pow2[n] \in Nat \ {0}
    <2> DEFINE A == {n \in Nat : pow2[n] \in Nat \ {0}}
    <2>1. 0 \in A
      BY <1>4
    <2>2. ASSUME NEW n \in A PROVE n + 1 \in A
      BY <1>4
    <2>3. A \in SUBSET Nat
      OBVIOUS
    <2>4. A = Nat
      <3> HIDE DEF A
      <3>1. QED
        BY <2>1, <2>2, <2>3, SetInduction
    <2>5. QED
      BY <2>4
  <1>6. QED
    BY <1>4, <1>5

LEMMA Division ==
  ASSUME NEW k \in Nat, NEW n \in Nat \ {0}
  PROVE  \E q \in Nat, r \in 0 .. n - 1 : k = q * n + r /\ k % n = r
  <1>1. k = (k \div n) * n + (k % n) /\ k \div n \in Nat /\ k % n \in 0 .. n - 1
    OBVIOUS
  <1>2. QED
    BY <1>1

LEMMA Remainder ==
  ASSUME NEW q \in Nat, NEW n \in Nat \ {0}, NEW r \in 0 .. n - 1
  PROVE  (q * n + r) % n = r
  OBVIOUS

(* One bit more leaves the remainder or adds the smaller modulus to it.    *)
LEMMA OneBitMore ==
  ASSUME NEW k \in Nat, NEW n \in Nat \ {0}
  PROVE  /\ (k % (2 * n)) % n = k % n
         /\ k % (2 * n) = k % n \/ k % (2 * n) = (k % n) + n
  <1>1. 2 * n \in Nat \ {0}
    OBVIOUS
  <1>2. PICK q \in Nat, r \in 0 .. 2 * n - 1 : k = q * (2 * n) + r /\ k % (2 * n) = r
    BY <1>1, Division
  <1>3. CASE r < n
    <2>1. k = (2 * q) * n + r /\ 2 * q \in Nat /\ r \in 0 .. n - 1
      BY <1>2, <1>3
    <2>2. k % n = r
      BY <2>1, Remainder
    <2>3. r % n = r
      BY <2>1
    <2>4. QED
      BY <1>2, <2>2, <2>3
  <1>4. CASE r >= n
    <2>1. k = (2 * q + 1) * n + (r - n) /\ 2 * q + 1 \in Nat /\ r - n \in 0 .. n - 1
      BY <1>2, <1>4
    <2>2. k % n = r - n
      BY <2>1, Remainder
    <2>3. r = 1 * n + (r - n)
      BY <1>2
    <2>4. r % n = r - n
      BY <2>1, <2>3, Remainder
    <2>5. QED
      BY <1>2, <2>2, <2>4
  <1>5. QED
    BY <1>3, <1>4

(***************************************************************************)
(* The extendible hash index                                               *)
(***************************************************************************)

Record == [localDepth : Nat, size : Nat, rows : [Rows -> Nat]]

(* What holds of a directory that has `depth' bits and leads to buckets.   *)
Leads(dir, depth, nodes) ==
  /\ depth \in Nat
  /\ DOMAIN dir = 0 .. pow2[depth] - 1
  /\ {dir[i] : i \in DOMAIN dir} = DOMAIN nodes
  /\ \A b \in DOMAIN nodes, k \in Rows :
       nodes[b].rows[k] > 0 => dir[getHash(k, depth)] = b

(* The buckets are numbered without a gap, and each has a place for every  *)
(* row in it.                                                              *)
Numbered(nodes, most) ==
  /\ \E n \in Nat \ {0} : DOMAIN nodes = 1 .. n
  /\ \A b \in DOMAIN nodes :
       /\ nodes[b] \in Record
       /\ Total(nodes[b].rows) <= nodes[b].size
       /\ nodes[b].size <= most

(* The copies of a row in the bucket that the directory leads it to.       *)
Copies(dir, depth, nodes, k) == nodes[dir[getHash(k, depth)]].rows[k]

(* The directory has as many bits as the deepest bucket.                   *)
Deepest(nodes, depth) ==
  /\ \A b \in DOMAIN nodes : nodes[b].localDepth <= depth
  /\ \E b \in DOMAIN nodes : nodes[b].localDepth = depth

ExtendibleInv ==
  /\ inserted \in Nat /\ searchable \subseteq Rows
  /\ Numbered(bucket, inserted)
  /\ Leads(directories, globalDepth, bucket)
  /\ Deepest(bucket, globalDepth)
  /\ globalDepth > 0 => globalDepth <= inserted - BUCKET_SIZE
  /\ \A k \in searchable \ removed : EH_getValue(k)

LEMMA NoRowsTotal == Total(NoRows) = 0
  <1>1. Adds(NoRows, NoRows, NoRows, Rows) /\ \A k \in Rows : NoRows[k] \in Int
    BY DEF NoRows, Adds
  <1>2. SumFunctionOnSet(NoRows, Rows) =
          SumFunctionOnSet(NoRows, Rows) + SumFunctionOnSet(NoRows, Rows)
    BY <1>1, SumPlus, RowsAssumption
  <1>3. SumFunctionOnSet(NoRows, Rows) \in Int
    BY <1>1, SumInt, RowsAssumption
  <1>4. QED
    BY <1>2, <1>3 DEF Total

LEMMA TotalFacts ==
  ASSUME NEW bag \in [Rows -> Nat]
  PROVE  /\ Total(bag) \in Nat
         /\ \A less \in [Rows -> Nat] :
              (\A k \in Rows : less[k] <= bag[k]) => Total(less) <= Total(bag)
         /\ \A k \in Rows : Total([bag EXCEPT ![k] = @ + 1]) = Total(bag) + 1
  <1> USE RowsAssumption
  <1>1. \A less \in [Rows -> Nat] :
          (\A k \in Rows : less[k] <= bag[k]) => Total(less) <= Total(bag)
    <2> SUFFICES ASSUME NEW less \in [Rows -> Nat], \A k \in Rows : less[k] <= bag[k]
                 PROVE  SumFunctionOnSet(less, Rows) <= SumFunctionOnSet(bag, Rows)
      BY DEF Total
    <2>1. \A k \in Rows : less[k] \in Int /\ bag[k] \in Int /\ less[k] <= bag[k]
      OBVIOUS
    <2>2. QED
      BY <2>1, SumMonotone
  <1>2. \A f \in [Rows -> Nat] : SumFunctionOnSet(f, Rows) \in Int
    <2> TAKE f \in [Rows -> Nat]
    <2>1. \A k \in Rows : f[k] \in Int
      OBVIOUS
    <2>2. QED
      BY <2>1, SumInt
  <1>3. Total(bag) \in Nat
    <2>1. NoRows \in [Rows -> Nat] /\ \A k \in Rows : NoRows[k] <= bag[k]
      BY DEF NoRows
    <2>2. Total(NoRows) <= Total(bag)
      BY <1>1, <2>1
    <2>3. Total(NoRows) = 0
      BY NoRowsTotal
    <2>4. QED
      BY <1>2, <2>2, <2>3 DEF Total
  <1>4. ASSUME NEW k \in Rows PROVE Total([bag EXCEPT ![k] = @ + 1]) = Total(bag) + 1
    <2> DEFINE more == [bag EXCEPT ![k] = @ + 1]
    <2>1. DifferAt(k, bag, more, Rows) /\ bag[k] \in Int /\ more[k] = bag[k] + 1
      BY DEF DifferAt
    <2>2. SumFunctionOnSet(more, Rows) = SumFunctionOnSet(bag, Rows) - bag[k] + more[k]
      <3> HIDE DEF more
      <3>1. QED
        BY <2>1, SumChange
    <2>3. SumFunctionOnSet(bag, Rows) \in Int
      BY <1>2
    <2> HIDE DEF more
    <2>4. Total(more) = Total(bag) + 1
      BY <2>1, <2>2, <2>3 DEF Total
    <2>5. QED
      BY <2>4 DEF more
  <1>5. QED
    BY <1>1, <1>3, <1>4

LEMMA HashFacts ==
  ASSUME NEW k \in Rows, NEW depth \in Nat
  PROVE  /\ getHash(k, depth) \in 0 .. pow2[depth] - 1
         /\ getHash(k, depth + 1) \in 0 .. pow2[depth + 1] - 1
         /\ getHash(k, depth + 1) % pow2[depth] = getHash(k, depth)
         /\ \/ getHash(k, depth + 1) = getHash(k, depth)
            \/ getHash(k, depth + 1) = getHash(k, depth) + pow2[depth]
  <1> DEFINE n == pow2[depth]
  <1>1. n \in Nat \ {0} /\ pow2[depth + 1] = 2 * n /\ 2 * n \in Nat \ {0}
    BY Pow2Steps
  <1>2. k \in Nat
    BY RowsAssumption
  <1> HIDE DEF n
  <1>3. /\ (k % (2 * n)) % n = k % n
        /\ k % (2 * n) = k % n \/ k % (2 * n) = (k % n) + n
    BY <1>1, <1>2, OneBitMore
  <1>4. k % n \in 0 .. n - 1 /\ k % (2 * n) \in 0 .. 2 * n - 1
    BY <1>1, <1>2
  <1>5. getHash(k, depth) = k % n /\ getHash(k, depth + 1) = k % (2 * n)
    BY <1>1 DEF getHash, n
  <1>6. QED
    BY <1>1, <1>3, <1>4, <1>5 DEF n

(* doubleDirectories leads every row where it was before.                  *)
LEMMA DoubledLeads ==
  ASSUME NEW depth, NEW dir, NEW nodes, Leads(dir, depth, nodes)
  PROVE  /\ Leads(Doubled(dir), depth + 1, nodes)
         /\ \A k \in Rows : /\ Doubled(dir)[getHash(k, depth + 1)] = dir[getHash(k, depth)]
                            /\ getHash(k, depth) \in DOMAIN Doubled(dir)
                            /\ Doubled(dir)[getHash(k, depth)] = dir[getHash(k, depth)]
  <1> DEFINE n == pow2[depth]
  <1>1. depth \in Nat /\ n \in Nat \ {0} /\ pow2[depth + 1] = 2 * n
    BY Pow2Steps DEF Leads
  <1>2. DOMAIN dir = 0 .. n - 1
    BY DEF Leads
  <1>3. Cardinality(DOMAIN dir) = n
    <2> HIDE DEF n
    <2>1. Cardinality(0 .. n - 1) = n
      BY <1>1, FS_Interval
    <2>2. QED
      BY <1>2, <2>1
  <1>4. Doubled(dir) = [i \in 0 .. 2 * n - 1 |-> dir[i % n]]
    BY <1>3 DEF Doubled
  <1> HIDE DEF n
  <1>5. \A i \in 0 .. 2 * n - 1 : i % n \in 0 .. n - 1
    BY <1>1
  <1>6. \A i \in 0 .. n - 1 : i % n = i /\ i \in 0 .. 2 * n - 1
    BY <1>1
  <1>7. {Doubled(dir)[i] : i \in DOMAIN Doubled(dir)} = {dir[i] : i \in DOMAIN dir}
    BY <1>2, <1>4, <1>5, <1>6
  <1>8. ASSUME NEW k \in Rows
        PROVE  /\ Doubled(dir)[getHash(k, depth + 1)] = dir[getHash(k, depth)]
               /\ getHash(k, depth) \in DOMAIN Doubled(dir)
               /\ Doubled(dir)[getHash(k, depth)] = dir[getHash(k, depth)]
    <2>1. /\ getHash(k, depth) \in 0 .. n - 1
          /\ getHash(k, depth + 1) \in 0 .. 2 * n - 1
          /\ getHash(k, depth + 1) % n = getHash(k, depth)
      BY <1>1, HashFacts DEF n
    <2>2. QED
      BY <1>4, <1>6, <2>1
  <1>9. Leads(Doubled(dir), depth + 1, nodes)
    <2>1. DOMAIN Doubled(dir) = 0 .. pow2[depth + 1] - 1 /\ depth + 1 \in Nat
      BY <1>1, <1>4
    <2>2. {Doubled(dir)[i] : i \in DOMAIN Doubled(dir)} = DOMAIN nodes
      BY <1>7 DEF Leads
    <2>3. \A b \in DOMAIN nodes, k \in Rows :
            nodes[b].rows[k] > 0 => Doubled(dir)[getHash(k, depth + 1)] = b
      BY <1>8 DEF Leads
    <2>4. QED
      BY <2>1, <2>2, <2>3 DEF Leads
  <1>10. QED
    BY <1>8, <1>9

(* The buckets that Split adds have the next numbers, one for each move.   *)
LEMMA NewNumbers ==
  ASSUME NEW moves, IsFiniteSet(moves), NEW n \in Nat, DOMAIN bucket = 1 .. n
  PROVE  LET new == NewBuckets(moves)
             m == Cardinality(moves)
         IN  /\ m \in Nat
             /\ new \in [moves -> n + 1 .. n + m]
             /\ {new[j] : j \in moves} = n + 1 .. n + m
  <1> DEFINE m == Cardinality(moves)
             T == n + 1 .. n + m
             F == [moves -> T]
             Apart(f) == \A i, j \in moves : f[i] = f[j] => i = j
             new == CHOOSE f \in F : Apart(f)
  <1>1. m \in Nat
    BY FS_CardinalityType
  <1>2. Cardinality(DOMAIN bucket) = n
    <2>1. Cardinality(1 .. n) = n
      BY FS_Interval
    <2>2. QED
      BY <2>1
  <1>3. IsFiniteSet(T) /\ Cardinality(T) = m
    <2> HIDE DEF m
    <2>1. n + 1 \in Int /\ n + m \in Int
      BY <1>1
    <2>2. IsFiniteSet(n + 1 .. n + m) /\
          Cardinality(n + 1 .. n + m) = IF n + 1 > n + m THEN 0 ELSE (n + m) - (n + 1) + 1
      BY <2>1, FS_Interval
    <2>3. QED
      BY <1>1, <2>2
  <1>4. \E f \in F : Apart(f)
    <2>1. ExistsBijection(moves, T)
      <3> HIDE DEF T
      <3>1. QED
        BY <1>3, FS_SameCardinalityBij
    <2>2. PICK f : f \in Bijection(moves, T)
      BY <2>1 DEF ExistsBijection
    <2>3. f \in F /\ Apart(f)
      BY <2>2 DEF Bijection, Injection, IsInjective
    <2>4. QED
      BY <2>3
  <1>5. new \in F /\ Apart(new)
    <2> HIDE DEF F, Apart
    <2>1. QED
      BY <1>4
  <1>6. NewBuckets(moves) = new
    BY <1>2 DEF NewBuckets
  <1> HIDE DEF new, T, m
  <1>7. new \in Injection(moves, T)
    BY <1>5 DEF Injection, IsInjective
  <1>8. new \in Surjection(moves, T)
    BY <1>3, <1>7, FS_Injection DEF m
  <1>9. {new[j] : j \in moves} = T
    BY <1>8 DEF Surjection
  <1>10. QED
    BY <1>1, <1>5, <1>6, <1>9 DEF T, m

(* What a split makes of a directory, and of the buckets.                  *)
LEMMA SplitFacts ==
  ASSUME NEW depth, NEW dir, NEW b \in DOMAIN bucket, NEW i \in DOMAIN dir,
         Leads(dir, depth, bucket), NEW most \in Nat, Numbered(bucket, most), dir[i] = b
  PROVE  LET s == Split(dir, depth, b, i)
         IN  /\ Leads(s.dir, depth, s.bucket)
             /\ Numbered(s.bucket, most)
             /\ DOMAIN bucket \subseteq DOMAIN s.bucket
             /\ s.bucket[b].localDepth = bucket[b].localDepth + 1
             /\ \A c \in DOMAIN s.bucket :
                  s.bucket[c].localDepth =
                    IF c \in DOMAIN bucket \ {b} THEN bucket[c].localDepth
                                                 ELSE bucket[b].localDepth + 1
             /\ \A k \in Rows :
                  Copies(s.dir, depth, s.bucket, k) = Copies(dir, depth, bucket, k)
  <1> DEFINE moves == Leaving(dir, depth, b, i)
             new == NewBuckets(moves)
             m == Cardinality(moves)
             dir2 == [j \in DOMAIN dir |-> IF j \in moves THEN new[j] ELSE dir[j]]
             here(c) == [k \in Rows |-> IF dir2[getHash(k, depth)] = c
                                        THEN bucket[b].rows[k] ELSE 0]
             filled(c) == [localDepth |-> bucket[b].localDepth + 1,
                           size |-> Total(here(c)), rows |-> here(c)]
             touched == {b} \cup {new[j] : j \in moves}
             nodes == [c \in DOMAIN bucket \cup touched |->
                           IF c \in touched THEN filled(c) ELSE bucket[c]]
  <1>1. Split(dir, depth, b, i) = [dir |-> dir2, bucket |-> nodes]
    BY DEF Split
  <1>2. PICK n \in Nat \ {0} : DOMAIN bucket = 1 .. n
    BY DEF Numbered
  <1>3. /\ moves \subseteq DOMAIN dir /\ i \notin moves
        /\ \A j \in moves : dir[j] = b
    BY DEF Leaving
  <1>4. IsFiniteSet(moves)
    <2>1. pow2[depth] - 1 \in Int
      BY Pow2Steps DEF Leads
    <2>2. IsFiniteSet(0 .. pow2[depth] - 1)
      BY <2>1, FS_Interval
    <2>3. QED
      BY <1>3, <2>2, FS_Subset DEF Leads
  <1>5. /\ m \in Nat /\ new \in [moves -> n + 1 .. n + m]
        /\ {new[j] : j \in moves} = n + 1 .. n + m
    <2> HIDE DEF moves
    <2>1. QED
      BY <1>2, <1>4, NewNumbers
  <1>6. \A k \in Rows : getHash(k, depth) \in DOMAIN dir
    BY HashFacts DEF Leads
  <1> HIDE DEF moves, new, m
  <1>7. touched = {b} \cup n + 1 .. n + m
    BY <1>5
  <1>8. DOMAIN bucket \cup touched = 1 .. n + m /\ \A j \in moves : new[j] \notin DOMAIN bucket
    BY <1>2, <1>5, <1>7
  <1>9. \A j \in DOMAIN dir : dir[j] \in DOMAIN bucket
    BY DEF Leads
  <1>10. {dir2[j] : j \in DOMAIN dir} = DOMAIN bucket \cup touched
    <2>1. \A j \in DOMAIN dir : dir2[j] \in DOMAIN bucket \cup touched
      BY <1>9
    <2>2. ASSUME NEW c \in touched PROVE \E j \in DOMAIN dir : dir2[j] = c
      BY <1>3
    <2>3. ASSUME NEW c \in DOMAIN bucket \ touched PROVE \E j \in DOMAIN dir : dir2[j] = c
      <3>1. PICK j \in DOMAIN dir : dir[j] = c
        BY DEF Leads
      <3>2. j \notin moves
        BY <1>3, <3>1
      <3>3. QED
        BY <3>1, <3>2
    <2> HIDE DEF dir2, touched
    <2>4. QED
      BY <2>1, <2>2, <2>3
  <1>11. bucket[b] \in Record /\ Total(bucket[b].rows) <= most /\ Total(bucket[b].rows) \in Nat
    <2>1. bucket[b] \in Record /\ Total(bucket[b].rows) <= bucket[b].size
                               /\ bucket[b].size <= most /\ bucket[b].size \in Nat
      BY DEF Numbered, Record
    <2>2. Total(bucket[b].rows) \in Nat
      BY <2>1, TotalFacts DEF Record
    <2>3. QED
      BY <2>1, <2>2
  <1>12. ASSUME NEW c
         PROVE  here(c) \in [Rows -> Nat] /\ Total(here(c)) \in Nat /\ Total(here(c)) <= most
    <2>1. /\ here(c) \in [Rows -> Nat] /\ bucket[b].rows \in [Rows -> Nat]
          /\ \A k \in Rows : here(c)[k] <= bucket[b].rows[k]
      BY <1>11 DEF Record
    <2>2. Total(here(c)) <= Total(bucket[b].rows) /\ Total(here(c)) \in Nat
      <3> HIDE DEF here
      <3>1. QED
        BY <2>1, TotalFacts
    <2> HIDE DEF here
    <2>3. QED
      BY <1>11, <2>1, <2>2
  <1>13. Numbered(nodes, most)
    <2>1. n + m \in Nat \ {0} /\ DOMAIN nodes = 1 .. n + m
      BY <1>5, <1>8
    <2>2. ASSUME NEW c \in DOMAIN nodes
          PROVE  /\ nodes[c] \in Record
                 /\ Total(nodes[c].rows) <= nodes[c].size
                 /\ nodes[c].size <= most
      <3>1. CASE c \in touched
        <4>1. nodes[c] = filled(c) /\ bucket[b].localDepth + 1 \in Nat
          BY <1>11, <3>1 DEF Record
        <4>2. /\ filled(c).rows = here(c) /\ filled(c).size = Total(here(c))
              /\ filled(c).localDepth = bucket[b].localDepth + 1
          BY DEF filled
        <4>3. filled(c) \in Record
          BY <1>12, <4>1 DEF Record
        <4> HIDE DEF nodes, filled, here
        <4>4. QED
          BY <1>12, <4>1, <4>2, <4>3
      <3>2. CASE c \notin touched
        BY <3>2 DEF Numbered
      <3>3. QED
        BY <3>1, <3>2
    <2> HIDE DEF nodes
    <2>3. QED
      BY <2>1, <2>2 DEF Numbered
  <1>14. ASSUME NEW c \in DOMAIN nodes, NEW k \in Rows, nodes[c].rows[k] > 0
         PROVE  dir2[getHash(k, depth)] = c
    <2>1. CASE c \in touched
      <3>1. nodes[c].rows[k] = IF dir2[getHash(k, depth)] = c THEN bucket[b].rows[k] ELSE 0
        BY <2>1 DEF nodes, filled, here
      <3>2. QED
        BY <1>14, <3>1
    <2>2. CASE c \notin touched
      <3>1. c \in DOMAIN bucket /\ bucket[c].rows[k] > 0 /\ c # b
        BY <1>14, <2>2
      <3>2. dir[getHash(k, depth)] = c
        BY <3>1 DEF Leads
      <3>3. QED
        BY <1>3, <1>6, <3>1, <3>2
    <2>3. QED
      BY <2>1, <2>2
  <1>15. Leads(dir2, depth, nodes)
    <2>1. DOMAIN dir2 = DOMAIN dir /\ DOMAIN nodes = DOMAIN bucket \cup touched
      OBVIOUS
    <2> HIDE DEF dir2, nodes, touched
    <2>2. QED
      BY <1>10, <1>14, <2>1 DEF Leads
  <1>16. ASSUME NEW k \in Rows
         PROVE  nodes[dir2[getHash(k, depth)]].rows[k] = bucket[dir[getHash(k, depth)]].rows[k]
    <2>1. CASE getHash(k, depth) \in moves
      BY <1>3, <1>6, <2>1
    <2>2. CASE getHash(k, depth) \notin moves
      <3>1. dir2[getHash(k, depth)] = dir[getHash(k, depth)] /\ dir[getHash(k, depth)] \in DOMAIN bucket
        BY <1>6, <1>9, <2>2
      <3>2. dir[getHash(k, depth)] \in touched => dir[getHash(k, depth)] = b
        BY <1>8, <3>1
      <3>3. QED
        BY <3>1, <3>2
    <2>3. QED
      BY <2>1, <2>2
  <1>17. \A c \in DOMAIN nodes :
           nodes[c].localDepth = IF c \in DOMAIN bucket \ {b} THEN bucket[c].localDepth
                                                                ELSE bucket[b].localDepth + 1
    BY <1>8
  <1>18. DOMAIN bucket \subseteq DOMAIN nodes /\ b \in DOMAIN nodes
    OBVIOUS
  <1> HIDE DEF nodes, dir2
  <1>19. QED
    BY <1>1, <1>13, <1>15, <1>16, <1>17, <1>18 DEF Copies

(* Every row of the table is in the bucket the directory leads it to.      *)
LEMMA CopiesFacts ==
  ASSUME NEW dir, NEW depth, NEW nodes, NEW most,
         Leads(dir, depth, nodes), Numbered(nodes, most), NEW k \in Rows
  PROVE  /\ dir[getHash(k, depth)] \in DOMAIN nodes
         /\ Copies(dir, depth, nodes, k) \in Nat
         /\ SumFunction([b \in DOMAIN nodes |-> nodes[b].rows[k]])
              = Copies(dir, depth, nodes, k)
  <1> DEFINE there == dir[getHash(k, depth)]
             f == [b \in DOMAIN nodes |-> nodes[b].rows[k]]
  <1>1. getHash(k, depth) \in DOMAIN dir /\ there \in DOMAIN nodes
    BY HashFacts DEF Leads
  <1>2. \A b \in DOMAIN nodes : nodes[b].rows[k] \in Nat
    BY DEF Numbered, Record
  <1>3. IsFiniteSet(DOMAIN nodes)
    <2>1. PICK n \in Nat \ {0} : DOMAIN nodes = 1 .. n
      BY DEF Numbered
    <2>2. QED
      BY <2>1, FS_Interval
  <1>4. \A b \in DOMAIN nodes \ {there} : nodes[b].rows[k] = 0
    BY <1>2 DEF Leads
  <1>5. SumFunctionOnSet(f, DOMAIN nodes) = f[there]
    <2>1. f[there] \in Int /\ \A b \in DOMAIN nodes \ {there} : f[b] = 0
      BY <1>1, <1>2, <1>4
    <2> HIDE DEF f, there
    <2>2. QED
      BY <1>1, <1>3, <2>1, SumOnly
  <1>6. SumFunction(f) = f[there]
    BY <1>5 DEF SumFunction
  <1>7. QED
    BY <1>1, <1>2, <1>6 DEF Copies

(* What a row put in its place makes of the buckets.                       *)
LEMMA PlaceFacts ==
  ASSUME NEW dir, NEW depth, NEW nodes, NEW most \in Nat,
         Leads(dir, depth, nodes), Numbered(nodes, most), NEW k \in Rows
  PROVE  LET p == Place(nodes, dir[getHash(k, depth)], k)
         IN  /\ Leads(dir, depth, p)
             /\ Numbered(p, most + 1)
             /\ DOMAIN p = DOMAIN nodes
             /\ \A b \in DOMAIN nodes : p[b].localDepth = nodes[b].localDepth
             /\ \A r \in Rows :
                  Copies(dir, depth, p, r) =
                    Copies(dir, depth, nodes, r) + (IF r = k THEN 1 ELSE 0)
  <1> DEFINE there == dir[getHash(k, depth)]
             old == nodes[there].rows
             more == [old EXCEPT ![k] = @ + 1]
             p == Place(nodes, there, k)
  <1>1. there \in DOMAIN nodes
    BY CopiesFacts
  <1>2. /\ nodes[there] \in Record /\ old \in [Rows -> Nat]
        /\ nodes[there].size \in Nat /\ nodes[there].localDepth \in Nat
        /\ Total(old) <= nodes[there].size /\ nodes[there].size <= most
    BY <1>1 DEF Numbered, Record
  <1>3. /\ more \in [Rows -> Nat] /\ Total(more) = Total(old) + 1 /\ Total(old) \in Nat
        /\ \A r \in Rows : more[r] = old[r] + (IF r = k THEN 1 ELSE 0)
    <2>1. Total(more) = Total(old) + 1 /\ Total(old) \in Nat
      <3> HIDE DEF there
      <3>1. QED
        BY <1>2, TotalFacts
    <2>2. QED
      BY <1>2, <2>1
  <1>4. /\ DOMAIN p = DOMAIN nodes
        /\ \A b \in DOMAIN nodes \ {there} : p[b] = nodes[b]
        /\ p[there].rows = more /\ p[there].size = nodes[there].size + 1
        /\ p[there].localDepth = nodes[there].localDepth
        /\ p[there] \in Record
    <2>1. p = [nodes EXCEPT ![there].rows[k] = @ + 1, ![there].size = @ + 1]
      BY DEF Place
    <2> DEFINE first == [nodes EXCEPT ![there].rows[k] = @ + 1]
    <2>2. /\ DOMAIN first = DOMAIN nodes
          /\ \A b \in DOMAIN nodes \ {there} : first[b] = nodes[b]
          /\ first[there] = [nodes[there] EXCEPT !.rows = more]
      BY <1>1, <1>2
    <2>3. p = [first EXCEPT ![there].size = @ + 1]
      BY <2>1
    <2> HIDE DEF first, p, more
    <2>4. /\ DOMAIN p = DOMAIN nodes
          /\ \A b \in DOMAIN nodes \ {there} : p[b] = nodes[b]
          /\ p[there] = [[nodes[there] EXCEPT !.rows = more] EXCEPT !.size = @ + 1]
      BY <1>1, <2>2, <2>3
    <2>5. p[there] = [localDepth |-> nodes[there].localDepth,
                      size |-> nodes[there].size + 1, rows |-> more]
      <3>1. ASSUME NEW q \in Record
            PROVE  [[q EXCEPT !.rows = more] EXCEPT !.size = @ + 1]
                     = [localDepth |-> q.localDepth, size |-> q.size + 1, rows |-> more]
        <4>1. q = [localDepth |-> q.localDepth, size |-> q.size, rows |-> q.rows]
          BY DEF Record
        <4>2. [q EXCEPT !.rows = more]
                = [localDepth |-> q.localDepth, size |-> q.size, rows |-> more]
          BY <4>1
        <4>3. ASSUME NEW w, w = [localDepth |-> q.localDepth, size |-> q.size, rows |-> more]
              PROVE  [w EXCEPT !.size = @ + 1]
                       = [localDepth |-> q.localDepth, size |-> q.size + 1, rows |-> more]
          BY <4>3
        <4>4. QED
          BY <4>2, <4>3
      <3>2. QED
        BY <1>2, <2>4, <3>1
    <2>6. QED
      BY <1>2, <1>3, <2>4, <2>5 DEF Record
  <1> HIDE DEF p, more
  <1>5. Numbered(p, most + 1)
    <2>1. ASSUME NEW b \in DOMAIN p
          PROVE  p[b] \in Record /\ Total(p[b].rows) <= p[b].size /\ p[b].size <= most + 1
      <3>1. CASE b = there
        BY <1>2, <1>3, <1>4, <3>1
      <3>2. CASE b # there
        <4>1. p[b] = nodes[b] /\ nodes[b].size \in Nat
          BY <1>4, <2>1, <3>2 DEF Numbered, Record
        <4>2. QED
          BY <1>4, <2>1, <4>1 DEF Numbered
      <3>3. QED
        BY <3>1, <3>2
    <2>2. QED
      BY <1>4, <2>1 DEF Numbered
  <1>6. Leads(dir, depth, p)
    <2>1. ASSUME NEW b \in DOMAIN p, NEW r \in Rows, p[b].rows[r] > 0
          PROVE  dir[getHash(r, depth)] = b
      <3>1. CASE b = there /\ r = k
        BY <3>1
      <3>2. CASE b # there \/ r # k
        <4>1. nodes[b].rows[r] = p[b].rows[r]
          BY <1>2, <1>3, <1>4, <2>1, <3>2
        <4>2. QED
          BY <1>4, <2>1, <4>1 DEF Leads
      <3>3. QED
        BY <3>1, <3>2
    <2>2. QED
      BY <1>4, <2>1 DEF Leads
  <1>7. ASSUME NEW r \in Rows
        PROVE  Copies(dir, depth, p, r) = Copies(dir, depth, nodes, r)
                                            + (IF r = k THEN 1 ELSE 0)
    <2>1. /\ dir[getHash(r, depth)] \in DOMAIN nodes
          /\ nodes[dir[getHash(r, depth)]].rows[r] \in Nat
      BY CopiesFacts DEF Copies
    <2>2. CASE dir[getHash(r, depth)] = there
      BY <1>3, <1>4, <2>2 DEF Copies
    <2>3. CASE dir[getHash(r, depth)] # there
      BY <1>4, <2>1, <2>3 DEF Copies
    <2>4. QED
      BY <2>2, <2>3
  <1>8. \A b \in DOMAIN nodes : p[b].localDepth = nodes[b].localDepth
    BY <1>4
  <1>9. QED
    BY <1>4, <1>5, <1>6, <1>7, <1>8 DEF p

(* The copies of a row that a search for it can find.                      *)
Now(k) == Copies(directories, globalDepth, bucket, k)

Whole == Leads(directories, globalDepth, bucket) /\ Numbered(bucket, inserted)

LEMMA StoredNow ==
  ASSUME NEW k \in Rows, Whole
  PROVE  /\ Now(k) \in Nat /\ EH_Stored(k) = Now(k)
         /\ EH_getValue(k) <=> Now(k) > 0
  <1>1. Now(k) \in Nat /\ EH_Stored(k) = Now(k)
    BY CopiesFacts DEF Whole, Now, EH_Stored
  <1>2. EH_getValue(k) <=> Now(k) > 0
    BY DEF EH_getValue, Now, Copies, At
  <1>3. QED
    BY <1>1, <1>2

LEMMA ExtendibleStarts == EH_Init => ExtendibleInv
  <1> SUFFICES ASSUME EH_Init PROVE ExtendibleInv
    OBVIOUS
  <1>1. /\ DOMAIN directories = {0} /\ directories[0] = 1
        /\ DOMAIN bucket = {1} /\ globalDepth = 0 /\ inserted = 0
        /\ searchable = {} /\ removed = {}
        /\ bucket[1].localDepth = 0 /\ bucket[1].size = 0 /\ bucket[1].rows = NoRows
        /\ bucket[1] \in Record
    BY DEF EH_Init, Bucket, Record, NoRows
  <1>2. Total(NoRows) = 0
    BY NoRowsTotal
  <1>3. Numbered(bucket, inserted)
    <2>1. DOMAIN bucket = 1 .. 1
      BY <1>1
    <2>2. QED
      BY <1>1, <1>2, <2>1 DEF Numbered
  <1>4. Leads(directories, globalDepth, bucket)
    <2>1. pow2[0] = 1 /\ 0 .. 1 - 1 = {0}
      BY Pow2Steps
    <2>2. \A k \in Rows : bucket[1].rows[k] = 0
      BY <1>1 DEF NoRows
    <2>3. QED
      BY <1>1, <2>1, <2>2 DEF Leads
  <1>5. QED
    BY <1>1, <1>3, <1>4 DEF ExtendibleInv, Deepest

(* What is common to the steps: a row's own copies change by at most one,  *)
(* none of the others.                                                     *)
LEMMA OwnChange ==
  ASSUME Whole, Whole', NEW own \in Rows, NEW d \in {-1, 0, 1},
         \A k \in Rows : Now(k)' = Now(k) + (IF k = own THEN d ELSE 0)
  PROVE  /\ \A k \in Rows \ {own} : EH_Stored(k)' = EH_Stored(k)
         /\ EH_Stored(own)' = EH_Stored(own) + d
         /\ EH_Stored(own)' - EH_Stored(own) \in {-1, 0, 1}
         /\ \A k \in Rows \ {own} : EH_getValue(k)' <=> EH_getValue(k)
         /\ d >= 0 => (EH_getValue(own) => EH_getValue(own)')
         /\ d = 1 => EH_getValue(own)'
  <1>1. \A k \in Rows : /\ Now(k) \in Nat /\ EH_Stored(k) = Now(k)
                        /\ EH_getValue(k) <=> Now(k) > 0
    BY StoredNow
  <1>2. ASSUME NEW k \in Rows
        PROVE  (/\ Now(k) \in Nat /\ EH_Stored(k) = Now(k)
                /\ EH_getValue(k) <=> Now(k) > 0)'
    <2>1. Now(k)' \in Nat /\ EH_Stored(k)' = Now(k)'
      BY CopiesFacts DEF Whole, Now, EH_Stored
    <2>2. EH_getValue(k)' <=> Now(k)' > 0
      BY DEF EH_getValue, Now, Copies, At
    <2>3. QED
      BY <2>1, <2>2
  <1>3. QED
    BY <1>1, <1>2

OwnOnly ==
  \E own \in Rows :
    /\ \A k \in Rows \ {own} : EH_Stored(k)' = EH_Stored(k)
    /\ EH_Stored(own)' - EH_Stored(own) \in {-1, 0, 1}
    /\ inserted' > inserted => EH_Stored(own)' >= EH_Stored(own)

LEMMA InsertThereStep ==
  ASSUME ExtendibleInv, NEW own \in Rows, InsertThere(own)
  PROVE  ExtendibleInv' /\ OwnOnly
  <1>1. /\ inserted \in Nat /\ inserted' = inserted + 1
        /\ bucket' = Place(bucket, directories[getHash(own, globalDepth)], own)
        /\ directories' = directories /\ globalDepth' = globalDepth
        /\ searchable' = searchable \cup {own} /\ removed' = removed \ {own}
    BY DEF InsertThere, Arrives, At, Indexed, ExtendibleInv
  <1>2. Whole
    BY DEF Whole, ExtendibleInv
  <1>3. /\ Leads(directories, globalDepth, bucket')
        /\ Numbered(bucket', inserted + 1)
        /\ DOMAIN bucket' = DOMAIN bucket
        /\ \A b \in DOMAIN bucket : bucket'[b].localDepth = bucket[b].localDepth
        /\ \A k \in Rows : Copies(directories, globalDepth, bucket', k) =
                             Copies(directories, globalDepth, bucket, k)
                               + (IF k = own THEN 1 ELSE 0)
    BY <1>1, <1>2, PlaceFacts DEF Whole
  <1>4. Whole'
    BY <1>1, <1>3 DEF Whole
  <1>5. /\ \A k \in Rows \ {own} : EH_Stored(k)' = EH_Stored(k)
        /\ EH_Stored(own)' = EH_Stored(own) + 1
        /\ EH_Stored(own)' - EH_Stored(own) \in {-1, 0, 1}
        /\ \A k \in Rows \ {own} : EH_getValue(k)' <=> EH_getValue(k)
        /\ EH_getValue(own)'
    <2>1. \A k \in Rows : Now(k)' = Now(k) + (IF k = own THEN 1 ELSE 0)
      BY <1>1, <1>3 DEF Now
    <2>2. QED
      BY <1>2, <1>4, <2>1, OwnChange
  <1>6. Deepest(bucket, globalDepth)'
    BY <1>1, <1>3 DEF Deepest, ExtendibleInv
  <1>7. \A k \in searchable' \ removed' : EH_getValue(k)'
    BY <1>1, <1>5 DEF ExtendibleInv
  <1>8. globalDepth' > 0 => globalDepth' <= inserted' - BUCKET_SIZE
    BY <1>1 DEF ExtendibleInv, Leads, BUCKET_SIZE
  <1>9. ExtendibleInv'
    BY <1>1, <1>4, <1>6, <1>7, <1>8 DEF ExtendibleInv, Whole
  <1>10. EH_Stored(own) \in Nat
    BY <1>2, StoredNow
  <1>11. EH_Stored(own)' >= EH_Stored(own)
    BY <1>5, <1>10
  <1>12. QED
    BY <1>5, <1>9, <1>11 DEF OwnOnly

LEMMA RemoveStep ==
  ASSUME ExtendibleInv, NEW own \in Rows, removeValue(own)
  PROVE  ExtendibleInv' /\ OwnOnly
  <1> DEFINE b == At(own)
             old == bucket[b].rows
             less == [old EXCEPT ![own] = @ - 1]
  <1>1. /\ EH_getValue(own) /\ inserted \in Nat
        /\ bucket' = [bucket EXCEPT ![b].rows[own] = @ - 1]
        /\ directories' = directories /\ globalDepth' = globalDepth
        /\ searchable' = searchable /\ removed' = removed \cup {own} /\ inserted' = inserted
    BY DEF removeValue, ExtendibleInv
  <1>2. Whole /\ b = directories[getHash(own, globalDepth)]
    BY DEF Whole, ExtendibleInv, At
  <1>3. /\ b \in DOMAIN bucket /\ bucket[b] \in Record /\ old \in [Rows -> Nat] /\ old[own] > 0
        /\ Total(old) <= bucket[b].size /\ bucket[b].size <= inserted
    <2>1. b \in DOMAIN bucket
      BY <1>2, CopiesFacts DEF Whole
    <2>2. QED
      BY <1>1, <1>2, <2>1 DEF Whole, Numbered, Record, EH_getValue
  <1>4. /\ less \in [Rows -> Nat] /\ Total(less) <= Total(old)
        /\ Total(less) \in Nat /\ Total(old) \in Nat
        /\ \A k \in Rows : less[k] = old[k] + (IF k = own THEN -1 ELSE 0) /\ less[k] <= old[k]
    <2>1. less \in [Rows -> Nat]
      BY <1>3
    <2>2. \A k \in Rows : less[k] = old[k] + (IF k = own THEN -1 ELSE 0) /\ less[k] <= old[k]
      BY <1>3
    <2> HIDE DEF less, b
    <2>3. QED
      BY <1>3, <2>1, <2>2, TotalFacts
  <1>5. /\ DOMAIN bucket' = DOMAIN bucket
        /\ \A c \in DOMAIN bucket \ {b} : bucket'[c] = bucket[c]
        /\ bucket'[b] = [bucket[b] EXCEPT !.rows = less]
    <2> HIDE DEF b
    <2>1. QED
      BY <1>1, <1>3
  <1>6. /\ bucket'[b] \in Record /\ bucket'[b].rows = less
        /\ bucket'[b].size = bucket[b].size
        /\ bucket'[b].localDepth = bucket[b].localDepth
    <2> HIDE DEF b, less
    <2>1. QED
      BY <1>3, <1>4, <1>5 DEF Record
  <1> HIDE DEF b, less
  <1>7. Numbered(bucket', inserted)
    <2>1. ASSUME NEW c \in DOMAIN bucket
          PROVE  /\ bucket'[c] \in Record
                 /\ Total(bucket'[c].rows) <= bucket'[c].size
                 /\ bucket'[c].size <= inserted
      <3>1. CASE c = b
        <4>1. bucket[b].size \in Nat
          BY <1>3 DEF Record
        <4>2. QED
          BY <1>1, <1>3, <1>4, <1>6, <3>1, <4>1
      <3>2. CASE c # b
        BY <1>2, <1>5, <3>2 DEF Whole, Numbered
      <3>3. QED
        BY <3>1, <3>2
    <2>2. QED
      BY <1>2, <1>5, <2>1 DEF Whole, Numbered
  <1>8. Leads(directories, globalDepth, bucket')
    <2>1. ASSUME NEW c \in DOMAIN bucket, NEW k \in Rows, bucket'[c].rows[k] > 0
          PROVE  directories[getHash(k, globalDepth)] = c
      <3>1. bucket[c].rows[k] > 0
        <4>1. CASE c = b
          <5>1. less[k] > 0 /\ less[k] \in Nat /\ less[k] <= old[k] /\ old[k] \in Nat
            BY <1>3, <1>4, <1>6, <2>1, <4>1
          <5>2. QED
            BY <4>1, <5>1
        <4>2. CASE c # b
          BY <1>5, <2>1, <4>2
        <4>3. QED
          BY <4>1, <4>2
      <3>2. QED
        BY <1>2, <3>1 DEF Whole, Leads
    <2>2. QED
      BY <1>2, <1>5, <2>1 DEF Whole, Leads
  <1>9. Whole'
    BY <1>1, <1>7, <1>8 DEF Whole
  <1>10. \A k \in Rows : Now(k)' = Now(k) + (IF k = own THEN -1 ELSE 0)
    <2> TAKE k \in Rows
    <2>1. /\ directories[getHash(k, globalDepth)] \in DOMAIN bucket /\ Now(k) \in Nat
          /\ Now(k) = bucket[directories[getHash(k, globalDepth)]].rows[k]
          /\ Now(k)' = bucket'[directories[getHash(k, globalDepth)]].rows[k]
      BY <1>1, <1>2, CopiesFacts DEF Whole, Now, Copies
    <2>2. CASE directories[getHash(k, globalDepth)] = b
      BY <1>4, <1>6, <2>1, <2>2
    <2>3. CASE directories[getHash(k, globalDepth)] # b
      BY <1>2, <1>5, <2>1, <2>3
    <2>4. QED
      BY <2>2, <2>3
  <1>11. /\ \A k \in Rows \ {own} : EH_Stored(k)' = EH_Stored(k)
         /\ EH_Stored(own)' - EH_Stored(own) \in {-1, 0, 1}
         /\ \A k \in Rows \ {own} : EH_getValue(k)' <=> EH_getValue(k)
    BY <1>2, <1>9, <1>10, OwnChange
  <1>12. Deepest(bucket, globalDepth)'
    BY <1>1, <1>5, <1>6 DEF Deepest, ExtendibleInv
  <1>13. \A k \in searchable' \ removed' : EH_getValue(k)'
    BY <1>1, <1>11 DEF ExtendibleInv
  <1>14. ExtendibleInv'
    BY <1>1, <1>9, <1>12, <1>13 DEF ExtendibleInv, Whole
  <1>15. ~(inserted' > inserted)
    BY <1>1
  <1>16. QED
    BY <1>11, <1>14, <1>15 DEF OwnOnly

LEMMA InsertSplitStep ==
  ASSUME ExtendibleInv, NEW own \in Rows, InsertSplit(own)
  PROVE  ExtendibleInv' /\ OwnOnly
  <1> DEFINE b == At(own)
             i == getHash(own, globalDepth)
             deep == bucket[b].localDepth = globalDepth
             depth == IF deep THEN globalDepth + 1 ELSE globalDepth
             dir == IF deep THEN Doubled(directories) ELSE directories
             s == Split(dir, depth, b, i)
             there == s.dir[getHash(own, depth)]
             free == Total(s.bucket[there].rows) < BUCKET_SIZE
  <1>1. /\ inserted \in Nat /\ inserted' = inserted + 1 /\ bucket[b].size >= BUCKET_SIZE
        /\ globalDepth' = depth /\ directories' = s.dir
        /\ IF free THEN bucket' = Place(s.bucket, there, own) /\ Indexed(own)
                   ELSE bucket' = s.bucket /\ UNCHANGED <<searchable, removed>>
    BY DEF InsertSplit, Arrives, ExtendibleInv
  <1>2. Whole /\ b = directories[i] /\ globalDepth \in Nat
    BY DEF Whole, ExtendibleInv, At, Leads
  <1>3. /\ b \in DOMAIN bucket /\ i \in DOMAIN directories
        /\ bucket[b].localDepth \in Nat /\ bucket[b].size \in Nat
        /\ bucket[b].localDepth <= globalDepth
    <2>1. b \in DOMAIN bucket /\ i \in DOMAIN directories
      BY <1>2, CopiesFacts, HashFacts DEF Whole, Leads
    <2>2. QED
      BY <1>2, <2>1 DEF Whole, Numbered, Record, ExtendibleInv, Deepest
  <1>4. /\ Leads(dir, depth, bucket) /\ i \in DOMAIN dir /\ dir[i] = b
        /\ \A k \in Rows : Copies(dir, depth, bucket, k) = Now(k)
    <2>1. CASE deep
      <3>1. /\ Leads(Doubled(directories), globalDepth + 1, bucket)
            /\ \A k \in Rows :
                 /\ Doubled(directories)[getHash(k, globalDepth + 1)]
                      = directories[getHash(k, globalDepth)]
                 /\ getHash(k, globalDepth) \in DOMAIN Doubled(directories)
                 /\ Doubled(directories)[getHash(k, globalDepth)]
                      = directories[getHash(k, globalDepth)]
        BY <1>2, DoubledLeads DEF Whole
      <3>2. dir = Doubled(directories) /\ depth = globalDepth + 1
        BY <2>1
      <3> HIDE DEF dir, depth, b, deep
      <3>3. QED
        BY <1>2, <3>1, <3>2 DEF Now, Copies
    <2>2. CASE ~deep
      <3>1. dir = directories /\ depth = globalDepth
        BY <2>2
      <3> HIDE DEF dir, depth, b, deep
      <3>2. QED
        BY <1>2, <1>3, <3>1 DEF Now, Copies, Whole
    <2>3. QED
      BY <2>1, <2>2
  <1> HIDE DEF dir, depth, b, i
  <1>5. /\ Leads(s.dir, depth, s.bucket)
        /\ Numbered(s.bucket, inserted)
        /\ DOMAIN bucket \subseteq DOMAIN s.bucket
        /\ s.bucket[b].localDepth = bucket[b].localDepth + 1
        /\ \A c \in DOMAIN s.bucket :
             s.bucket[c].localDepth =
               IF c \in DOMAIN bucket \ {b} THEN bucket[c].localDepth
                                            ELSE bucket[b].localDepth + 1
        /\ \A k \in Rows : Copies(s.dir, depth, s.bucket, k) = Copies(dir, depth, bucket, k)
    BY <1>1, <1>2, <1>3, <1>4, SplitFacts DEF Whole
  <1>6. Deepest(s.bucket, depth)
    <2>1. CASE deep
      <3>1. depth = globalDepth + 1
        BY <2>1 DEF depth
      <3>2. bucket[b].localDepth = globalDepth
        BY <2>1
      <3>3. \A c \in DOMAIN s.bucket : s.bucket[c].localDepth <= depth
        <4> TAKE c \in DOMAIN s.bucket
        <4>1. CASE c \in DOMAIN bucket \ {b}
          <5>1. /\ s.bucket[c].localDepth = bucket[c].localDepth
                /\ bucket[c].localDepth <= globalDepth /\ bucket[c].localDepth \in Nat
            BY <1>2, <1>5, <4>1 DEF ExtendibleInv, Deepest, Whole, Numbered, Record
          <5>2. QED
            BY <1>2, <3>1, <5>1
        <4>2. CASE c \notin DOMAIN bucket \ {b}
          BY <1>2, <1>3, <1>5, <3>1, <3>2, <4>2
        <4>3. QED
          BY <4>1, <4>2
      <3>4. QED
        BY <1>3, <1>5, <3>1, <3>2, <3>3 DEF Deepest
    <2>2. CASE ~deep
      <3>1. depth = globalDepth
        BY <2>2 DEF depth
      <3>2. PICK c \in DOMAIN bucket : bucket[c].localDepth = globalDepth
        BY DEF ExtendibleInv, Deepest
      <3>3. c # b
        BY <2>2, <3>2
      <3>4. c \in DOMAIN s.bucket /\ s.bucket[c].localDepth = depth
        BY <1>5, <3>1, <3>2, <3>3
      <3>5. bucket[b].localDepth + 1 <= depth
        BY <1>2, <1>3, <2>2, <3>1
      <3>6. \A a \in DOMAIN s.bucket : s.bucket[a].localDepth <= depth
        BY <1>5, <3>1, <3>5 DEF ExtendibleInv, Deepest
      <3>7. QED
        BY <3>4, <3>6 DEF Deepest
    <2>3. QED
      BY <2>1, <2>2
  <1>7. depth > 0 => depth <= inserted' - BUCKET_SIZE
    <2>1. bucket[b].size <= inserted
      BY <1>2, <1>3 DEF Whole, Numbered
    <2>2. QED
      BY <1>1, <1>2, <1>3, <2>1 DEF ExtendibleInv, depth, BUCKET_SIZE
  <1> HIDE DEF s
  <1>8. CASE free
    <2> DEFINE p == Place(s.bucket, there, own)
    <2>1. /\ Leads(s.dir, depth, p) /\ Numbered(p, inserted + 1)
          /\ DOMAIN p = DOMAIN s.bucket
          /\ \A c \in DOMAIN s.bucket : p[c].localDepth = s.bucket[c].localDepth
          /\ \A k \in Rows : Copies(s.dir, depth, p, k) =
                               Copies(s.dir, depth, s.bucket, k) + (IF k = own THEN 1 ELSE 0)
      BY <1>1, <1>5, PlaceFacts
    <2>2. bucket' = p /\ searchable' = searchable \cup {own} /\ removed' = removed \ {own}
      BY <1>1, <1>8 DEF Indexed
    <2> HIDE DEF p
    <2>3. Whole'
      BY <1>1, <2>1, <2>2 DEF Whole
    <2>4. \A k \in Rows : Now(k)' = Now(k) + (IF k = own THEN 1 ELSE 0)
      BY <1>1, <1>4, <1>5, <2>1, <2>2 DEF Now
    <2>5. /\ \A k \in Rows \ {own} : EH_Stored(k)' = EH_Stored(k)
          /\ EH_Stored(own)' = EH_Stored(own) + 1
          /\ EH_Stored(own)' - EH_Stored(own) \in {-1, 0, 1}
          /\ \A k \in Rows \ {own} : EH_getValue(k)' <=> EH_getValue(k)
          /\ EH_getValue(own)'
      BY <1>2, <2>3, <2>4, OwnChange
    <2>6. Deepest(bucket, globalDepth)'
      BY <1>1, <1>6, <2>1, <2>2 DEF Deepest
    <2>7. \A k \in searchable' \ removed' : EH_getValue(k)'
      BY <2>2, <2>5 DEF ExtendibleInv
    <2>8. ExtendibleInv'
      BY <1>1, <1>7, <2>2, <2>3, <2>6, <2>7 DEF ExtendibleInv, Whole
    <2>9. EH_Stored(own) \in Nat
      BY <1>2, StoredNow
    <2>10. EH_Stored(own)' >= EH_Stored(own)
      BY <2>5, <2>9
    <2>11. QED
      BY <2>5, <2>8, <2>10 DEF OwnOnly
  <1>9. CASE ~free
    <2>1. bucket' = s.bucket /\ searchable' = searchable /\ removed' = removed
      BY <1>1, <1>9
    <2>2. Whole'
      <3>1. \A c \in DOMAIN s.bucket : s.bucket[c].size \in Nat /\ s.bucket[c].size <= inserted
        BY <1>5 DEF Numbered, Record
      <3>2. \A c \in DOMAIN s.bucket : s.bucket[c].size <= inserted + 1
        BY <1>1, <3>1
      <3>3. Numbered(s.bucket, inserted + 1)
        BY <1>5, <3>2 DEF Numbered
      <3>4. QED
        BY <1>1, <1>5, <2>1, <3>3 DEF Whole
    <2>3. \A k \in Rows : Now(k)' = Now(k) + (IF k = own THEN 0 ELSE 0)
      <3>1. \A k \in Rows : Now(k) \in Nat /\ Now(k)' = Now(k)
        BY <1>1, <1>2, <1>4, <1>5, <2>1, StoredNow DEF Now
      <3>2. QED
        BY <3>1
    <2>4. /\ \A k \in Rows \ {own} : EH_Stored(k)' = EH_Stored(k)
          /\ EH_Stored(own)' = EH_Stored(own) + 0
          /\ EH_Stored(own)' - EH_Stored(own) \in {-1, 0, 1}
          /\ \A k \in Rows \ {own} : EH_getValue(k)' <=> EH_getValue(k)
          /\ EH_getValue(own) => EH_getValue(own)'
      BY <1>2, <2>2, <2>3, OwnChange
    <2>5. Deepest(bucket, globalDepth)'
      BY <1>1, <1>6, <2>1 DEF Deepest
    <2>6. \A k \in searchable' \ removed' : EH_getValue(k)'
      BY <2>1, <2>4 DEF ExtendibleInv
    <2>7. ExtendibleInv'
      BY <1>1, <1>7, <2>1, <2>2, <2>5, <2>6 DEF ExtendibleInv, Whole
    <2>8. EH_Stored(own) \in Nat
      BY <1>2, StoredNow
    <2>9. EH_Stored(own)' >= EH_Stored(own)
      BY <2>4, <2>8
    <2>10. QED
      BY <2>4, <2>7, <2>9 DEF OwnOnly
  <1>10. QED
    BY <1>8, <1>9

LEMMA ExtendibleStep ==
  /\ ExtendibleInv /\ [Next]_vars => ExtendibleInv'
  /\ ExtendibleInv /\ [Next]_vars => OwnOnly \/ UNCHANGED evars
  <1> SUFFICES ASSUME ExtendibleInv, [Next]_vars
               PROVE  ExtendibleInv' /\ (OwnOnly \/ UNCHANGED evars)
    OBVIOUS
  <1>1. CASE EH_Next
    BY <1>1, InsertThereStep, InsertSplitStep, RemoveStep DEF EH_Next
  <1>2. CASE UNCHANGED evars
    <2>1. ExtendibleInv'
      BY <1>2 DEF evars, ExtendibleInv, Numbered, Leads, Deepest, EH_getValue, At
    <2>2. QED
      BY <1>2, <2>1
  <1>3. QED
    BY <1>1, <1>2 DEF Next, vars

THEOREM ExtendibleHolds == Spec => []ExtendibleInv
<1>1. Init => ExtendibleInv
  BY ExtendibleStarts DEF Init
<1>2. ExtendibleInv /\ [Next]_vars => ExtendibleInv'
  BY ExtendibleStep
<1>3. QED
  BY <1>1, <1>2, PTL DEF Spec

(* Through any doublings, splits and removals a row lies in the bucket     *)
(* where getValue and removeValue look (extendible_hashing.cpp).           *)
THEOREM RowsAreFound == Spec => []StoredIsFound
<1>1. ExtendibleInv => StoredIsFound
  BY DEF ExtendibleInv, Leads, StoredIsFound, At
<1>2. QED
  BY <1>1, ExtendibleHolds, PTL

(* What searchBook is led to and was not removed, it shows.                *)
THEOREM SearchesAreComplete == Spec => []SearchComplete
<1>1. ExtendibleInv => SearchComplete
  BY DEF ExtendibleInv, SearchComplete, EH_searchBook
<1>2. QED
  BY <1>1, ExtendibleHolds, PTL

(* The directory has 2^globalDepth entries, leads to every bucket and has  *)
(* the depth of the deepest; it doubles at most once an insertion.         *)
THEOREM DirectoryIsWhole == Spec => []DirectoryWhole
<1>1. ExtendibleInv => DirectoryWhole
  <2> SUFFICES ASSUME ExtendibleInv PROVE DirectoryWhole
    OBVIOUS
  <2> DEFINE depths == {bucket[b].localDepth : b \in DOMAIN bucket}
  <2>1. globalDepth \in depths /\ globalDepth \in Nat /\ depths \subseteq Nat
    BY DEF ExtendibleInv, Deepest, Leads, Numbered, Record
  <2>2. \A d \in depths : globalDepth >= d
    BY <2>1 DEF ExtendibleInv, Deepest
  <2>3. Max(depths) = globalDepth
    <3> HIDE DEF depths
    <3>1. \E x \in depths : \A y \in depths : x >= y
      BY <2>1, <2>2
    <3>2. Max(depths) \in depths /\ \A y \in depths : Max(depths) >= y
      BY <3>1 DEF Max
    <3>3. Max(depths) >= globalDepth /\ globalDepth >= Max(depths) /\ Max(depths) \in Nat
      BY <2>1, <2>2, <3>2
    <3>4. QED
      BY <2>1, <3>3
  <2>4. QED
    BY <2>3 DEF ExtendibleInv, Leads, DirectoryWhole
<1>2. QED
  BY <1>1, ExtendibleHolds, PTL

(* An insertion or removal changes the copies of its own row alone, by one *)
(* at most, and a split those of none: nothing is lost or doubled.         *)
THEOREM OthersAreKept == Spec => OthersKept
<1>1. ExtendibleInv /\ [Next]_vars => [OwnOnly]_evars
  BY ExtendibleStep
<1>2. QED
  BY <1>1, ExtendibleHolds, PTL DEF Spec, OthersKept, OwnOnly

(***************************************************************************)
(* The linear hash index                                                   *)
(***************************************************************************)

Addressed ==
  /\ level \in Nat \ {0}
  /\ next_idx \in 0 .. pow2[level] - 1
  /\ DOMAIN buckets = 0 .. pow2[level] + next_idx - 1
  /\ \A i \in DOMAIN buckets : buckets[i] \in [Rows -> Nat]
  /\ count \in Nat /\ indexed \subseteq Rows /\ outside \in BOOLEAN

(* The rows of the buckets of a table.                                     *)
Held(b) == SumFunction([i \in DOMAIN b |-> Total(b[i])])

LoadExact ==
  ~outside => count = Held(buckets) /\ count <= 3 * Cardinality(DOMAIN buckets)

(* No split before the thirteenth row finds one that leads past the end:   *)
(* at level 1 the first bucket to be split has even rows only.             *)
NotTooEarly ==
  /\ outside => count >= 13
  /\ level = 1 /\ next_idx = 0 =>
       \A k \in Rows : buckets[0][k] > 0 => getHash(k, 1) = 0

(* A name's row lies where one bit more than the level, or fewer, lead.    *)
Reachable == ~outside => \A k \in indexed : \E depth \in 1 .. level + 1 : Under(k, depth)

(* What has not been split at level 1 is where the level leads.            *)
Unsplit == level = 1 => \A k \in indexed : getHash(k, 1) >= next_idx => Under(k, 1)

LinearInv == Addressed /\ LoadExact /\ NotTooEarly /\ Reachable /\ Unsplit

(* The number of buckets.                                                  *)
LEMMA Width ==
  ASSUME Addressed
  PROVE  /\ pow2[level] \in Nat \ {0, 1}
         /\ pow2[level + 1] = 2 * pow2[level]
         /\ Cardinality(DOMAIN buckets) = pow2[level] + next_idx
         /\ IsFiniteSet(DOMAIN buckets)
         /\ level >= 2 => pow2[level] >= 4
         /\ pow2[1] = 2 /\ pow2[2] = 4
         /\ \A k \in Rows : getHash(k, level) \in DOMAIN buckets
  <1>1. /\ pow2[0] = 1 /\ \A n \in Nat : pow2[n + 1] = 2 * pow2[n]
        /\ \A n \in Nat : pow2[n] \in Nat \ {0}
    BY Pow2Steps
  <1>2. level - 1 \in Nat /\ (level - 1) + 1 = level
    BY DEF Addressed
  <1>3. pow2[level] = 2 * pow2[level - 1] /\ pow2[level - 1] \in Nat \ {0}
    BY <1>1, <1>2
  <1>4. pow2[1] = 2 /\ pow2[2] = 4
    <2>1. pow2[0 + 1] = 2 * pow2[0] /\ pow2[1 + 1] = 2 * pow2[1]
      BY <1>1
    <2>2. QED
      BY <1>1, <2>1
  <1>5. level >= 2 => pow2[level] >= 4
    <2>1. SUFFICES ASSUME level >= 2 PROVE pow2[level] >= 4
      OBVIOUS
    <2>2. level - 2 \in Nat /\ (level - 2) + 1 = level - 1
      BY <1>2, <2>1 DEF Addressed
    <2>3. pow2[level - 1] = 2 * pow2[level - 2] /\ pow2[level - 2] \in Nat \ {0}
      BY <1>1, <2>2
    <2>4. QED
      BY <1>3, <2>3
  <1> DEFINE n == pow2[level] + next_idx
  <1>6. n \in Nat /\ n - 1 \in Int /\ n > 0 /\ pow2[level] > 1
    BY <1>3 DEF Addressed
  <1>7. IsFiniteSet(0 .. n - 1) /\ Cardinality(0 .. n - 1) = n
    <2> HIDE DEF n
    <2>1. QED
      BY <1>6, FS_Interval
  <1>8. \A k \in Rows : getHash(k, level) \in 0 .. pow2[level] - 1
    BY HashFacts DEF Addressed
  <1>9. 0 .. pow2[level] - 1 \subseteq DOMAIN buckets
    <2>1. pow2[level] \in Nat /\ next_idx \in Nat
      BY <1>3 DEF Addressed
    <2> DEFINE w == pow2[level]
    <2>2. DOMAIN buckets = 0 .. w + next_idx - 1 /\ w \in Nat
      BY <2>1 DEF Addressed
    <2> HIDE DEF w
    <2>3. 0 .. w - 1 \subseteq DOMAIN buckets
      BY <2>1, <2>2
    <2>4. QED
      BY <2>3 DEF w
  <1>10. \A k \in Rows : getHash(k, level) \in DOMAIN buckets
    BY <1>8, <1>9
  <1>11. pow2[level + 1] = 2 * pow2[level] /\ pow2[level] \in Nat \ {0, 1}
    <2>1. pow2[level + 1] = 2 * pow2[level] /\ pow2[level] \in Nat
      BY <1>1 DEF Addressed
    <2>2. QED
      BY <1>6, <2>1
  <1>12. DOMAIN buckets = 0 .. n - 1
    <2>1. pow2[level] \in Nat /\ next_idx \in Nat
      BY <1>3 DEF Addressed
    <2>2. \A a, b \in Nat : 0 .. a + b - 1 = 0 .. (a + b) - 1
      OBVIOUS
    <2>3. DOMAIN buckets = 0 .. pow2[level] + next_idx - 1
      BY DEF Addressed
    <2>4. QED
      BY <2>1, <2>2, <2>3
  <1>13. QED
    BY <1>4, <1>5, <1>7, <1>10, <1>11, <1>12

(* A row more in one bucket is one row more.                               *)
More(b, i, k) == [b EXCEPT ![i] = With(@, k)]

LEMMA HeldWith ==
  ASSUME NEW b, NEW i \in DOMAIN b, NEW k \in Rows,
         IsFiniteSet(DOMAIN b), \A j \in DOMAIN b : b[j] \in [Rows -> Nat]
  PROVE  LET more == More(b, i, k)
         IN  /\ Held(more) = Held(b) + 1 /\ Held(b) \in Int
             /\ DOMAIN more = DOMAIN b
             /\ \A j \in DOMAIN b : more[j] \in [Rows -> Nat]
             /\ \A j \in DOMAIN b, r \in Rows :
                  more[j][r] = b[j][r] + (IF j = i /\ r = k THEN 1 ELSE 0)
  <1> DEFINE more == More(b, i, k)
             f == [j \in DOMAIN b |-> Total(b[j])]
             g == [j \in DOMAIN more |-> Total(more[j])]
  <1>1. /\ DOMAIN more = DOMAIN b
        /\ \A j \in DOMAIN b : more[j] = IF j = i THEN [b[i] EXCEPT ![k] = @ + 1] ELSE b[j]
    BY DEF With, More
  <1>2. /\ \A j \in DOMAIN b : more[j] \in [Rows -> Nat]
        /\ \A j \in DOMAIN b, r \in Rows :
             more[j][r] = b[j][r] + (IF j = i /\ r = k THEN 1 ELSE 0)
    <2> HIDE DEF more
    <2>1. QED
      BY <1>1
  <1> HIDE DEF more
  <1>3. \A j \in DOMAIN b : Total(b[j]) \in Nat
    BY TotalFacts
  <1>4. Total(more[i]) = Total(b[i]) + 1
    <2>1. more[i] = [b[i] EXCEPT ![k] = @ + 1]
      BY <1>1
    <2>2. QED
      BY <2>1, TotalFacts
  <1>5. DifferAt(i, f, g, DOMAIN b) /\ g[i] = f[i] + 1 /\ f[i] \in Int
    BY <1>1, <1>3, <1>4 DEF DifferAt
  <1>6. \A j \in DOMAIN b : f[j] \in Int
    BY <1>3
  <1>7. DOMAIN f = DOMAIN b /\ DOMAIN g = DOMAIN b
    BY <1>1
  <1> HIDE DEF f, g
  <1>8. /\ SumFunctionOnSet(g, DOMAIN b) = SumFunctionOnSet(f, DOMAIN b) - f[i] + g[i]
        /\ SumFunctionOnSet(f, DOMAIN b) \in Int
    BY <1>5, <1>6, SumChange, SumInt
  <1>9. Held(more) = Held(b) + 1 /\ Held(b) \in Int
    BY <1>5, <1>7, <1>8 DEF Held, SumFunction, f, g
  <1>10. QED
    BY <1>1, <1>2, <1>9 DEF more

(* A split takes the rows of a bucket out and puts them where one bit more *)
(* leads, in the buckets there were and the one added.                     *)
LEMMA MovedFacts ==
  ASSUME NEW n \in Nat, NEW b, NEW i \in DOMAIN b,
         DOMAIN b = 0 .. n - 1, \A j \in DOMAIN b : b[j] \in [Rows -> Nat], level \in Nat
  PROVE  LET m == Moved(b, i)
         IN  /\ DOMAIN m = 0 .. n
             /\ \A j \in 0 .. n : m[j] \in [Rows -> Nat]
             /\ \A j \in 0 .. n, k \in Rows :
                  m[j][k] = (IF j \in DOMAIN b /\ j # i THEN b[j][k] ELSE 0)
                              + (IF getHash(k, level + 1) = j THEN b[i][k] ELSE 0)
             /\ Overruns(b, i) <=> \E k \in Rows : b[i][k] > 0 /\ getHash(k, level + 1) > n
             /\ ~Overruns(b, i) => Held(m) = Held(b)
  <1> DEFINE J == 0 .. n
             D == 0 .. n - 1
             v == b[i]
             h == [k \in Rows |-> getHash(k, level + 1)]
             wider == [j \in D \cup {n} |-> IF j \in D /\ j # i THEN b[j] ELSE NoRows]
             m == [j \in DOMAIN wider |->
                     [k \in Rows |-> wider[j][k]
                                       + (IF getHash(k, level + 1) = j THEN b[i][k] ELSE 0)]]
  <1>1. /\ IsFiniteSet(D) /\ Cardinality(D) = n /\ D \cup {n} = J /\ n \notin D
        /\ IsFiniteSet(J) /\ i \in D
    <2>1. IsFiniteSet(0 .. n - 1) /\ Cardinality(0 .. n - 1) = n /\ IsFiniteSet(0 .. n)
      BY FS_Interval
    <2>2. QED
      BY <2>1
  <1>2. Moved(b, i) = m
    BY <1>1 DEF Moved
  <1>3. Overruns(b, i) <=> \E k \in Rows : b[i][k] > 0 /\ getHash(k, level + 1) > n
    BY <1>1 DEF Overruns
  <1>4. v \in [Rows -> Nat] /\ NoRows \in [Rows -> Nat]
    BY DEF NoRows
  <1>5. /\ DOMAIN wider = J /\ \A j \in J : wider[j] \in [Rows -> Nat]
        /\ \A j \in D \ {i} : wider[j] = b[j]
        /\ wider[i] = NoRows /\ wider[n] = NoRows
    BY <1>1, <1>4
  <1>6. /\ DOMAIN m = J
        /\ \A j \in J, k \in Rows :
             m[j][k] = wider[j][k] + (IF getHash(k, level + 1) = j THEN v[k] ELSE 0)
        /\ \A j \in J : m[j] \in [Rows -> Nat]
    <2> HIDE DEF wider, J
    <2>1. QED
      BY <1>4, <1>5
  <1>7. \A j \in J, k \in Rows :
          m[j][k] = (IF j \in DOMAIN b /\ j # i THEN b[j][k] ELSE 0)
                      + (IF getHash(k, level + 1) = j THEN b[i][k] ELSE 0)
    <2> TAKE j \in J, k \in Rows
    <2>1. wider[j][k] = IF j \in DOMAIN b /\ j # i THEN b[j][k] ELSE 0
      BY <1>1 DEF NoRows
    <2>2. QED
      BY <1>6, <2>1
  <1>8. ASSUME ~Overruns(b, i) PROVE Held(m) = Held(b)
    <2> DEFINE P == Parts(v, h, Rows, J)
               W == [j \in J |-> Total(wider[j])]
               M == [j \in DOMAIN m |-> Total(m[j])]
               B == [j \in DOMAIN b |-> Total(b[j])]
    <2> HIDE DEF m, wider
    <2>1. ASSUME NEW j \in J
          PROVE  /\ M[j] = W[j] + P[j]
                 /\ W[j] \in Int /\ P[j] \in Int
      <3>1. P[j] = Total(Part(v, h, Rows, j))
        BY DEF Parts, Total
      <3>2. Part(v, h, Rows, j) \in [Rows -> Nat]
        BY <1>4 DEF Part
      <3>3. Adds(wider[j], Part(v, h, Rows, j), m[j], Rows)
        <4>1. \A k \in Rows : wider[j][k] \in Int /\ v[k] \in Int
          BY <1>4, <1>5
        <4>2. \A k \in Rows :
                Part(v, h, Rows, j)[k] = IF getHash(k, level + 1) = j THEN v[k] ELSE 0
          BY DEF Part
        <4> HIDE DEF h, v, J
        <4>3. QED
          BY <1>6, <4>1, <4>2 DEF Adds
      <3>4. Total(m[j]) = Total(wider[j]) + Total(Part(v, h, Rows, j))
        BY <3>3, SumPlus, RowsAssumption DEF Total
      <3>5. Total(wider[j]) \in Nat /\ Total(Part(v, h, Rows, j)) \in Nat
        BY <1>5, <3>2, TotalFacts
      <3>6. QED
        BY <1>6, <3>1, <3>4, <3>5
    <2>2. Adds(W, P, M, J)
      BY <2>1 DEF Adds
    <2> HIDE DEF P
    <2>3. /\ SumFunctionOnSet(M, J) = SumFunctionOnSet(W, J) + SumFunctionOnSet(P, J)
          /\ SumFunctionOnSet(W, J) \in Int
      <3>1. \A j \in J : W[j] \in Int
        BY <2>1
      <3> HIDE DEF W, M, J
      <3>2. QED
        BY <1>1, <2>2, <3>1, SumPlus, SumInt
    <2>4. SumFunctionOnSet(P, J) = Total(v)
      <3>1. SumFunctionOnSet(P, J) = SumFunctionOnSet(Within(v, h, Rows, J), Rows)
        <4>1. \A k \in Rows : v[k] \in Int
          BY <1>4
        <4>2. IsFiniteSet(J) /\ IsFiniteSet(Rows)
          BY <1>1, RowsAssumption
        <4> HIDE DEF v, h, J
        <4>3. SumFunctionOnSet(Parts(v, h, Rows, J), J) =
                SumFunctionOnSet(Within(v, h, Rows, J), Rows)
          BY ONLY <4>1, <4>2, SumParts
        <4>4. QED
          BY <4>3 DEF P
      <3>2. \A k \in Rows : Within(v, h, Rows, J)[k] = v[k]
        <4> TAKE k \in Rows
        <4>1. getHash(k, level + 1) \in 0 .. pow2[level + 1] - 1
          BY HashFacts
        <4>2. v[k] > 0 => getHash(k, level + 1) <= n
          BY <1>3, <1>8, <4>1
        <4>3. v[k] > 0 => h[k] \in J
          BY <4>1, <4>2
        <4>4. QED
          BY <1>4, <4>3 DEF Within
      <3>3. SumFunctionOnSet(Within(v, h, Rows, J), Rows) = SumFunctionOnSet(v, Rows)
        <4> HIDE DEF v, h, J
        <4>1. QED
          BY ONLY <3>2, SumEqual, RowsAssumption
      <3>4. QED
        BY <3>1, <3>3 DEF Total
    <2>5. SumFunctionOnSet(W, J) = SumFunctionOnSet(W, D)
      <3>1. W[n] = 0 /\ \A j \in D \cup {n} : W[j] \in Int
        BY <1>1, <1>5, <2>1, NoRowsTotal
      <3> HIDE DEF W, D, J
      <3>2. SumFunctionOnSet(W, D \cup {n}) = W[n] + SumFunctionOnSet(W, D)
        BY <1>1, <3>1, SumAdd
      <3>3. SumFunctionOnSet(W, D) \in Int
        BY <1>1, <3>1, SumInt
      <3>4. SumFunctionOnSet(W, J) = SumFunctionOnSet(W, D \cup {n})
        BY <1>1
      <3>5. QED
        BY ONLY <3>1, <3>2, <3>3, <3>4
    <2>6. SumFunctionOnSet(W, D) = SumFunctionOnSet(B, D) - Total(v)
      <3>1. \A j \in D : B[j] = Total(b[j]) /\ B[j] \in Nat
        BY TotalFacts
      <3>2. DifferAt(i, B, W, D) /\ B[i] = Total(v) /\ W[i] = 0
        <4>1. W[i] = Total(wider[i]) /\ B[i] = Total(v)
          BY <1>1
        <4>2. \A j \in D : W[j] \in Int
          BY <1>1, <2>1
        <4>3. \A j \in D \ {i} : W[j] = B[j]
          BY <1>1, <1>5
        <4> HIDE DEF W, B, D
        <4>4. QED
          BY <1>5, <3>1, <4>1, <4>2, <4>3, NoRowsTotal DEF DifferAt
      <3>3. \A j \in D : B[j] \in Int
        BY <3>1
      <3>4. B[i] \in Int
        BY <1>1, <3>3
      <3> HIDE DEF W, B, D
      <3>5. SumFunctionOnSet(W, D) = SumFunctionOnSet(B, D) - B[i] + W[i]
        BY <1>1, <3>2, SumChange
      <3>6. SumFunctionOnSet(B, D) \in Int
        BY <1>1, <3>3, SumInt
      <3>7. QED
        BY <3>2, <3>4, <3>5, <3>6
    <2>7. Total(v) \in Nat
      BY <1>4, TotalFacts
    <2>8. SumFunctionOnSet(B, D) \in Int
      <3>1. \A j \in D : B[j] \in Int
        BY TotalFacts
      <3> HIDE DEF B, D
      <3>2. QED
        BY <1>1, <3>1, SumInt
    <2>9. DOMAIN M = J /\ DOMAIN B = D
      BY <1>6
    <2>10. Held(m) = SumFunctionOnSet(M, J) /\ Held(b) = SumFunctionOnSet(B, D)
      BY <2>9 DEF Held, SumFunction
    <2> HIDE DEF M, W, B, J, D, v
    <2>11. QED
      BY <2>3, <2>4, <2>5, <2>6, <2>7, <2>8, <2>10
  <1> HIDE DEF m
  <1>9. QED
    BY <1>2, <1>3, <1>6, <1>7, <1>8

(* What both ways of inserting a row have in common: it has been put where *)
(* the level leads, and the rows of the other buckets are where they were. *)
Placed(k) == More(buckets, getHash(k, level), k)

LEMMA PlacedFacts ==
  ASSUME Addressed, NEW k \in Rows
  PROVE  /\ DOMAIN Placed(k) = DOMAIN buckets
         /\ \A j \in DOMAIN buckets : Placed(k)[j] \in [Rows -> Nat]
         /\ Held(Placed(k)) = Held(buckets) + 1 /\ Held(buckets) \in Int
         /\ \A j \in DOMAIN buckets, r \in Rows :
              Placed(k)[j][r] = buckets[j][r] + (IF j = getHash(k, level) /\ r = k THEN 1 ELSE 0)
  <1>1. /\ getHash(k, level) \in DOMAIN buckets /\ IsFiniteSet(DOMAIN buckets)
        /\ \A j \in DOMAIN buckets : buckets[j] \in [Rows -> Nat]
    BY Width DEF Addressed
  <1>2. QED
    BY <1>1, HeldWith DEF Placed

(* next_idx moves on, and round when the level is raised.                  *)
LEMMA NextFacts ==
  ASSUME Addressed, level' = IF (next_idx + 1) % pow2[level] = 0 THEN level + 1 ELSE level,
         next_idx' = (next_idx + 1) % pow2[level]
  PROVE  /\ level' \in Nat \ {0} /\ next_idx' \in 0 .. pow2[level'] - 1
         /\ pow2[level'] + next_idx' = pow2[level] + next_idx + 1
         /\ level' \in {level, level + 1}
         /\ level' = level => next_idx' = next_idx + 1
  <1> DEFINE n == pow2[level]
  <1>1. n \in Nat \ {0, 1} /\ pow2[level + 1] = 2 * n /\ next_idx \in 0 .. n - 1
    BY Width DEF Addressed
  <1>2. level \in Nat \ {0}
    BY DEF Addressed
  <1> HIDE DEF n
  <1>3. CASE next_idx + 1 < n
    <2>1. (next_idx + 1) % n = next_idx + 1
      BY <1>1, <1>3
    <2>2. level' = level /\ next_idx' = next_idx + 1
      BY <1>1, <2>1 DEF n
    <2>3. pow2[level'] = n
      BY <2>2 DEF n
    <2>4. QED
      BY <1>1, <1>2, <1>3, <2>2, <2>3 DEF n
  <1>4. CASE next_idx + 1 = n
    <2>1. (next_idx + 1) % n = 0
      BY <1>1, <1>4
    <2>2. level' = level + 1 /\ next_idx' = 0
      BY <2>1 DEF n
    <2>3. pow2[level'] = 2 * n
      BY <1>1, <2>2
    <2>4. QED
      BY <1>1, <1>2, <1>4, <2>2, <2>3 DEF n
  <1>5. QED
    BY <1>1, <1>3, <1>4

(* An insertion without a split.                                           *)
LEMMA InsertPlain ==
  ASSUME LinearInv, NEW k \in Rows, ~outside, count' = count + 1, indexed' = indexed \cup {k},
         ~splitRequired(count + 1, buckets), buckets' = Placed(k),
         UNCHANGED <<next_idx, level, outside>>
  PROVE  LinearInv'
  <1> DEFINE N == Cardinality(DOMAIN buckets)
  <1>1. Addressed
    BY DEF LinearInv
  <1>2. /\ DOMAIN buckets' = DOMAIN buckets
        /\ \A j \in DOMAIN buckets : buckets'[j] \in [Rows -> Nat]
        /\ Held(buckets') = Held(buckets) + 1 /\ Held(buckets) \in Int
        /\ \A j \in DOMAIN buckets, r \in Rows :
             buckets'[j][r] = buckets[j][r] + (IF j = getHash(k, level) /\ r = k THEN 1 ELSE 0)
    BY <1>1, PlacedFacts
  <1>3. Addressed'
    BY <1>1, <1>2 DEF Addressed
  <1>4. LoadExact'
    <2>1. N \in Nat /\ count \in Nat
      BY <1>1, Width, FS_CardinalityType DEF Addressed
    <2>2. count = Held(buckets) /\ Cardinality(DOMAIN buckets') = N
      BY <1>2 DEF LinearInv, LoadExact
    <2>3. ~(4 * (count + 1) > 3 * 4 * N)
      BY DEF splitRequired, BUCKET_SIZE
    <2> HIDE DEF N
    <2>4. count + 1 <= 3 * N
      BY <2>1, <2>3
    <2>5. QED
      BY <1>2, <2>2, <2>4 DEF LoadExact
  <1>5. \A r \in Rows : getHash(r, level) \in DOMAIN buckets
    BY <1>1, Width
  <1>6. \A r \in Rows : \A depth : Under(r, depth) => Under(r, depth)'
    <2> TAKE r \in Rows
    <2> TAKE depth
    <2> HAVE Under(r, depth)
    <2>1. getHash(r, depth) \in DOMAIN buckets /\ buckets[getHash(r, depth)][r] > 0
      BY DEF Under
    <2>2. buckets[getHash(r, depth)][r] \in Nat
      BY <1>1, <2>1 DEF Addressed
    <2>3. buckets'[getHash(r, depth)][r] > 0
      BY <1>2, <2>1, <2>2
    <2>4. QED
      BY <1>2, <2>1, <2>3 DEF Under
  <1>7. Under(k, level)'
    <2>1. buckets[getHash(k, level)][k] \in Nat
      BY <1>1, <1>5 DEF Addressed
    <2>2. buckets'[getHash(k, level)][k] > 0
      BY <1>2, <1>5, <2>1
    <2>3. QED
      BY <1>2, <1>5, <2>2 DEF Under
  <1>8. Reachable'
    <2>1. level \in 1 .. level + 1
      BY <1>1 DEF Addressed
    <2>2. indexed \subseteq Rows
      BY <1>1 DEF Addressed
    <2>3. \A r \in indexed : \E depth \in 1 .. level + 1 : Under(r, depth)'
      BY <1>6, <2>2 DEF LinearInv, Reachable
    <2>4. QED
      BY <1>7, <2>1, <2>3 DEF Reachable
  <1>9. Unsplit'
    BY <1>1, <1>6, <1>7 DEF LinearInv, Unsplit, Addressed
  <1>10. NotTooEarly'
    <2>1. level = 1 /\ next_idx = 0 => \A r \in Rows : buckets'[0][r] > 0 => getHash(r, 1) = 0
      <3> SUFFICES ASSUME level = 1, next_idx = 0, NEW r \in Rows, buckets'[0][r] > 0
                   PROVE  getHash(r, 1) = 0
        OBVIOUS
      <3>1. 0 \in DOMAIN buckets
        BY <1>1, Width DEF Addressed
      <3>2. CASE r = k /\ getHash(k, 1) = 0
        BY <3>2
      <3>3. CASE ~(r = k /\ getHash(k, 1) = 0)
        <4>1. buckets'[0][r] = buckets[0][r]
          <5>1. buckets[0][r] \in Nat
            BY <1>1, <3>1 DEF Addressed
          <5>2. QED
            BY <1>2, <3>1, <3>3, <5>1
        <4>2. QED
          BY <4>1 DEF LinearInv, NotTooEarly
      <3>4. QED
        BY <3>2, <3>3
    <2>2. QED
      BY <2>1 DEF LinearInv, NotTooEarly
  <1>11. QED
    BY <1>3, <1>4, <1>8, <1>9, <1>10 DEF LinearInv

(* An insertion with the split that the load asks for.                     *)
LEMMA InsertSplitting ==
  ASSUME LinearInv, NEW k \in Rows, ~outside, count' = count + 1, indexed' = indexed \cup {k},
         splitRequired(count + 1, buckets), bucketSplit(Placed(k))
  PROVE  LinearInv'
  <1> DEFINE n == pow2[level] + next_idx
             b == Placed(k)
             m == Moved(b, next_idx)
  <1>1. Addressed /\ count \in Nat /\ level \in Nat \ {0} /\ next_idx \in Nat
    BY DEF LinearInv, Addressed
  <1>2. /\ n \in Nat /\ Cardinality(DOMAIN buckets) = n /\ next_idx < n
        /\ DOMAIN buckets = 0 .. n - 1
        /\ pow2[level] \in Nat \ {0, 1} /\ (level >= 2 => pow2[level] >= 4) /\ pow2[1] = 2
        /\ pow2[2] = 4
    <2>1. /\ pow2[level] \in Nat \ {0, 1} /\ Cardinality(DOMAIN buckets) = n
          /\ (level >= 2 => pow2[level] >= 4) /\ pow2[1] = 2 /\ pow2[2] = 4
      BY <1>1, Width
    <2>2. \A x, y \in Nat : 0 .. x + y - 1 = 0 .. (x + y) - 1
      OBVIOUS
    <2>3. DOMAIN buckets = 0 .. pow2[level] + next_idx - 1
      BY <1>1 DEF Addressed
    <2>4. DOMAIN buckets = 0 .. n - 1
      BY <1>1, <2>1, <2>2, <2>3
    <2>5. n \in Nat /\ next_idx < n
      BY <1>1, <2>1
    <2>6. QED
      BY <2>1, <2>4, <2>5
  <1>3. /\ buckets' = m /\ outside' = Overruns(b, next_idx)
        /\ next_idx' = (next_idx + 1) % pow2[level]
        /\ level' = IF (next_idx + 1) % pow2[level] = 0 THEN level + 1 ELSE level
    BY DEF bucketSplit
  <1>4. /\ DOMAIN b = DOMAIN buckets
        /\ \A j \in DOMAIN buckets : b[j] \in [Rows -> Nat]
        /\ Held(b) = Held(buckets) + 1 /\ Held(buckets) \in Int
        /\ \A j \in DOMAIN buckets, r \in Rows :
             b[j][r] = buckets[j][r] + (IF j = getHash(k, level) /\ r = k THEN 1 ELSE 0)
    BY <1>1, PlacedFacts
  <1>5. next_idx \in DOMAIN buckets
    BY <1>1, <1>2
  <1> HIDE DEF b, n
  <1>6. /\ DOMAIN m = 0 .. n
        /\ \A j \in 0 .. n : m[j] \in [Rows -> Nat]
        /\ \A j \in 0 .. n, r \in Rows :
             m[j][r] = (IF j \in DOMAIN b /\ j # next_idx THEN b[j][r] ELSE 0)
                         + (IF getHash(r, level + 1) = j THEN b[next_idx][r] ELSE 0)
        /\ Overruns(b, next_idx) <=>
             \E r \in Rows : b[next_idx][r] > 0 /\ getHash(r, level + 1) > n
        /\ ~Overruns(b, next_idx) => Held(m) = Held(b)
    <2>1. DOMAIN b = 0 .. n - 1 /\ (\A j \in DOMAIN b : b[j] \in [Rows -> Nat])
          /\ next_idx \in DOMAIN b /\ level \in Nat
      BY <1>1, <1>2, <1>4, <1>5
    <2>2. QED
      BY <1>2, <2>1, MovedFacts
  <1> HIDE DEF m
  <1>7. /\ level' \in Nat \ {0} /\ next_idx' \in 0 .. pow2[level'] - 1
        /\ pow2[level'] + next_idx' = pow2[level] + next_idx + 1
        /\ level' \in {level, level + 1}
        /\ level' = level => next_idx' = next_idx + 1
    BY <1>1, <1>3, NextFacts
  <1>8. Addressed'
    <2>1. pow2[level'] \in Nat /\ next_idx' \in Nat
      BY <1>7, Pow2Steps
    <2>2. pow2[level'] + next_idx' - 1 = n
      <3>1. pow2[level] \in Nat /\ pow2[level'] + next_idx' = pow2[level] + next_idx + 1
        BY <1>2, <1>7
      <3>2. QED
        BY ONLY <1>1, <2>1, <3>1 DEF n
    <2>3. DOMAIN buckets' = 0 .. pow2[level'] + next_idx' - 1
      BY <1>3, <1>6, <2>2
    <2>4. \A j \in DOMAIN buckets' : buckets'[j] \in [Rows -> Nat]
      BY <1>3, <1>6
    <2>5. count' \in Nat /\ indexed' \subseteq Rows /\ outside' \in BOOLEAN
      BY <1>1, <1>3 DEF Addressed, Overruns
    <2>6. QED
      BY <1>7, <2>3, <2>4, <2>5 DEF Addressed
  <1>9. LoadExact'
    <2>1. SUFFICES ASSUME ~outside' PROVE count' = Held(buckets)' /\
                                          count' <= 3 * Cardinality(DOMAIN buckets')
      BY DEF LoadExact
    <2>2. Held(buckets') = Held(buckets) + 1
      BY <1>3, <1>4, <1>6, <2>1
    <2>3. count = Held(buckets) /\ count <= 3 * n
      BY <1>2 DEF LinearInv, LoadExact
    <2>4. Cardinality(DOMAIN buckets') = n + 1
      <3>1. Cardinality(0 .. n) = n + 1
        BY <1>2, FS_Interval
      <3>2. QED
        BY <1>3, <1>6, <3>1
    <2>5. count + 1 <= 3 * (n + 1)
      BY <1>1, <1>2, <2>3
    <2>6. QED
      BY <2>2, <2>3, <2>4, <2>5
  <1>10. /\ getHash(k, level) \in DOMAIN buckets
         /\ \A r \in Rows, depth \in Nat :
              /\ getHash(r, depth) \in Nat
              /\ getHash(r, level + 1) \in Nat
    <2>1. getHash(k, level) \in DOMAIN buckets
      BY <1>1, Width
    <2>2. \A r \in Rows, depth \in Nat : getHash(r, depth) \in Nat
      BY HashFacts
    <2>3. level + 1 \in Nat
      BY <1>1
    <2>4. QED
      BY <2>1, <2>2, <2>3
  <1>11. \A j \in DOMAIN buckets, r \in Rows : buckets[j][r] \in Nat /\ b[j][r] \in Nat
    BY <1>1, <1>4 DEF Addressed
  (* A row of another bucket stays, one of this bucket is one bit further. *)
  <1>12. ASSUME NEW r \in Rows, NEW j \in DOMAIN buckets, b[j][r] > 0
         PROVE  /\ j # next_idx => j \in DOMAIN buckets' /\ buckets'[j][r] > 0
                /\ j = next_idx /\ ~outside' => \E d \in {level + 1} : Under(r, d)'
    <2>1. ASSUME j # next_idx PROVE j \in DOMAIN buckets' /\ buckets'[j][r] > 0
      <3>1. j \in 0 .. n /\ j \in DOMAIN b
        BY <1>2, <1>4
      <3>2. m[j][r] = b[j][r] + (IF getHash(r, level + 1) = j THEN b[next_idx][r] ELSE 0)
        BY <1>6, <2>1, <3>1
      <3>3. b[next_idx][r] \in Nat /\ b[j][r] \in Nat
        BY <1>5, <1>11
      <3>4. m[j][r] > 0
        BY <1>12, <3>2, <3>3
      <3>5. QED
        BY <1>3, <1>6, <3>1, <3>4
    <2>2. ASSUME j = next_idx, ~outside' PROVE \E d \in {level + 1} : Under(r, d)'
      <3> DEFINE h == getHash(r, level + 1)
      <3>1. h \in 0 .. n
        <4>1. ~(h > n)
          BY <1>3, <1>6, <1>12, <2>2
        <4>2. h \in Nat
          BY <1>1, <1>10
        <4>3. QED
          BY <1>2, <4>1, <4>2
      <3>2. m[h][r] = (IF h \in DOMAIN b /\ h # next_idx THEN b[h][r] ELSE 0) + b[next_idx][r]
        BY <1>6, <3>1
      <3>3. (IF h \in DOMAIN b /\ h # next_idx THEN b[h][r] ELSE 0) \in Nat
        BY <1>4, <1>11
      <3>4. b[next_idx][r] \in Nat /\ b[next_idx][r] > 0
        BY <1>5, <1>11, <1>12, <2>2
      <3>5. m[h][r] > 0
        BY <3>2, <3>3, <3>4
      <3>6. h \in DOMAIN buckets' /\ buckets'[h][r] > 0
        BY <1>3, <1>6, <3>1, <3>5
      <3>7. \A d : (getHash(r, d) \in DOMAIN buckets' /\ buckets'[getHash(r, d)][r] > 0)
                     <=> Under(r, d)'
        BY DEF Under
      <3>8. QED
        BY <3>6, <3>7
    <2>3. QED
      BY <2>1, <2>2
  <1>13. ASSUME NEW r \in Rows, NEW d \in Nat,
                getHash(r, d) \in DOMAIN buckets, b[getHash(r, d)][r] > 0
         PROVE  /\ getHash(r, d) # next_idx => Under(r, d)'
                /\ ~outside' => \E e \in {d, level + 1} : Under(r, e)'
    <2>1. getHash(r, d) # next_idx => Under(r, d)'
      <3>1. getHash(r, d) # next_idx =>
              getHash(r, d) \in DOMAIN buckets' /\ buckets'[getHash(r, d)][r] > 0
        BY <1>12, <1>13
      <3>2. QED
        BY <3>1 DEF Under
    <2>2. getHash(r, d) = next_idx /\ ~outside' => \E e \in {level + 1} : Under(r, e)'
      BY <1>12, <1>13
    <2>3. QED
      BY <2>1, <2>2
  <1>14. \A r \in indexed', d \in Nat :
           (r \in indexed /\ Under(r, d)) \/ (r = k /\ d = level) =>
              /\ r \in Rows /\ getHash(r, d) \in DOMAIN buckets
              /\ b[getHash(r, d)][r] > 0
    <2> TAKE r \in indexed', d \in Nat
    <2>1. CASE r \in indexed /\ Under(r, d)
      <3>1. r \in Rows /\ getHash(r, d) \in DOMAIN buckets /\ buckets[getHash(r, d)][r] > 0
        BY <1>1, <2>1 DEF Under, Addressed
      <3>2. buckets[getHash(r, d)][r] \in Nat
        BY <1>11, <3>1
      <3>3. b[getHash(r, d)][r] > 0
        BY <1>4, <3>1, <3>2
      <3>4. QED
        BY <3>1, <3>3
    <2>2. CASE r = k /\ d = level
      <3>1. buckets[getHash(k, level)][k] \in Nat
        BY <1>10, <1>11
      <3>2. b[getHash(k, level)][k] > 0
        BY <1>4, <1>10, <3>1
      <3>3. QED
        BY <1>10, <2>2, <3>2
    <2>3. QED
      BY <2>1, <2>2
  <1>15. Reachable'
    <2>1. SUFFICES ASSUME ~outside', NEW r \in indexed'
                   PROVE  \E depth \in 1 .. level' + 1 : Under(r, depth)'
      BY DEF Reachable
    <2>2. \E d \in 1 .. level + 1 : (r \in indexed /\ Under(r, d)) \/ (r = k /\ d = level)
      <3>1. CASE r \in indexed
        BY <3>1 DEF LinearInv, Reachable
      <3>2. CASE r = k
        BY <1>1, <3>2
      <3>3. QED
        BY <2>1, <3>1, <3>2
    <2>3. PICK d \in 1 .. level + 1 : (r \in indexed /\ Under(r, d)) \/ (r = k /\ d = level)
      BY <2>2
    <2>4. d \in Nat
      BY <1>1
    <2>5. r \in Rows /\ getHash(r, d) \in DOMAIN buckets /\ b[getHash(r, d)][r] > 0
      BY <1>14, <2>1, <2>3, <2>4
    <2>6. \E e \in {d, level + 1} : Under(r, e)'
      BY <1>13, <2>1, <2>4, <2>5
    <2>7. {d, level + 1} \subseteq 1 .. level' + 1
      <3>1. level \in Nat /\ level' \in Nat /\ level <= level' /\ d \in Nat /\ 1 <= d
            /\ d <= level + 1
        BY <1>1, <1>7, <2>4
      <3>2. \A x, y, z \in Nat :
              x <= y /\ 1 <= z /\ z <= x + 1 => z \in 1 .. (y + 1) /\ (x + 1) \in 1 .. (y + 1)
        OBVIOUS
      <3>3. QED
        BY ONLY <3>1, <3>2
    <2>8. QED
      BY <2>6, <2>7
  <1>16. Unsplit'
    <2>1. SUFFICES ASSUME level' = 1, NEW r \in indexed', getHash(r, 1) >= next_idx'
                   PROVE  Under(r, 1)'
      BY DEF Unsplit
    <2>2. level = 1 /\ next_idx' = next_idx + 1
      BY <1>1, <1>7, <2>1
    <2>3. r \in Rows
      BY <1>1 DEF Addressed
    <2>4. getHash(r, 1) \in Nat
      BY <1>10, <2>3
    <2>5. getHash(r, 1) >= next_idx /\ getHash(r, 1) # next_idx
      BY <1>1, <2>1, <2>2, <2>4
    <2>6. (r \in indexed /\ Under(r, 1)) \/ (r = k /\ 1 = level)
      BY <2>2, <2>5 DEF LinearInv, Unsplit
    <2>7. getHash(r, 1) \in DOMAIN buckets /\ b[getHash(r, 1)][r] > 0
      BY <1>14, <2>6
    <2>8. QED
      BY <1>13, <2>3, <2>5, <2>7
  <1>17. NotTooEarly'
    <2>1. ~(level' = 1 /\ next_idx' = 0)
      BY <1>1, <1>7
    <2>2. ASSUME outside', ~(count' >= 13) PROVE FALSE
      <3>1. count + 1 > 3 * n
        BY <1>1, <1>2 DEF splitRequired, BUCKET_SIZE
      <3>2. n < 4
        BY <1>1, <1>2, <2>2, <3>1
      <3>3. level = 1 /\ pow2[level] = 2
        BY <1>1, <1>2, <3>2 DEF n
      <3>4. n = 2 + next_idx
        BY <3>3 DEF n
      <3>5. PICK r \in Rows : b[next_idx][r] > 0 /\ getHash(r, 2) > n
        BY <1>3, <1>6, <2>2, <3>3
      <3>6. /\ getHash(r, 2) \in 0 .. 3
            /\ getHash(r, 2) = getHash(r, 1) \/ getHash(r, 2) = getHash(r, 1) + 2
            /\ getHash(r, 1) \in Nat
        <4>1. /\ getHash(r, 1 + 1) \in 0 .. pow2[1 + 1] - 1
              /\ \/ getHash(r, 1 + 1) = getHash(r, 1)
                 \/ getHash(r, 1 + 1) = getHash(r, 1) + pow2[1]
          BY HashFacts
        <4>2. 1 + 1 = 2 /\ getHash(r, 1) \in Nat /\ pow2[2] - 1 = 3
          BY <1>2, <1>10
        <4>3. QED
          BY ONLY <1>2, <4>1, <4>2
      <3>7. next_idx = 0
        BY <1>1, <3>4, <3>5, <3>6
      <3>8. getHash(r, 1) = 0
        <4>1. CASE r = k /\ getHash(k, 1) = 0
          BY <4>1
        <4>2. CASE ~(r = k /\ getHash(k, 1) = 0)
          <5>1. buckets[0][r] \in Nat
            BY <1>5, <1>11, <3>7
          <5>2. buckets[0][r] > 0
            BY <1>4, <1>5, <3>3, <3>5, <3>7, <4>2, <5>1
          <5>3. QED
            BY <3>3, <3>7, <5>2 DEF LinearInv, NotTooEarly
        <4>3. QED
          BY <4>1, <4>2
      <3>9. QED
        BY <3>4, <3>5, <3>6, <3>7, <3>8
    <2>3. QED
      BY <2>1, <2>2 DEF NotTooEarly
  <1>18. QED
    BY <1>8, <1>9, <1>15, <1>16, <1>17 DEF LinearInv

LEMMA LinearStarts == LH_Init => LinearInv
  <1> SUFFICES ASSUME LH_Init PROVE LinearInv
    OBVIOUS
  <1>1. /\ buckets = [i \in {0, 1} |-> NoRows] /\ next_idx = 0 /\ level = 1 /\ count = 0
        /\ indexed = {} /\ outside = FALSE /\ NoRows \in [Rows -> Nat]
    BY DEF LH_Init, NoRows
  <1>2. pow2[1] = 2
    <2>1. pow2[0 + 1] = 2 * pow2[0] /\ pow2[0] = 1
      BY Pow2Steps
    <2>2. QED
      BY <2>1
  <1>3. {0, 1} = 0 .. 1
    OBVIOUS
  <1>4. Addressed
    <2>1. 0 .. pow2[level] + next_idx - 1 = {0, 1} /\ next_idx \in 0 .. pow2[level] - 1
      BY <1>1, <1>2
    <2>2. DOMAIN buckets = {0, 1} /\ \A i \in {0, 1} : buckets[i] = NoRows
      BY <1>1
    <2>3. DOMAIN buckets = 0 .. pow2[level] + next_idx - 1
      BY <2>1, <2>2
    <2>4. \A i \in DOMAIN buckets : buckets[i] \in [Rows -> Nat]
      BY <1>1, <2>2
    <2>5. level \in Nat \ {0} /\ count \in Nat /\ indexed \subseteq Rows /\ outside \in BOOLEAN
      <3>1. level \in Nat \ {0} /\ count \in Nat
        BY <1>1
      <3>2. indexed \subseteq Rows /\ outside \in BOOLEAN
        BY <1>1, Zenon
      <3>3. QED
        BY <3>1, <3>2
    <2>6. QED
      BY ONLY <2>1, <2>3, <2>4, <2>5 DEF Addressed
  <1>5. LoadExact
    <2> DEFINE f == [i \in DOMAIN buckets |-> Total(buckets[i])]
    <2>1. DOMAIN f = {0, 1} /\ \A i \in {0, 1} : f[i] = 0
      BY <1>1, NoRowsTotal
    <2>2. IsFiniteSet({0, 1})
      <3>1. 0 \in Int /\ 1 \in Int
        OBVIOUS
      <3>2. IsFiniteSet(0 .. 1)
        BY ONLY <3>1, FS_Interval, Zenon
      <3>3. QED
        BY <1>3, <3>2
    <2> HIDE DEF f
    <2>3. SumFunctionOnSet(f, {0, 1}) = f[0]
      <3>1. f[0] \in Int /\ 0 \in {0, 1} /\ \A i \in {0, 1} \ {0} : f[i] = 0
        BY <2>1
      <3>2. QED
        BY <2>2, <3>1, SumOnly
    <2>4. Held(buckets) = 0
      BY <2>1, <2>3 DEF Held, SumFunction, f
    <2>5. Cardinality(DOMAIN buckets) = 2
      BY <1>1, <1>2, <1>4, Width
    <2>6. QED
      BY <1>1, <2>4, <2>5 DEF LoadExact
  <1>6. NotTooEarly
    BY <1>1 DEF NotTooEarly, NoRows
  <1>7. QED
    BY <1>1, <1>4, <1>5, <1>6 DEF LinearInv, Reachable, Unsplit

LEMMA LinearStep == LinearInv /\ [Next]_vars => LinearInv'
  <1> SUFFICES ASSUME LinearInv, [Next]_vars PROVE LinearInv'
    OBVIOUS
  <1>1. CASE LH_Next
    <2>1. PICK k \in Rows : LH_insert(k)
      BY <1>1 DEF LH_Next
    <2>2. /\ ~outside /\ count' = count + 1 /\ indexed' = indexed \cup {k}
          /\ IF splitRequired(count + 1, buckets)
               THEN bucketSplit(Placed(k))
               ELSE buckets' = Placed(k) /\ UNCHANGED <<next_idx, level, outside>>
      BY <2>1 DEF LH_insert, Placed, More
    <2>3. QED
      BY <2>2, InsertPlain, InsertSplitting
  <1>2. CASE UNCHANGED lvars
    BY <1>2 DEF lvars, LinearInv, Addressed, LoadExact, NotTooEarly, Reachable, Unsplit, Under
  <1>3. QED
    BY <1>1, <1>2 DEF Next, vars

THEOREM LinearHolds == Spec => []LinearInv
<1>1. Init => LinearInv
  BY LinearStarts DEF Init
<1>2. QED
  BY <1>1, LinearStep, PTL DEF Spec

(* The count that decides about splits is the number of rows in the table, *)
(* and one split brings the load below the bound (linear_hashing.cpp).     *)
THEOREM LoadIsBounded == Spec => []LoadBounded
<1>1. LinearInv => LoadBounded
  <2> SUFFICES ASSUME LinearInv PROVE LoadBounded
    OBVIOUS
  <2>1. Addressed /\ count \in Nat
    BY DEF LinearInv, Addressed
  <2>2. Cardinality(DOMAIN buckets) \in Nat
    BY <2>1, Width, FS_CardinalityType
  <2>3. ~outside => ~splitRequired(count, buckets)
    BY <2>1, <2>2 DEF LinearInv, LoadExact, splitRequired, BUCKET_SIZE
  <2>4. QED
    BY <2>1, <2>3 DEF LinearInv, LoadExact, LoadBounded, Addressed, Held
<1>2. QED
  BY <1>1, LinearHolds, PTL

(* No split writes past the end before the thirteenth row, and until then  *)
(* a row that a name leads to is where the level, one bit more or fewer    *)
(* bits lead, and found where its address has not been split.              *)
THEOREM NoRowIsLost == Spec => []NoRowLost
<1>1. LinearInv => NoRowLost
  <2> SUFFICES ASSUME LinearInv PROVE NoRowLost
    OBVIOUS
  <2>1. count <= 12 => ~outside
    BY DEF LinearInv, NotTooEarly, Addressed
  <2>2. level = 1 =>
          {k \in indexed : getHash(k, level) >= next_idx} \subseteq LH_searchBook(Rows)
    BY DEF LinearInv, Unsplit, LH_searchBook, LH_getValue, Addressed
  <2>3. QED
    BY <2>1, <2>2 DEF LinearInv, Reachable, NoRowLost
<1>2. QED
  BY <1>1, LinearHolds, PTL
=============================================================================

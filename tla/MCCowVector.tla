---------------------------- MODULE MCCowVector ----------------------------
(* Instances of CowVector for TLC.                                         *)
EXTENDS CowVector, TLC

CowSymmetry == Permutations(Threads) \cup Permutations(Vectors)
                 \cup Permutations(Elements)

SearchSymmetry == CowSymmetry \cup Permutations(Storages)

(* A new storage is the lowest free one.  Which one it is makes no         *)
(* difference to calls that never look at a freed storage.                 *)
LowestFree ==
  \A s \in DOMAIN heap' \ DOMAIN heap :
    \A r \in Storages \ DOMAIN heap : s <= r

(* Bound: read-only copies are taken of vectors that are not full.         *)
KeptShort ==
  (\E s \in DOMAIN heap : Len(heap[s]) = MaxLen) => \A t \in Threads : kept[t] = Null
============================================================================

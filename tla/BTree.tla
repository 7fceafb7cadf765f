-------------------------------- MODULE BTree --------------------------------
(* The B-tree of Btree.cpp: insert splits full nodes on its way down, remove *)
(* fills the nodes it goes through by borrowing and merging.                 *)
(*                                                                           *)
(* A node is a record; key and child are its two arrays as far as they are   *)
(* in use, counted from 1, and Len(key) is its size.  The child array of a   *)
(* leaf is never followed and is empty here.  One action is one round of the *)
(* loop of insert or remove; search changes nothing and is an operator.      *)
EXTENDS Integers, Sequences, SequencesExt, FiniteSets, FiniteSetsExt

CONSTANTS Keys,       \* what lessThan orders: integers
          MinDegree,  \* minDegree, t
          Nodes,      \* the addresses malloc can return: integers
          MaxKeys,    \* bound: keys in the tree
          MaxCopies,  \* bound: equal keys in the tree
          Null        \* no node

ASSUME BTreeAssumption ==
  /\ Keys \subseteq Int /\ Nodes \subseteq Int /\ Null \notin Nodes
  /\ MinDegree \in Nat /\ MinDegree >= 2
  /\ MaxKeys \in Nat /\ MaxCopies \in Nat
  /\ IsFiniteSet(Nodes) /\ Cardinality(Nodes) > MaxKeys + 1  \* malloc succeeds

VARIABLES
  node,    \* the allocated nodes
  root,
  call,    \* the call that runs: insert or remove of a key
  answer,  \* what the last call returned: done, or missing when it threw
  curr,    \* the node the loop has come to
  hole     \* remove: the key in an internal node that is to be replaced

vars == <<node, root, call, answer, curr, hole>>

NoCall  == [do |-> "none"]
NoHole  == [side |-> "none"]
Calls   == [do : {"insert", "remove"}, key : Keys]

----------------------------------------------------------------------------
(* Nodes                                                                   *)

Size(n) == Len(node[n].key)
Full == 2 * MinDegree - 1

(* The place of the first key that is not less than k.                     *)
FindIndex(x, k) ==
  Min({i \in 1 .. Len(x.key) : x.key[i] >= k} \cup {Len(x.key) + 1})

(* The place behind the last key that is not greater than k.               *)
Behind(x, k) == Max({i \in 1 .. Len(x.key) : x.key[i] <= k} \cup {0}) + 1

HasAt(x, i, k) == i <= Len(x.key) /\ x.key[i] = k

(* The children move with the keys that make room; the child at the place  *)
(* of k is then there twice.                                               *)
NodeInsert(x, k) ==
  LET i == Behind(x, k)
  IN  [x EXCEPT !.key = InsertAt(@, i, k),
                !.child = IF x.leaf THEN @ ELSE InsertAt(@, i + 1, @[i])]

NodeDelete(x, i) ==
  [x EXCEPT !.key = RemoveAt(@, i),
            !.child = IF x.leaf THEN @ ELSE RemoveAt(@, i + 1)]

Beheaded(x) ==
  [x EXCEPT !.key = Tail(@), !.child = IF x.leaf THEN @ ELSE Tail(@)]

LastKey(x)   == x.key[Len(x.key)]
LastChild(x) == x.child[Len(x.child)]
Front1(s)    == SubSeq(s, 1, Len(s) - 1)

NewNode(h) == Min(Nodes \ DOMAIN h)

----------------------------------------------------------------------------
(* Splitting, merging and borrowing.  A tree is here the pair of the nodes *)
(* and the root.                                                           *)

SplitChild(h, x, i) ==
  LET y == h[x].child[i]
      z == NewNode(h)
      upper == [leaf  |-> h[y].leaf,
                key   |-> SubSeq(h[y].key, MinDegree + 1, Full),
                child |-> IF h[y].leaf THEN << >>
                          ELSE SubSeq(h[y].child, MinDegree + 1, Full + 1)]
      lower == [h[y] EXCEPT !.key = SubSeq(@, 1, MinDegree - 1),
                            !.child = IF h[y].leaf THEN @ ELSE SubSeq(@, 1, MinDegree)]
      parent == [NodeInsert(h[x], h[y].key[MinDegree]) EXCEPT !.child[i + 1] = z]
  IN  [n \in DOMAIN h \cup {z} |->
         CASE n = x -> parent [] n = y -> lower [] n = z -> upper [] OTHER -> h[n]]

(* Mutant: the emptied node is freed and not the parent whose key went.      *)
MergeChildrenLeaking(h, r, p, i) ==
  LET left == h[p].child[i]
      right == h[p].child[i + 1]
      rest == NodeDelete(h[p], i)
      all  == [h[left] EXCEPT !.key = @ \o <<h[p].key[i]>> \o h[right].key,
                              !.child = @ \o h[right].child]
  IN  [node |-> [n \in DOMAIN h \ {right} |->
                   CASE n = p -> rest [] n = left -> all [] OTHER -> h[n]],
       root |-> IF rest.key = << >> THEN left ELSE r]

(* The parent is freed when its only key went down.                        *)
MergeChildren(h, r, p, i) ==
  LET left  == h[p].child[i]
      right == h[p].child[i + 1]
      rest  == NodeDelete(h[p], i)
      all   == [h[left] EXCEPT !.key = @ \o <<h[p].key[i]>> \o h[right].key,
                               !.child = @ \o h[right].child]
      gone  == IF rest.key = << >> THEN {right, p} ELSE {right}
  IN  [node |-> [n \in DOMAIN h \ gone |->
                   CASE n = p -> rest [] n = left -> all [] OTHER -> h[n]],
       root |-> IF p \in gone THEN left ELSE r]

BorrowLeft(h, p, i) ==
  LET kid   == h[p].child[i]
      left  == h[p].child[i - 1]
      taken == NodeInsert(h[kid], h[p].key[i - 1])
  IN  [h EXCEPT ![kid] = [taken EXCEPT !.child = IF h[kid].leaf THEN @
                              ELSE <<LastChild(h[left])>> \o h[kid].child],
                ![p].key[i - 1] = LastKey(h[left]),
                ![left] = NodeDelete(@, Len(@.key))]

(* Mutant: the key of the sibling goes past the parent.                      *)
BorrowRightKeeping(h, p, i) ==
  LET kid   == h[p].child[i]
      right == h[p].child[i + 1]
      taken == NodeInsert(h[kid], h[right].key[1])
  IN  [h EXCEPT ![kid] = [taken EXCEPT !.child = IF h[kid].leaf THEN @
                              ELSE Front1(@) \o <<h[right].child[1]>>],
                ![right] = Beheaded(@)]

BorrowRight(h, p, i) ==
  LET kid   == h[p].child[i]
      right == h[p].child[i + 1]
      taken == NodeInsert(h[kid], h[p].key[i])
  IN  [h EXCEPT ![kid] = [taken EXCEPT !.child = IF h[kid].leaf THEN @
                              ELSE Front1(@) \o <<h[right].child[1]>>],
                ![p].key[i] = h[right].key[1],
                ![right] = Beheaded(@)]

(* Mutant: a sibling of the least size lends a key as well.                  *)
FixChildSizeEager(h, r, p, i) ==
  LET size(j) == Len(h[h[p].child[j]].key)
  IN  IF size(i) >= MinDegree THEN [node |-> h, root |-> r]
      ELSE IF i > 1 /\ size(i - 1) >= MinDegree - 1
             THEN [node |-> BorrowLeft(h, p, i), root |-> r]
      ELSE IF i <= Len(h[p].key) /\ size(i + 1) >= MinDegree - 1
             THEN [node |-> BorrowRight(h, p, i), root |-> r]
      ELSE MergeChildren(h, r, p, IF i > 1 THEN i - 1 ELSE i)

FixChildSize(h, r, p, i) ==
  LET size(j) == Len(h[h[p].child[j]].key)
  IN  CASE size(i) >= MinDegree -> [node |-> h, root |-> r]
        [] size(i) < MinDegree /\ i > 1 /\ size(i - 1) >= MinDegree ->
             [node |-> BorrowLeft(h, p, i), root |-> r]
        [] size(i) < MinDegree /\ ~(i > 1 /\ size(i - 1) >= MinDegree)
             /\ i <= Len(h[p].key) /\ size(i + 1) >= MinDegree ->
             [node |-> BorrowRight(h, p, i), root |-> r]
        [] OTHER -> MergeChildren(h, r, p, IF i > 1 THEN i - 1 ELSE i)

----------------------------------------------------------------------------
(* Init and the beginning of a call                                        *)

Init ==
  /\ root = Min(Nodes)
  /\ node = [n \in {root} |-> [leaf |-> TRUE, key |-> << >>, child |-> << >>]]
  /\ call = NoCall /\ answer = "none" /\ curr = Null /\ hole = NoHole

Kids(h, n) == ToSet(h[n].child)

(* The nodes d levels below n; a tree is not higher than it has nodes.     *)
Heights == 0 .. Cardinality(DOMAIN node)
Level(n) ==
  LET level[d \in Heights] ==
        IF d = 0 THEN {n} ELSE UNION {Kids(node, m) : m \in level[d - 1]}
  IN  level
Below(n) == UNION {Level(n)[d] : d \in Heights}

(* The keys in the allocated nodes; IsTree says that these are the tree.   *)
Places == {p \in (DOMAIN node) \X (1 .. Full) : p[2] <= Size(p[1])}
Bag == [k \in Keys |-> Cardinality({p \in Places : node[p[1]].key[p[2]] = k})]
Held == Cardinality(Places)

(* Bounds: so many keys, so many equal ones.                               *)
Room(k) == Held < MaxKeys /\ Bag[k] < MaxCopies

Begin(do, k, at) ==
  /\ call = NoCall /\ call' = [do |-> do, key |-> k]
  /\ curr' = at /\ answer' = "none" /\ UNCHANGED hole

(* Grow upwards if the root is full.                                       *)
InsertBegin(k) ==
  /\ Room(k)
  /\ IF Size(root) = Full
       THEN LET top == NewNode(node)
                grown == [n \in DOMAIN node \cup {top} |->
                            IF n = top THEN [leaf |-> FALSE, key |-> << >>,
                                             child |-> <<root>>]
                            ELSE node[n]]
            IN  /\ root' = top /\ node' = SplitChild(grown, top, 1)
                /\ Begin("insert", k, top)
       ELSE Begin("insert", k, root) /\ UNCHANGED <<node, root>>

RemoveBegin(k) == Begin("remove", k, root) /\ UNCHANGED <<node, root>>

At(do) == call # NoCall /\ call.do = do /\ hole = NoHole
Walk(n) == curr' = n /\ UNCHANGED <<call, answer>>
Return(result) ==
  /\ call' = NoCall /\ answer' = result /\ curr' = Null /\ hole' = NoHole

----------------------------------------------------------------------------
(* insert                                                                  *)

InsertDown ==
  /\ At("insert") /\ ~node[curr].leaf
  /\ LET i == Behind(node[curr], call.key)
         kid == node[curr].child[i]
     IN  IF Size(kid) = Full
           THEN /\ node' = SplitChild(node, curr, i)
                /\ LET x == node'[curr]
                   IN  Walk(x.child[IF x.key[i] < call.key THEN i + 1 ELSE i])
           ELSE Walk(kid) /\ UNCHANGED node
  /\ UNCHANGED <<root, hole>>

InsertLeaf ==
  /\ At("insert") /\ node[curr].leaf
  /\ node' = [node EXCEPT ![curr] = NodeInsert(@, call.key)]
  /\ Return("done") /\ UNCHANGED root

----------------------------------------------------------------------------
(* remove                                                                  *)

Place == FindIndex(node[curr], call.key)
Found == HasAt(node[curr], Place, call.key)
Kid(i) == node[curr].child[i]

RemoveLeaf ==
  /\ At("remove") /\ Found /\ node[curr].leaf
  /\ node' = [node EXCEPT ![curr] = NodeDelete(@, Place)]
  /\ Return("done") /\ UNCHANGED root

RemoveMissing ==
  /\ At("remove") /\ ~Found /\ node[curr].leaf
  /\ Return("missing") /\ UNCHANGED <<node, root>>

(* Replace with the predecessor, or else with the successor.               *)
SeekLeft ==
  /\ At("remove") /\ Found /\ ~node[curr].leaf
  /\ Size(Kid(Place)) >= MinDegree
  /\ hole' = [side |-> "left", node |-> curr, key |-> Place]
  /\ Walk(Kid(Place)) /\ UNCHANGED <<node, root>>

SeekRight ==
  /\ At("remove") /\ Found /\ ~node[curr].leaf
  /\ Size(Kid(Place)) < MinDegree /\ Size(Kid(Place + 1)) >= MinDegree
  /\ hole' = [side |-> "right", node |-> curr, key |-> Place]
  /\ Walk(Kid(Place + 1)) /\ UNCHANGED <<node, root>>

RemoveMerge ==
  /\ At("remove") /\ Found /\ ~node[curr].leaf
  /\ Size(Kid(Place)) < MinDegree /\ Size(Kid(Place + 1)) < MinDegree
  /\ LET merged == MergeChildren(node, root, curr, Place)
     IN  node' = merged.node /\ root' = merged.root
  /\ Walk(Kid(Place)) /\ UNCHANGED hole

(* Mutant: every round that changed a node starts over.                      *)
RemoveDownRestart ==
  /\ At("remove") /\ ~Found /\ ~node[curr].leaf
  /\ LET fixed == FixChildSize(node, root, curr, Place)
         x == fixed.node[curr]
     IN  /\ node' = fixed.node /\ root' = fixed.root
         /\ Walk(IF fixed.node # node THEN fixed.root
                 ELSE x.child[FindIndex(x, call.key)])
  /\ UNCHANGED hole

RemoveDown ==
  /\ At("remove") /\ ~Found /\ ~node[curr].leaf
  /\ LET fixed == FixChildSize(node, root, curr, Place)
         x == fixed.node[curr]
     IN  /\ node' = fixed.node /\ root' = fixed.root
         /\ Walk(IF fixed.root # root THEN fixed.root
                 ELSE x.child[FindIndex(x, call.key)])
  /\ UNCHANGED hole

HoleDown ==
  /\ hole # NoHole /\ ~node[curr].leaf
  /\ LET i == IF hole.side = "left" THEN Size(curr) + 1 ELSE 1
         fixed == FixChildSize(node, root, curr, i)
     IN  /\ node' = fixed.node /\ root' = fixed.root
         /\ Walk(IF hole.side = "left" THEN LastChild(node'[curr])
                 ELSE node'[curr].child[1])
  /\ UNCHANGED hole

(* Mutant: a predecessor is taken for a successor.                           *)
HoleFilledByFirst ==
  /\ hole # NoHole /\ node[curr].leaf
  /\ node' = [node EXCEPT ![hole.node].key[hole.key] = node[curr].key[Size(curr)],
                          ![curr] = NodeDelete(@, 1)]
  /\ Return("done") /\ UNCHANGED root

HoleFilled ==
  /\ hole # NoHole /\ node[curr].leaf
  /\ LET i == IF hole.side = "left" THEN Size(curr) ELSE 1
     IN  node' = [node EXCEPT ![hole.node].key[hole.key] = node[curr].key[i],
                              ![curr] = NodeDelete(@, i)]
  /\ Return("done") /\ UNCHANGED root

----------------------------------------------------------------------------
(* search and searchKey, which throws when it finds nothing                *)

(* Mutant: the search takes the index of an insertion.                       *)
StepBehind(n, k) ==
  LET i == Behind(node[n], k)
  IN  IF HasAt(node[n], i, k) \/ node[n].leaf THEN n ELSE node[n].child[i]

Step(n, k) ==
  LET i == FindIndex(node[n], k)
  IN  IF HasAt(node[n], i, k) \/ node[n].leaf THEN n ELSE node[n].child[i]

SearchEnd(k) ==
  LET walk[d \in Heights] == IF d = 0 THEN root ELSE Step(walk[d - 1], k)
  IN  walk[Cardinality(DOMAIN node)]

searchKey(k) ==
  LET x == node[SearchEnd(k)]
  IN  IF HasAt(x, FindIndex(x, k), k) THEN "found" ELSE "missing"

----------------------------------------------------------------------------
Insertion == InsertDown \/ InsertLeaf
Removal == \/ RemoveLeaf \/ RemoveMissing \/ SeekLeft \/ SeekRight
           \/ RemoveMerge \/ RemoveDown \/ HoleDown \/ HoleFilled

Continue == Insertion \/ Removal

Next == (\E k \in Keys : InsertBegin(k) \/ RemoveBegin(k)) \/ Continue

Spec == Init /\ [][Next]_vars

----------------------------------------------------------------------------
(* Properties                                                              *)

Parents(n) == {p \in (DOMAIN node) \X (1 .. Full + 1) :
                 p[2] <= Len(node[p[1]].child) /\ node[p[1]].child[p[2]] = n}

(* The pointers form a tree: every allocated node but the root is the child*)
(* of one node at one place, so nothing leaks and nothing is freed twice,  *)
(* at every step of an insertion or a removal.                             *)
IsTree ==
  /\ Below(root) = DOMAIN node
  /\ Parents(root) = {}
  /\ \A n \in DOMAIN node \ {root} : Cardinality(Parents(n)) = 1

(* Every node but the root has between t - 1 and 2t - 1 keys and one child *)
(* more, and all leaves are equally deep, at every step of a call.         *)
LeafDepths == {d \in Heights : \E n \in Level(root)[d] : node[n].leaf}

Filled ==
  /\ \A n \in DOMAIN node :
       /\ Size(n) <= Full
       /\ n # root => Size(n) >= MinDegree - 1
       /\ ~node[n].leaf => Len(node[n].child) = Size(n) + 1 /\ Size(n) > 0
  /\ Cardinality(LeafDepths) = 1

(* The keys are in order: those of a node, and those below a child between *)
(* the two keys beside it; the walks down rely on it.                      *)
KeysBelow(n) == UNION {ToSet(node[m].key) : m \in Below(n)}

Ordered ==
  \A n \in DOMAIN node : \A i \in 1 .. Size(n) :
    /\ i > 1 => node[n].key[i - 1] <= node[n].key[i]
    /\ ~node[n].leaf =>
         /\ \A k \in KeysBelow(node[n].child[i]) : k <= node[n].key[i]
         /\ \A k \in KeysBelow(node[n].child[i + 1]) : node[n].key[i] <= k

(* Between two calls searchKey finds a key exactly if it is in the tree,   *)
(* wherever copies of it lie.                                              *)
SearchExact ==
  call = NoCall => \A k \in Keys : searchKey(k) = "found" <=> Bag[k] > 0

(* Every round of the loop of a call comes nearer to the leaves, also when *)
(* it merges the root away, so a call takes as many rounds as the tree is  *)
(* high: logarithmic time, as Btree.h says.                                *)
AboveLeaf(n) == CHOOSE d \in Heights : \E m \in Level(n)[d] : node[m].leaf

Descends ==
  [][call # NoCall /\ call' # NoCall => AboveLeaf(curr)' < AboveLeaf(curr)]_vars

(* The tree is a bag of keys: a call adds its key, or takes one copy of it,*)
(* or says that it is missing, and changes nothing else.                   *)
Promised == INSTANCE KeyBag WITH bag <- Bag
IsBag == Promised!Spec
=============================================================================

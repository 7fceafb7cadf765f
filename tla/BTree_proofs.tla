---------------------------- MODULE BTree_proofs ----------------------------
(***************************************************************************)
(* Theorems about the B-tree for any keys, any minimum degree and any      *)
(* number of nodes, as long as the tree holds at most 2t equal keys        *)
(* (FewCopies): the pointers form a tree at every step, its nodes keep     *)
(* their sizes and its leaves their depth, the keys are in order, searches *)
(* find exactly what is there, every round of a call comes nearer to the   *)
(* leaves, and the tree is a bag of keys as KeyBag says.                   *)
(*                                                                         *)
(* The inductive invariant (IInv) says that the tree is one (Tree), that   *)
(* its nodes have the sizes they should (Sized), and where a call under    *)
(* way stands (Calling): an insertion at a node that has room and whose    *)
(* fence lets the key through; a removal at a node that can lose a key and *)
(* has the key below it if any node has; one that replaces a key, below    *)
(* that key, on the path to its neighbour.                                 *)
(***************************************************************************)
EXTENDS BTree_shape

----------------------------------------------------------------------------
(* Sizes after a split                                                     *)

(* A split keeps every node within its limits when the parent has room.     *)
LEMMA SizedSplit ==
  ASSUME NEW h, NEW g, NEW x, NEW y, NEW z, NEW i, Divided(h, g, x, y, z, i),
         SplitSizes(h, g, x, y, z), NEW r, r \in DOMAIN h,
         \A n \in DOMAIN h \ {x} : SizedNode(h[n], n = r),
         Len(h[x].key) < Full, x # r => Len(h[x].key) >= MinDegree - 1
  PROVE  Sized(g, r)
  <1>1. /\ HeapType(h) /\ x \in DOMAIN h /\ z \notin DOMAIN h /\ DOMAIN g = DOMAIN h \cup {z}
        /\ SameOn(h, g, DOMAIN h \ {x, y})
    BY DEF Divided
  <1>2. Len(h[x].key) \in Nat /\ MinDegree \in Nat /\ MinDegree >= 2
    BY <1>1, BTreeAssumption DEF HeapType, NodeType
  <1> SUFFICES ASSUME NEW n \in DOMAIN g PROVE SizedNode(g[n], n = r)
    BY DEF Sized
  <1>3. CASE n = x
    <2>1. Len(g[n].key) = Len(h[x].key) + 1
      BY <1>3 DEF SplitSizes
    <2>2. Len(g[n].key) <= Full /\ (n # r => Len(g[n].key) >= MinDegree - 1) /\ Len(g[n].key) >= 1
      BY <1>2, <1>3, <2>1 DEF Full
    <2>3. QED
      BY <2>2 DEF SizedNode
  <1>4. CASE n = y \/ n = z
    <2>1. Len(g[n].key) = MinDegree - 1
      BY <1>4 DEF SplitSizes
    <2>2. Len(g[n].key) <= Full /\ Len(g[n].key) >= MinDegree - 1 /\ Len(g[n].key) >= 1
      BY <1>2, <2>1 DEF Full
    <2>3. QED
      BY <2>2 DEF SizedNode
  <1>5. CASE n # x /\ n # y /\ n # z
    BY <1>1, <1>5 DEF SameOn
  <1>6. QED
    BY <1>3, <1>4, <1>5

----------------------------------------------------------------------------
(* A root over the root                                                    *)

(* g is h with a root top put over the root r that has r as its only child. *)
Capped(h, g, r, top) ==
  /\ HeapType(h) /\ HeapType(g) /\ Shaped(h) /\ Shaped(g)
  /\ r \in DOMAIN h /\ top \in Nodes \ DOMAIN h
  /\ DOMAIN g = DOMAIN h \cup {top} /\ SameOn(h, g, DOMAIN h)
  /\ ~g[top].leaf /\ Len(g[top].key) = 0 /\ Len(g[top].child) = 1 /\ g[top].child[1] = r

LEMMA CountNothing ==
  ASSUME NEW s, Len(s) = 0, NEW V
  PROVE  CountIn(s, V) = 0
  <1>1. {i \in 1 .. Len(s) : s[i] \in V} = {}
    OBVIOUS
  <1>2. QED
    BY <1>1, FS_EmptySet DEF CountIn

LEMMA CountOne ==
  ASSUME NEW s, Len(s) = 1, NEW V
  PROVE  CountIn(s, V) = One(s[1], V)
  <1>1. CASE s[1] \in V
    <2>1. {i \in 1 .. Len(s) : s[i] \in V} = {1}
      BY <1>1
    <2>2. QED
      BY <1>1, <2>1, FS_Singleton DEF CountIn, One
  <1>2. CASE s[1] \notin V
    <2>1. {i \in 1 .. Len(s) : s[i] \in V} = {}
      BY <1>2
    <2>2. QED
      BY <1>2, <2>1, FS_EmptySet DEF CountIn, One
  <1>3. QED
    BY <1>1, <1>2

LEMMA CappedTotals ==
  ASSUME NEW h, NEW g, NEW r, NEW top, Capped(h, g, r, top), NEW V
  PROVE  /\ Total(KeysOf(g), V) = Total(KeysOf(h), V)
         /\ Total(KidsOf(g), V) = Total(KidsOf(h), V) + One(r, V)
         /\ Total(KidsOf(h), V) \in Int /\ Total(KeysOf(h), V) \in Int
  <1>1. /\ HeapType(h) /\ HeapType(g) /\ top \notin DOMAIN h
        /\ DOMAIN g = DOMAIN h \cup {top} /\ SameOn(h, g, DOMAIN h)
        /\ Len(g[top].key) = 0 /\ Len(g[top].child) = 1 /\ g[top].child[1] = r
    BY DEF Capped
  <1>2. /\ Lists(KeysOf(h)) /\ Lists(KeysOf(g)) /\ Lists(KidsOf(h)) /\ Lists(KidsOf(g))
        /\ DOMAIN KeysOf(g) = DOMAIN g /\ DOMAIN KeysOf(h) = DOMAIN h
        /\ DOMAIN KidsOf(g) = DOMAIN g /\ DOMAIN KidsOf(h) = DOMAIN h
        /\ \A n \in DOMAIN h : KeysOf(h)[n] = h[n].key /\ KidsOf(h)[n] = h[n].child
        /\ \A n \in DOMAIN g : KeysOf(g)[n] = g[n].key /\ KidsOf(g)[n] = g[n].child
    BY <1>1, HeapLists
  <1>3. /\ SameOn(KeysOf(h), KeysOf(g), DOMAIN KeysOf(h))
        /\ SameOn(KidsOf(h), KidsOf(g), DOMAIN KidsOf(h))
        /\ DOMAIN KeysOf(g) = DOMAIN KeysOf(h) \cup {top}
        /\ DOMAIN KidsOf(g) = DOMAIN KidsOf(h) \cup {top}
        /\ top \notin DOMAIN KeysOf(h) /\ top \notin DOMAIN KidsOf(h)
    BY <1>1, <1>2 DEF SameOn
  <1>4. Total(KeysOf(g), V) = Total(KeysOf(h), V) + CountIn(KeysOf(g)[top], V)
    BY <1>2, <1>3, TotalNew
  <1>5. Total(KidsOf(g), V) = Total(KidsOf(h), V) + CountIn(KidsOf(g)[top], V)
    BY <1>2, <1>3, TotalNew
  <1>6. KeysOf(g)[top] = g[top].key /\ KidsOf(g)[top] = g[top].child
    BY <1>1, <1>2
  <1>7. CountIn(g[top].key, V) = 0 /\ CountIn(g[top].child, V) = One(r, V)
    BY <1>1, CountNothing, CountOne
  <1>8. Total(KeysOf(h), V) \in Int /\ Total(KidsOf(h), V) \in Int
    BY <1>2, TotalType
  <1>9. QED
    BY <1>4, <1>5, <1>6, <1>7, <1>8

(* A root over the root keeps every other node a child once.                *)
LEMMA CappedWired ==
  ASSUME NEW h, NEW g, NEW r, NEW top, Capped(h, g, r, top)
  PROVE  Wired(h, r) <=> Wired(g, top)
  <1>1. r \in DOMAIN h /\ top \notin DOMAIN h /\ DOMAIN g = DOMAIN h \cup {top}
    BY DEF Capped
  <1>2. \A v \in Nodes : /\ Total(KidsOf(g), {v}) = Total(KidsOf(h), {v}) + One(r, {v})
                         /\ Total(KidsOf(h), {v}) \in Int
    BY CappedTotals
  <1>3. DOMAIN g \ {top} = DOMAIN h
    BY <1>1
  <1>4. ASSUME NEW v \in Nodes
        PROVE  Total(KidsOf(h), {v}) = (IF v \in DOMAIN h \ {r} THEN 1 ELSE 0)
               <=> Total(KidsOf(g), {v}) = (IF v \in DOMAIN g \ {top} THEN 1 ELSE 0)
    <2>1. CASE v = r
      <3>1. One(r, {v}) = 1
        BY <2>1 DEF One
      <3>2. QED
        BY <1>1, <1>2, <1>3, <2>1, <3>1
    <2>2. CASE v # r
      <3>1. One(r, {v}) = 0
        BY <2>2 DEF One
      <3>2. QED
        BY <1>2, <1>3, <2>2, <3>1
    <2>3. QED
      BY <2>1, <2>2
  <1>5. QED
    BY <1>1, <1>4 DEF Wired

LEMMA CappedKids ==
  ASSUME NEW h, NEW g, NEW r, NEW top, Capped(h, g, r, top)
  PROVE  KidSet(g[top]) = {r} /\ Elements(g[top].key) = {} /\ \A n \in DOMAIN h : KidSet(g[n]) = KidSet(h[n])
  <1>1. /\ Len(g[top].key) = 0 /\ Len(g[top].child) = 1 /\ g[top].child[1] = r
        /\ SameOn(h, g, DOMAIN h)
    BY DEF Capped
  <1>2. KidSet(g[top]) = {r}
    BY <1>1 DEF KidSet, Elements
  <1>3. Elements(g[top].key) = {}
    BY <1>1 DEF Elements
  <1>4. QED
    BY <1>1, <1>2, <1>3 DEF SameOn

LEMMA FrameCaps ==
  ASSUME NEW h, NEW g, NEW r, NEW top, Capped(h, g, r, top), NEW lev, Frame(h, r, lev)
  PROVE  Frame(g, top, [lev EXCEPT ![top] = lev[r] + 1])
  <1> PICK up : up = [lev EXCEPT ![top] = lev[r] + 1]
    OBVIOUS
  <1>1. /\ HeapType(h) /\ HeapType(g) /\ Shaped(g) /\ r \in DOMAIN h /\ top \in Nodes \ DOMAIN h
        /\ DOMAIN g = DOMAIN h \cup {top} /\ SameOn(h, g, DOMAIN h) /\ ~g[top].leaf
    BY DEF Capped
  <1>2. Wired(h, r) /\ Levelled(h, lev)
    BY DEF Frame
  <1>3. lev \in [Nodes -> Nat] /\ r \in Nodes
    BY <1>1, <1>2 DEF Levelled, HeapType
  <1>4. up \in [Nodes -> Nat] /\ up[top] = lev[r] + 1 /\ \A n \in Nodes \ {top} : up[n] = lev[n]
    BY <1>1, <1>3
  <1>5. KidSet(g[top]) = {r} /\ \A n \in DOMAIN h : KidSet(g[n]) = KidSet(h[n])
    BY CappedKids
  <1>6. ASSUME NEW n \in DOMAIN g PROVE LevelledNode(g[n], n, DOMAIN g, up)
    <2>1. CASE n = top
      <3>1. up[r] = lev[r] /\ up[top] # 0
        BY <1>1, <1>3, <1>4
      <3>2. QED
        BY <1>1, <1>4, <1>5, <2>1, <3>1 DEF LevelledNode
    <2>2. CASE n # top
      <3>1. n \in DOMAIN h /\ g[n] = h[n] /\ LevelledNode(h[n], n, DOMAIN h, lev) /\ n \in Nodes
        BY <1>1, <1>2, <2>2 DEF SameOn, Levelled, HeapType
      <3>2. \A c \in KidSet(h[n]) : c \in DOMAIN h /\ lev[c] + 1 = lev[n]
        BY <3>1 DEF LevelledNode
      <3>3. \A c \in KidSet(h[n]) : c \in DOMAIN g /\ up[c] + 1 = up[n]
        BY <1>1, <1>4, <2>2, <3>1, <3>2 DEF HeapType
      <3>4. g[n].leaf <=> up[n] = 0
        BY <1>4, <2>2, <3>1 DEF LevelledNode
      <3>5. QED
        BY <3>1, <3>3, <3>4 DEF LevelledNode
    <2>3. QED
      BY <2>1, <2>2
  <1>7. Levelled(g, up)
    BY <1>4, <1>6 DEF Levelled
  <1>8. Wired(g, top)
    BY <1>2, CappedWired
  <1>9. QED
    BY <1>1, <1>7, <1>8 DEF Frame

LEMMA FrameUncaps ==
  ASSUME NEW h, NEW g, NEW r, NEW top, Capped(h, g, r, top), NEW lev, Frame(g, top, lev)
  PROVE  Frame(h, r, lev)
  <1>1. /\ HeapType(h) /\ HeapType(g) /\ Shaped(h) /\ r \in DOMAIN h /\ top \in Nodes \ DOMAIN h
        /\ DOMAIN g = DOMAIN h \cup {top} /\ SameOn(h, g, DOMAIN h)
    BY DEF Capped
  <1>2. Wired(g, top) /\ Levelled(g, lev)
    BY DEF Frame
  <1>3. Wired(h, r)
    BY <1>2, CappedWired
  <1>4. OneParent(g, top)
    BY <1>1, <1>2, WiredKids
  <1>5. ASSUME NEW n \in DOMAIN h PROVE LevelledNode(h[n], n, DOMAIN h, lev)
    <2>1. n \in DOMAIN g /\ g[n] = h[n] /\ LevelledNode(g[n], n, DOMAIN g, lev)
      BY <1>1, <1>2 DEF SameOn, Levelled
    <2>2. KidSet(g[n]) \subseteq DOMAIN g \ {top}
      BY <1>4, <2>1 DEF OneParent
    <2>3. QED
      BY <1>1, <2>1, <2>2 DEF LevelledNode
  <1>6. Levelled(h, lev)
    BY <1>2, <1>5 DEF Levelled
  <1>7. QED
    BY <1>1, <1>3, <1>6 DEF Frame

LEMMA FenceUncaps ==
  ASSUME NEW h, NEW g, NEW r, NEW top, Capped(h, g, r, top), NEW K, Fenced(g, K)
  PROVE  Fenced(h, K)
  BY DEF Capped, Fenced, SameOn

LEMMA FenceCaps ==
  ASSUME NEW h, NEW g, NEW r, NEW top, Capped(h, g, r, top),
         Wired(h, r), NEW K, Fenced(h, K)
  PROVE  Fenced(g, [K EXCEPT ![top] = K[r]])
  <1> PICK G : G = [K EXCEPT ![top] = K[r]]
    OBVIOUS
  <1>1. /\ HeapType(h) /\ HeapType(g) /\ r \in DOMAIN h /\ top \in Nodes \ DOMAIN h
        /\ DOMAIN g = DOMAIN h \cup {top} /\ SameOn(h, g, DOMAIN h)
        /\ Len(g[top].key) = 0
    BY DEF Capped
  <1>2. K \in [Nodes -> SUBSET Int] /\ \A n \in DOMAIN h : FencedNode(h[n], K[n], K)
    BY DEF Fenced
  <1>3. r \in Nodes
    BY <1>1 DEF HeapType
  <1>4. G \in [Nodes -> SUBSET Int] /\ G[top] = K[r] /\ \A n \in Nodes \ {top} : G[n] = K[n]
    BY <1>1, <1>2, <1>3
  <1>5. KidSet(g[top]) = {r}
    BY CappedKids
  <1>6. ASSUME NEW n \in DOMAIN g PROVE FencedNode(g[n], G[n], G)
    <2>1. CASE n = top
      <3>1. G[r] = K[r]
        BY <1>1, <1>3, <1>4
      <3>2. Holds(g[n], G[n], G)
        BY <1>1, <1>4, <1>5, <2>1, <3>1 DEF Holds
      <3>3. Rising(g[n]) /\ Beside(g[n], G)
        BY <1>1, <2>1 DEF Rising, Up, Beside, Apart
      <3>4. QED
        BY <3>2, <3>3 DEF FencedNode
    <2>2. CASE n # top
      <3>1. n \in DOMAIN h /\ g[n] = h[n] /\ FencedNode(h[n], K[n], K) /\ n \in Nodes
        BY <1>1, <1>2, <2>2 DEF SameOn, HeapType
      <3>2. SameSets(h[n], K, G)
        <4>1. \A c \in KidSet(h[n]) : c # top /\ c \in Nodes
          <5>1. OneParent(h, r)
            BY <1>1, WiredKids
          <5>2. KidSet(h[n]) \subseteq DOMAIN h /\ DOMAIN h \subseteq Nodes
            BY <1>1, <3>1, <5>1 DEF OneParent, HeapType
          <5>3. QED
            BY <1>1, <5>2
        <4>2. QED
          BY <1>4, <4>1 DEF SameSets
      <3>3. QED
        BY <1>4, <2>2, <3>1, <3>2, FencedSame
    <2>3. QED
      BY <2>1, <2>2
  <1>7. QED
    BY <1>4, <1>6 DEF Fenced

(* A tree with a root over its root is a tree.                              *)
LEMMA TreeCaps ==
  ASSUME NEW h, NEW g, NEW r, NEW top, Capped(h, g, r, top), NEW lev, NEW K, Tree(h, r, lev, K)
  PROVE  Tree(g, top, [lev EXCEPT ![top] = lev[r] + 1], [K EXCEPT ![top] = K[r]])
  <1>1. Frame(h, r, lev) /\ Wired(h, r) /\ Fenced(h, K)
    BY DEF Tree, Frame
  <1>2. QED
    BY <1>1, FrameCaps, FenceCaps DEF Tree

(* And so it is without it.                                                 *)
LEMMA TreeUncaps ==
  ASSUME NEW h, NEW g, NEW r, NEW top, Capped(h, g, r, top), NEW lev, NEW K, Tree(g, top, lev, K)
  PROVE  Tree(h, r, lev, K)
  BY FrameUncaps, FenceUncaps DEF Tree

----------------------------------------------------------------------------
(* mergeChildren                                                           *)

MergedHeap(h, p, left, right, i, gone) ==
  [n \in DOMAIN h \ gone |->
     CASE n = p -> NodeDelete(h[p], i) [] n = left -> MeltedNode(h[left], h[right], h[p].key[i])
       [] OTHER -> h[n]]
Gone(x, p, right) == IF x.key = << >> THEN {right, p} ELSE {right}

LEMMA MergeIsHeap ==
  ASSUME NEW h, NEW r, NEW p, NEW i
  PROVE  MergeChildren(h, r, p, i) =
           [node |-> MergedHeap(h, p, h[p].child[i], h[p].child[i + 1], i,
                                Gone(NodeDelete(h[p], i), p, h[p].child[i + 1])),
            root |-> IF p \in Gone(NodeDelete(h[p], i), p, h[p].child[i + 1])
                       THEN h[p].child[i] ELSE r]
  BY DEF MergeChildren, MergedHeap, MeltedNode, Gone

(* mergeChildren merges, and frees a parent that is left without keys.      *)
LEMMA MergeIs ==
  ASSUME NEW h, NEW r, NEW lev, Frame(h, r, lev), NEW p, NEW i, NEW left, NEW right,
         Siblings(h, p, i, left, right)
  PROVE  /\ Len(h[p].key) > 1 => /\ MergeChildren(h, r, p, i).node = Melt(h, p, i)
                                 /\ MergeChildren(h, r, p, i).root = r
         /\ Len(h[p].key) = 1 => /\ Capped(MergeChildren(h, r, p, i).node, Melt(h, p, i), left, p)
                                 /\ MergeChildren(h, r, p, i).root = left
  <1> PICK x : x = NodeDelete(h[p], i)
    OBVIOUS
  <1> PICK e : e = Melt(h, p, i)
    OBVIOUS
  <1> PICK m : m = MergeChildren(h, r, p, i)
    OBVIOUS
  <1>1. /\ left \in DOMAIN h \ {r} /\ right \in DOMAIN h \ {r}
        /\ left # right /\ p # left /\ p # right
        /\ h[p] \in NodeType /\ ShapedNode(h[p]) /\ Len(h[p].key) \in Nat
    BY SiblingsAre
  <1>2. /\ p \in DOMAIN h /\ ~h[p].leaf /\ i \in 1 .. Len(h[p].key)
        /\ left = h[p].child[i] /\ right = h[p].child[i + 1]
    BY DEF Siblings
  <1>3. /\ x \in NodeType /\ ~x.leaf /\ Len(x.key) = Len(h[p].key) - 1 /\ ShapedNode(x)
        /\ x.key \in Seq(Keys)
    <2>1. NodeDelete(h[p], i) \in NodeType /\ NodeDelete(h[p], i).leaf = h[p].leaf
          /\ Len(NodeDelete(h[p], i).key) = Len(h[p].key) - 1 /\ ShapedNode(NodeDelete(h[p], i))
      BY <1>1, <1>2, NodeDeleteIs
    <2>2. QED
      BY <1>2, <2>1 DEF NodeType
  <1>4. m = [node |-> MergedHeap(h, p, left, right, i, Gone(x, p, right)),
             root |-> IF p \in Gone(x, p, right) THEN left ELSE r]
    BY <1>2, MergeIsHeap
  <1>5. /\ m.node = MergedHeap(h, p, left, right, i, Gone(x, p, right))
        /\ m.root = IF p \in Gone(x, p, right) THEN left ELSE r
    BY <1>4
  <1>6. e = MeltHeap(h, p, left, right, i)
    BY <1>2, MeltIsHeap
  <1>7. ASSUME Len(h[p].key) > 1 PROVE m.node = e /\ m.root = r
    <2>1. x.key # << >>
      BY <1>1, <1>3, <1>7
    <2>2. Gone(x, p, right) = {right}
      BY <2>1 DEF Gone
    <2>3. p \notin Gone(x, p, right)
      BY <1>1, <2>2
    <2>4. m.node = MergedHeap(h, p, left, right, i, {right})
      BY <1>5, <2>2
    <2>5. MergedHeap(h, p, left, right, i, {right}) = MeltHeap(h, p, left, right, i)
      BY DEF MergedHeap, MeltHeap
    <2>6. QED
      BY <1>5, <1>6, <2>3, <2>4, <2>5
  <1>8. ASSUME Len(h[p].key) = 1 PROVE Capped(m.node, e, left, p) /\ m.root = left
    <2>1. Len(x.key) = 0 /\ x.key = << >> /\ i = 1
      BY <1>2, <1>3, <1>8
    <2>2. Gone(x, p, right) = {right, p}
      BY <2>1 DEF Gone
    <2>3. m.root = left
      BY <1>5, <2>2
    <2>4. m.node = MergedHeap(h, p, left, right, i, {right, p})
      BY <1>5, <2>2
    <2>5. Divided(e, h, p, left, right, i)
      BY MeltIs
    <2>6. /\ HeapType(e) /\ Shaped(e) /\ p \in DOMAIN e /\ left \in DOMAIN e /\ ~e[p].leaf
          /\ e[p].child[i] = left /\ right \notin DOMAIN e /\ DOMAIN h = DOMAIN e \cup {right}
      BY <2>5 DEF Divided
    <2>7. e[p] = x
      BY <1>1, <1>6, <2>6 DEF MeltHeap
    <2>8. DOMAIN m.node = DOMAIN e \ {p} /\ \A n \in DOMAIN e \ {p} : m.node[n] = e[n]
      <3>1. DOMAIN m.node = DOMAIN h \ {right, p} /\ DOMAIN e = DOMAIN h \ {right}
        BY <1>6, <2>4 DEF MergedHeap, MeltHeap
      <3>2. ASSUME NEW n \in DOMAIN h \ {right, p} PROVE m.node[n] = e[n]
        <4>1. m.node[n] = CASE n = p -> NodeDelete(h[p], i)
                            [] n = left -> MeltedNode(h[left], h[right], h[p].key[i]) [] OTHER -> h[n]
          BY <2>4 DEF MergedHeap
        <4>2. e[n] = CASE n = p -> NodeDelete(h[p], i)
                            [] n = left -> MeltedNode(h[left], h[right], h[p].key[i]) [] OTHER -> h[n]
          BY <1>6 DEF MeltHeap
        <4>3. QED
          BY <4>1, <4>2
      <3>3. QED
        BY <3>1, <3>2
    <2>9. m.node = [n \in DOMAIN m.node |-> m.node[n]]
      BY <2>4 DEF MergedHeap
    <2>10. m.node \in [DOMAIN m.node -> NodeType] /\ DOMAIN m.node \subseteq Nodes
      BY <2>6, <2>8, <2>9 DEF HeapType
    <2>11. HeapType(m.node) /\ Shaped(m.node)
      BY <2>6, <2>8, <2>10 DEF HeapType, Shaped
    <2>12. Len(e[p].child) = 1
      BY <1>3, <2>1, <2>7 DEF ShapedNode
    <2>13. p \in Nodes \ DOMAIN m.node
      BY <2>6, <2>8 DEF HeapType
    <2>14. left \in DOMAIN m.node /\ DOMAIN e = DOMAIN m.node \cup {p} /\ SameOn(m.node, e, DOMAIN m.node)
      BY <1>1, <2>6, <2>8 DEF SameOn
    <2>15. QED
      BY <2>1, <2>3, <2>6, <2>7, <2>11, <2>12, <2>13, <2>14 DEF Capped
  <1>9. QED
    BY <1>7, <1>8

----------------------------------------------------------------------------
(* fixChildSize                                                            *)

(* g is h with the children of p changed and nothing at their height or     *)
(* above, but for the keys and children of p itself.                        *)
Reshaped(h, g, r, lev, p) ==
  /\ \E G : Tree(g, r, lev, G)
  /\ \A V : Total(KeysOf(g), V) = Total(KeysOf(h), V)
  /\ \A n \in DOMAIN h : lev[n] >= lev[p] =>
       /\ n \in DOMAIN g /\ (n # p => g[n] = h[n])
       /\ \A k : Under(g, n, k) <=> Under(h, n, k)

LEMMA SameReshaped ==
  ASSUME NEW h, NEW r, NEW lev, NEW K, Tree(h, r, lev, K), NEW p
  PROVE  Reshaped(h, h, r, lev, p)
  BY DEF Reshaped

(* Merging leaves what is below the nodes that are not lower than p.        *)
LEMMA MeltReshapes ==
  ASSUME NEW h, NEW r, NEW lev, NEW K, Tree(h, r, lev, K), NEW p, NEW j, NEW l, NEW u,
         Siblings(h, p, j, l, u), NEW e, Divided(e, h, p, l, u, j)
  PROVE  Reshaped(h, e, r, lev, p)
  <1>1. Frame(h, r, lev) /\ Wired(h, r)
    BY DEF Tree, Frame
  <1>2. \E G : Tree(e, r, lev, G)
    BY TreeJoins
  <1>3. \A V : Total(KeysOf(e), V) = Total(KeysOf(h), V)
    BY DividedTotals
  <1>4. /\ lev[l] = lev[u] /\ lev[l] \in Nat /\ lev[p] \in Nat /\ lev[l] + 1 = lev[p]
    BY <1>1, SiblingsAre
  <1>5. DOMAIN h = DOMAIN e \cup {u} /\ SameOn(e, h, DOMAIN e \ {p, l}) /\ Wired(e, r)
    <2>1. Wired(e, r)
      BY <1>1, DividedWired
    <2>2. QED
      BY <2>1 DEF Divided
  <1>6. ASSUME NEW n \in DOMAIN h, lev[n] >= lev[p]
        PROVE  /\ n \in DOMAIN e /\ (n # p => e[n] = h[n])
               /\ \A k : Under(e, n, k) <=> Under(h, n, k)
    <2>1. n # l /\ n # u
      BY <1>4, <1>6
    <2>2. n \in DOMAIN e \ {l}
      BY <1>5, <2>1
    <2>3. \A k : Under(e, n, k) <=> Under(h, n, k)
      BY <1>5, <2>2, UnderDivided
    <2>4. QED
      BY <1>5, <2>1, <2>2, <2>3 DEF SameOn
  <1>7. QED
    BY <1>2, <1>3, <1>6 DEF Reshaped

(* And so does borrowing.                                                   *)
LEMMA LendReshapes ==
  ASSUME NEW h, NEW r, NEW lev, NEW K, Tree(h, r, lev, K), NEW p, NEW j, NEW l, NEW u,
         Siblings(h, p, j, l, u), NEW e, Divided(e, h, p, l, u, j), NEW g, Divided(e, g, p, l, u, j)
  PROVE  Reshaped(h, g, r, lev, p)
  <1>1. Frame(h, r, lev) /\ Wired(h, r) /\ lev \in [Nodes -> Nat]
    BY DEF Tree, Frame, Levelled
  <1>2. /\ lev[l] = lev[u] /\ lev[l] \in Nat /\ lev[p] \in Nat /\ lev[l] + 1 = lev[p]
    BY <1>1, SiblingsAre
  <1>3. PICK E : Tree(e, r, lev, E)
    BY TreeJoins
  <1>4. PICK G : Tree(g, r, [lev EXCEPT ![u] = lev[l]], G)
    BY <1>3, TreeDivides
  <1>5. [lev EXCEPT ![u] = lev[l]] = lev
    BY <1>1, <1>2
  <1>6. \A V : Total(KeysOf(g), V) = Total(KeysOf(h), V)
    <2>1. \A V : Total(KeysOf(g), V) = Total(KeysOf(e), V)
      BY DividedTotals
    <2>2. \A V : Total(KeysOf(h), V) = Total(KeysOf(e), V)
      BY DividedTotals
    <2>3. QED
      BY <2>1, <2>2
  <1>7. /\ DOMAIN h = DOMAIN e \cup {u} /\ SameOn(e, h, DOMAIN e \ {p, l}) /\ Wired(e, r)
    <2>1. Wired(e, r)
      BY <1>1, DividedWired
    <2>2. QED
      BY <2>1 DEF Divided
  <1>8. DOMAIN g = DOMAIN e \cup {u} /\ SameOn(e, g, DOMAIN e \ {p, l})
    BY DEF Divided
  <1>9. ASSUME NEW n \in DOMAIN h, lev[n] >= lev[p]
        PROVE  /\ n \in DOMAIN g /\ (n # p => g[n] = h[n])
               /\ \A k : Under(g, n, k) <=> Under(h, n, k)
    <2>1. n # l /\ n # u
      BY <1>2, <1>9
    <2>2. n \in DOMAIN e \ {l}
      BY <1>7, <2>1
    <2>3. \A k : Under(e, n, k) <=> Under(h, n, k)
      BY <1>7, <2>2, UnderDivided
    <2>4. \A k : Under(e, n, k) <=> Under(g, n, k)
      BY <1>7, <2>2, UnderDivided
    <2>5. QED
      BY <1>7, <1>8, <2>1, <2>2, <2>3, <2>4 DEF SameOn
  <1>10. QED
    BY <1>4, <1>5, <1>6, <1>9 DEF Reshaped

KidSize(h, p, j) == Len(h[h[p].child[j]].key)

(* fixChildSize borrows or merges unless the child has t keys.              *)
LEMMA FixCases ==
  ASSUME NEW h, NEW r, NEW p, NEW i \in Nat, i >= 1, Len(h[p].key) \in Nat, Len(h[p].key) >= 1,
         MinDegree \in Nat,
         \A j \in 1 .. Len(h[p].key) + 1 : KidSize(h, p, j) \in Nat,
         i <= Len(h[p].key) + 1
  PROVE  \/ KidSize(h, p, i) >= MinDegree /\ FixChildSize(h, r, p, i) = [node |-> h, root |-> r]
         \/ /\ KidSize(h, p, i) < MinDegree /\ i > 1 /\ KidSize(h, p, i - 1) >= MinDegree
            /\ FixChildSize(h, r, p, i) = [node |-> BorrowLeft(h, p, i), root |-> r]
         \/ /\ KidSize(h, p, i) < MinDegree /\ i <= Len(h[p].key) /\ KidSize(h, p, i + 1) >= MinDegree
            /\ FixChildSize(h, r, p, i) = [node |-> BorrowRight(h, p, i), root |-> r]
         \/ \E j \in 1 .. Len(h[p].key) :
              /\ i \in {j, j + 1} /\ KidSize(h, p, j) < MinDegree /\ KidSize(h, p, j + 1) < MinDegree
              /\ FixChildSize(h, r, p, i) = MergeChildren(h, r, p, j)
  <1>1. CASE KidSize(h, p, i) >= MinDegree
    <2>1. FixChildSize(h, r, p, i) = [node |-> h, root |-> r]
      BY <1>1 DEF FixChildSize, KidSize
    <2>2. QED
      BY <1>1, <2>1
  <1>2. CASE KidSize(h, p, i) < MinDegree /\ i > 1 /\ KidSize(h, p, i - 1) >= MinDegree
    <2>1. FixChildSize(h, r, p, i) = [node |-> BorrowLeft(h, p, i), root |-> r]
      BY <1>2 DEF FixChildSize, KidSize
    <2>2. QED
      BY <1>2, <2>1
  <1>3. CASE /\ KidSize(h, p, i) < MinDegree /\ ~(i > 1 /\ KidSize(h, p, i - 1) >= MinDegree)
             /\ i <= Len(h[p].key) /\ KidSize(h, p, i + 1) >= MinDegree
    <2>1. FixChildSize(h, r, p, i) = [node |-> BorrowRight(h, p, i), root |-> r]
      BY <1>3 DEF FixChildSize, KidSize
    <2>2. QED
      BY <1>3, <2>1
  <1>4. CASE /\ KidSize(h, p, i) < MinDegree /\ ~(i > 1 /\ KidSize(h, p, i - 1) >= MinDegree)
             /\ ~(i <= Len(h[p].key) /\ KidSize(h, p, i + 1) >= MinDegree)
    <2>1. FixChildSize(h, r, p, i) = MergeChildren(h, r, p, IF i > 1 THEN i - 1 ELSE i)
      BY <1>4 DEF FixChildSize, KidSize
    <2>2. CASE i > 1
      <3>1. i - 1 \in 1 .. Len(h[p].key) + 1 /\ i - 1 \in 1 .. Len(h[p].key) /\ (i - 1) + 1 = i
        BY <2>2
      <3>2. KidSize(h, p, i - 1) \in Nat /\ KidSize(h, p, i - 1) < MinDegree
        BY <1>4, <2>2, <3>1
      <3>3. FixChildSize(h, r, p, i) = MergeChildren(h, r, p, i - 1)
        BY <2>1, <2>2
      <3>4. KidSize(h, p, (i - 1) + 1) < MinDegree
        BY <1>4, <3>1
      <3> PICK j : j = i - 1
        OBVIOUS
      <3>5. j \in 1 .. Len(h[p].key) /\ i \in {j, j + 1}
        BY <3>1
      <3>6. KidSize(h, p, j) < MinDegree /\ KidSize(h, p, j + 1) < MinDegree
        BY <3>2, <3>4
      <3>7. FixChildSize(h, r, p, i) = MergeChildren(h, r, p, j)
        BY <3>3
      <3>8. QED
        BY <3>5, <3>6, <3>7
    <2>3. CASE i = 1
      <3>1. i \in 1 .. Len(h[p].key) /\ i + 1 \in 1 .. Len(h[p].key) + 1
        BY <2>3
      <3>2. KidSize(h, p, i + 1) < MinDegree
        BY <1>4, <3>1
      <3>3. FixChildSize(h, r, p, i) = MergeChildren(h, r, p, i)
        BY <2>1, <2>3
      <3>4. QED
        BY <1>4, <3>1, <3>2, <3>3
    <2>4. QED
      BY <2>2, <2>3
  <1>5. KidSize(h, p, i) \in Nat
    OBVIOUS
  <1>6. QED
    BY <1>1, <1>2, <1>3, <1>4, <1>5

(* k lies between the keys beside the place i.                              *)
Between(x, i, k) ==
  \A a \in 1 .. Len(x.key) : IF a < i THEN x.key[a] < k ELSE k < x.key[a]

(* What the place i of h[p] has become in g[p].                             *)
Fixed(h, g, p, i, q) ==
  /\ p \in DOMAIN g /\ ~g[p].leaf /\ q \in 1 .. Len(g[p].child)
  /\ KidSize(g, p, q) >= MinDegree
  /\ (i = 1 => q = 1) /\ (i = Len(h[p].child) => q = Len(g[p].child))
  /\ \A k \in Int : Between(h[p], i, k) => Between(g[p], q, k)

(* v is w with m at place j, and m has moved towards the key at i.          *)
Replaced(v, w, j, m) ==
  /\ Len(v) = Len(w) /\ j \in 1 .. Len(w) /\ v[j] = m
  /\ \A a \in 1 .. Len(w) : a # j => v[a] = w[a]
Crossed(w, j, m, i) == (i = j + 1 /\ m <= w[j]) \/ (i = j /\ w[j] <= m)

LEMMA LentBetween ==
  ASSUME NEW w, NEW v, NEW j, NEW m, NEW i, NEW k \in Int,
         Len(w.key) \in Nat, Ints(w.key, Len(w.key)), m \in Int,
         Replaced(v.key, w.key, j, m), Crossed(w.key, j, m, i), Between(w, i, k)
  PROVE  Between(v, i, k)
  <1> PICK n \in Nat : n = Len(w.key)
    OBVIOUS
  <1>0. /\ Len(v.key) = n /\ j \in 1 .. n /\ v.key[j] = m
        /\ \A a \in 1 .. n : a # j => v.key[a] = w.key[a]
        /\ \/ i = j + 1 /\ m <= w.key[j]
           \/ i = j /\ w.key[j] <= m
    BY DEF Replaced, Crossed
  <1>1. \A a \in 1 .. n : IF a < i THEN w.key[a] < k ELSE k < w.key[a]
    BY DEF Between
  <1>2. \A a \in 1 .. n : w.key[a] \in Int
    BY DEF Ints
  <1>3. ASSUME NEW a \in 1 .. n PROVE IF a < i THEN v.key[a] < k ELSE k < v.key[a]
    BY <1>0, <1>1, <1>2
  <1>4. QED
    BY <1>0, <1>3 DEF Between

LEMMA MeltBetween ==
  ASSUME NEW v, NEW w, NEW j, NEW i, NEW k \in Int, Len(v.key) \in Nat, Without(v.key, w.key, j),
         i \in {j, j + 1}, Between(w, i, k)
  PROVE  Between(v, j, k)
  <1> PICK n \in Nat : n = Len(v.key)
    OBVIOUS
  <1>1. /\ j \in 1 .. n + 1 /\ Len(w.key) = n + 1
        /\ \A a \in 1 .. n : v.key[a] = IF a < j THEN w.key[a] ELSE w.key[a + 1]
    BY DEF Without
  <1>2. \A a \in 1 .. n + 1 : IF a < i THEN w.key[a] < k ELSE k < w.key[a]
    BY <1>1 DEF Between
  <1>3. ASSUME NEW a \in 1 .. n PROVE IF a < j THEN v.key[a] < k ELSE k < v.key[a]
    <2>1. CASE a < j
      <3>1. a \in 1 .. n + 1 /\ a < i
        BY <1>1, <2>1
      <3>2. QED
        BY <1>1, <1>2, <2>1, <3>1
    <2>2. CASE ~(a < j)
      <3>1. a + 1 \in 1 .. n + 1 /\ ~(a + 1 < i)
        BY <1>1, <2>2
      <3>2. QED
        BY <1>1, <1>2, <2>2, <3>1
    <2>3. QED
      BY <2>1, <2>2
  <1>4. QED
    BY <1>3 DEF Between

(* The parent can lose a key.                                               *)
Losable(h, r, p) == Sized(h, r) /\ p \in DOMAIN h /\ ~h[p].leaf /\ (p = r \/ Len(h[p].key) >= MinDegree)

(* Borrowing keeps the limits on sizes, and the child gets t keys or more.  *)
LEMMA SizedLend ==
  ASSUME NEW h, NEW r, NEW lev, NEW K, Tree(h, r, lev, K), NEW p, Losable(h, r, p),
         NEW j, NEW l, NEW u, Siblings(h, p, j, l, u), NEW g,
         DOMAIN g = DOMAIN h, SameOn(h, g, DOMAIN h \ {p, l, u}), ~g[p].leaf,
         NEW from, NEW to, from # to, {from, to} = {l, u}, Lent(h, g, p, from, to),
         Len(h[from].key) >= MinDegree, Len(h[to].key) < MinDegree
  PROVE  Sized(g, r) /\ Len(g[to].key) >= MinDegree
  <1>1. Frame(h, r, lev) /\ HeapType(h) /\ Wired(h, r)
    BY DEF Tree, Frame
  <1>2. /\ l \in DOMAIN h \ {r} /\ u \in DOMAIN h \ {r} /\ l # u /\ p # l /\ p # u
        /\ Len(h[p].key) \in Nat
    BY <1>1, SiblingsAre
  <1>3. Len(h[l].key) \in Nat /\ Len(h[u].key) \in Nat /\ MinDegree \in Nat /\ MinDegree >= 2
    BY <1>1, <1>2, BTreeAssumption, NodeTypes
  <1>4. from \in {l, u} /\ to \in {l, u}
    OBVIOUS
  <1>5. \A n \in DOMAIN h : SizedNode(h[n], n = r)
    BY DEF Losable, Sized
  <1>6. DOMAIN g = DOMAIN h /\ SameOn(h, g, DOMAIN h \ {p, l, u}) /\ (~g[p].leaf)
    OBVIOUS
  <1>7. /\ Len(g[p].key) = Len(h[p].key)
        /\ Len(g[from].key) = Len(h[from].key) - 1 /\ Len(g[to].key) = Len(h[to].key) + 1
    BY DEF Lent
  <1>8. /\ MinDegree - 1 <= Len(h[to].key) /\ Len(h[from].key) <= Full /\ Len(h[from].key) \in Nat
        /\ Len(h[to].key) \in Nat
    BY <1>2, <1>3, <1>4, <1>5 DEF SizedNode
  <1>9. Len(g[to].key) >= MinDegree /\ Len(g[to].key) <= Full
        /\ Len(g[from].key) >= MinDegree - 1 /\ Len(g[from].key) <= Full /\ Len(g[from].key) >= 1
    BY <1>3, <1>7, <1>8 DEF Full
  <1>10. ASSUME NEW n \in DOMAIN g PROVE SizedNode(g[n], n = r)
    <2>1. CASE n = p
      <3>1. SizedNode(h[p], p = r) /\ ~h[p].leaf
        BY <1>5 DEF Losable
      <3>2. QED
        BY <1>6, <1>7, <2>1, <3>1 DEF SizedNode
    <2>2. CASE n = to
      <3>1. Len(g[n].key) >= MinDegree - 1 /\ Len(g[n].key) >= 1 /\ Len(g[n].key) <= Full
        BY <1>3, <1>7, <1>8, <1>9, <2>2
      <3>2. QED
        BY <3>1 DEF SizedNode
    <2>3. CASE n = from
      BY <1>9, <2>3 DEF SizedNode
    <2>4. CASE n \notin {p, l, u}
      <3>1. g[n] = h[n] /\ SizedNode(h[n], n = r)
        BY <1>5, <1>6, <2>4 DEF SameOn
      <3>2. QED
        BY <3>1
    <2>5. QED
      BY <2>1, <2>2, <2>3, <2>4
  <1>11. QED
    BY <1>9, <1>10 DEF Sized

(* The child a search goes to next is the one that was fixed.               *)
LEMMA LentFixed ==
  ASSUME NEW h, NEW r, NEW lev, NEW K, Tree(h, r, lev, K), NEW p, Losable(h, r, p),
         NEW j, NEW l, NEW u, Siblings(h, p, j, l, u), NEW e, Divided(e, h, p, l, u, j),
         NEW g, Divided(e, g, p, l, u, j),
         NEW from, NEW to, Lent(h, g, p, from, to),
         Len(h[from].key) >= MinDegree, Len(h[to].key) < MinDegree,
         NEW m \in Int, Patched(g[p].key, h[p].key, j, m),
         NEW i, \/ i = j + 1 /\ from = l /\ to = u /\ m <= h[p].key[j]
                \/ i = j /\ from = u /\ to = l /\ h[p].key[j] <= m
  PROVE  Reshaped(h, g, r, lev, p) /\ Sized(g, r) /\ Fixed(h, g, p, i, i)
  <1>1. Frame(h, r, lev) /\ HeapType(h)
    BY DEF Tree, Frame
  <1>2. /\ l # u /\ p # l /\ p # u /\ Len(h[p].key) \in Nat /\ p \in DOMAIN h /\ u \in DOMAIN h
        /\ Len(h[p].child) = Len(h[p].key) + 1 /\ j \in 1 .. Len(h[p].key) /\ h[p] \in NodeType
    BY <1>1, SiblingsAre DEF Siblings
  <1>3. Reshaped(h, g, r, lev, p)
    BY LendReshapes
  <1>4. /\ DOMAIN h = DOMAIN e \cup {u} /\ u \notin DOMAIN e /\ SameOn(e, h, DOMAIN e \ {p, l})
        /\ p \in DOMAIN e /\ DOMAIN g = DOMAIN e \cup {u} /\ SameOn(e, g, DOMAIN e \ {p, l})
        /\ HeapType(g) /\ Shaped(g) /\ ~g[p].leaf /\ g[p].child[j] = l /\ g[p].child[j + 1] = u
    BY DEF Divided
  <1>5. Sized(g, r) /\ Len(g[to].key) >= MinDegree
    <2>1. /\ DOMAIN g = DOMAIN h /\ from # to /\ {from, to} = {l, u}
          /\ SameOn(h, g, DOMAIN h \ {p, l, u}) /\ ~g[p].leaf
      BY <1>2, <1>4 DEF SameOn
    <2>2. QED
      BY <1>4, <2>1, SizedLend
  <1>6. Len(g[p].key) = Len(h[p].key) /\ p \in DOMAIN g
    BY <1>4 DEF Lent
  <1>7. Len(g[p].child) = Len(h[p].child)
    BY <1>2, <1>4, <1>6 DEF Shaped, ShapedNode
  <1>8. g[p].child[i] = to /\ i \in 1 .. Len(g[p].child) /\ (i = 1 => i = 1)
    BY <1>2, <1>4, <1>7
  <1>9. ASSUME NEW k \in Int, Between(h[p], i, k) PROVE Between(g[p], i, k)
    <2>1. g[p].key[j] = m /\ \A a \in 1 .. Len(h[p].key) : a # j => g[p].key[a] = h[p].key[a]
      <3>1. h[p].key \in Seq(Keys)
        BY <1>2 DEF NodeType
      <3>2. QED
        BY <1>2, <3>1 DEF Patched
    <2>2. Ints(h[p].key, Len(h[p].key))
      BY <1>1, <1>2, NodeTypes DEF Ints
    <2>3. Crossed(h[p].key, j, m, i) /\ Replaced(g[p].key, h[p].key, j, m)
      BY <1>2, <1>6, <2>1 DEF Crossed, Replaced
    <2>4. QED
      BY <1>2, <1>9, <2>2, <2>3, LentBetween
  <1>10. Fixed(h, g, p, i, i)
    BY <1>4, <1>5, <1>6, <1>7, <1>8, <1>9 DEF Fixed, KidSize
  <1>11. QED
    BY <1>3, <1>5, <1>10

(* So does merging.                                                         *)
LEMMA SizedMelt ==
  ASSUME NEW h, NEW r, NEW lev, NEW K, Tree(h, r, lev, K), NEW p, Losable(h, r, p),
         NEW j, NEW l, NEW u, Siblings(h, p, j, l, u), NEW e, Divided(e, h, p, l, u, j),
         Len(h[p].key) > 1,
         Len(e[l].key) = Len(h[l].key) + 1 + Len(h[u].key), Len(e[p].key) = Len(h[p].key) - 1,
         Len(h[l].key) < MinDegree, Len(h[u].key) < MinDegree
  PROVE  Sized(e, r) /\ Len(e[l].key) >= MinDegree
  <1>1. Frame(h, r, lev) /\ HeapType(h) /\ Wired(h, r)
    BY DEF Tree, Frame
  <1>2. /\ l \in DOMAIN h \ {r} /\ u \in DOMAIN h \ {r} /\ l # u /\ p # l /\ p # u
        /\ Len(h[p].key) \in Nat
    BY <1>1, SiblingsAre
  <1>3. Len(h[l].key) \in Nat /\ Len(h[u].key) \in Nat /\ MinDegree \in Nat /\ MinDegree >= 2
    BY <1>1, <1>2, BTreeAssumption, NodeTypes
  <1>4. \A n \in DOMAIN h : SizedNode(h[n], n = r)
    BY DEF Losable, Sized
  <1>5. DOMAIN h = DOMAIN e \cup {u} /\ u \notin DOMAIN e /\ SameOn(e, h, DOMAIN e \ {p, l})
    BY DEF Divided
  <1>6. Len(h[l].key) = MinDegree - 1 /\ Len(h[u].key) = MinDegree - 1
    BY <1>2, <1>3, <1>4 DEF SizedNode
  <1>7. Len(e[l].key) = Full /\ Full >= MinDegree /\ Full >= 1 /\ Full >= MinDegree - 1
    BY <1>3, <1>6 DEF Full
  <1>8. ASSUME NEW n \in DOMAIN e PROVE SizedNode(e[n], n = r)
    <2>1. CASE n = p
      <3>1. Len(h[p].key) <= Full /\ (p = r \/ Len(h[p].key) >= MinDegree) /\ p \in DOMAIN h
        BY <1>4 DEF SizedNode, Losable
      <3>2. Len(e[p].key) <= Full /\ (p # r => Len(e[p].key) >= MinDegree - 1) /\ Len(e[p].key) >= 1
        BY <1>2, <1>3, <3>1 DEF Full
      <3>3. QED
        BY <2>1, <3>2 DEF SizedNode
    <2>2. CASE n = l
      <3>1. Len(e[n].key) <= Full
        BY <1>3, <1>7, <2>2 DEF Full
      <3>2. QED
        BY <1>7, <2>2, <3>1 DEF SizedNode
    <2>3. CASE n # p /\ n # l
      <3>1. n \in DOMAIN h /\ e[n] = h[n]
        BY <1>5, <2>3 DEF SameOn
      <3>2. QED
        BY <1>4, <3>1
    <2>4. QED
      BY <2>1, <2>2, <2>3
  <1>9. QED
    BY <1>7, <1>8 DEF Sized

LEMMA MeltFixed ==
  ASSUME NEW h, NEW r, NEW lev, NEW K, Tree(h, r, lev, K), NEW p, Losable(h, r, p),
         NEW j, NEW l, NEW u, Siblings(h, p, j, l, u),
         Len(h[p].key) > 1, Len(h[l].key) < MinDegree, Len(h[u].key) < MinDegree,
         NEW i \in {j, j + 1}
  PROVE  Reshaped(h, Melt(h, p, j), r, lev, p) /\ Sized(Melt(h, p, j), r) /\ Fixed(h, Melt(h, p, j), p, i, j)
         /\ Melt(h, p, j)[p].child[j] = l
  <1> PICK e : e = Melt(h, p, j)
    OBVIOUS
  <1>1. Frame(h, r, lev) /\ HeapType(h)
    BY DEF Tree, Frame
  <1>2. /\ p # l /\ Len(h[p].key) \in Nat
        /\ Len(h[p].child) = Len(h[p].key) + 1 /\ j \in 1 .. Len(h[p].key)
    <2>1. p # l /\ Len(h[p].key) \in Nat /\ Len(h[p].child) = Len(h[p].key) + 1
      BY <1>1, SiblingsAre
    <2>2. QED
      BY <2>1 DEF Siblings
  <1>3. /\ Divided(e, h, p, l, u, j)
        /\ Len(e[l].key) = Len(h[l].key) + 1 + Len(h[u].key) /\ Len(e[p].key) = Len(h[p].key) - 1
    <2>1. /\ Divided(Melt(h, p, j), h, p, l, u, j)
          /\ Len(Melt(h, p, j)[l].key) = Len(h[l].key) + 1 + Len(h[u].key)
          /\ Len(Melt(h, p, j)[p].key) = Len(h[p].key) - 1
      BY <1>1, MeltIs
    <2>2. QED
      BY <2>1
  <1>4. Reshaped(h, e, r, lev, p)
    BY <1>3, MeltReshapes
  <1>5. Sized(e, r) /\ Len(e[l].key) >= MinDegree
    BY <1>3, SizedMelt
  <1>6. /\ p \in DOMAIN e /\ Shaped(e) /\ ~e[p].leaf /\ e[p].child[j] = l
        /\ Without(e[p].key, h[p].key, j)
    BY <1>3 DEF Divided
  <1>7. Len(e[p].child) = Len(e[p].key) + 1
    BY <1>6 DEF Shaped, ShapedNode
  <1>8. j \in 1 .. Len(e[p].child) /\ (i = 1 => j = 1) /\ (i = Len(h[p].child) => j = Len(e[p].child))
    BY <1>2, <1>3, <1>7
  <1>9. Len(e[p].key) \in Nat
    BY <1>2, <1>3
  <1>10. ASSUME NEW k \in Int, Between(h[p], i, k) PROVE Between(e[p], j, k)
    BY <1>6, <1>9, <1>10, MeltBetween
  <1>11. Fixed(h, e, p, i, j)
    BY <1>5, <1>6, <1>8, <1>10 DEF Fixed, KidSize
  <1>12. QED
    BY <1>4, <1>5, <1>6, <1>11

(* The root r has gone, and s, its only child at the end, is the root of g. *)
Vanished(h, g, r, s, lev) ==
  /\ \E G : Tree(g, s, lev, G)
  /\ \A V : Total(KeysOf(g), V) = Total(KeysOf(h), V)
  /\ Sized(g, s) /\ s # r /\ s \in DOMAIN g /\ s \in DOMAIN h
  /\ lev[s] \in Nat /\ lev[s] + 1 = lev[r]
  /\ Len(g[s].key) >= MinDegree

(* Merging the only two children of the root leaves them as the root.       *)
LEMMA MergeVanishes ==
  ASSUME NEW h, NEW r, NEW lev, NEW K, Tree(h, r, lev, K), NEW p, Losable(h, r, p),
         NEW j, NEW l, NEW u, Siblings(h, p, j, l, u),
         Len(h[p].key) = 1, Len(h[l].key) < MinDegree, Len(h[u].key) < MinDegree
  PROVE  p = r /\ Vanished(h, MergeChildren(h, r, p, j).node, r, l, lev)
  <1> PICK e : e = Melt(h, p, j)
    OBVIOUS
  <1> PICK f : f = MergeChildren(h, r, p, j).node
    OBVIOUS
  <1>1. Frame(h, r, lev) /\ HeapType(h)
    BY DEF Tree, Frame
  <1>2. /\ l \in DOMAIN h \ {r} /\ u \in DOMAIN h \ {r} /\ l # u /\ p # l /\ p # u
        /\ lev[l] \in Nat /\ lev[p] \in Nat /\ lev[l] + 1 = lev[p]
    BY <1>1, SiblingsAre
  <1>3. p = r
    <2>1. ~(1 >= MinDegree)
      BY BTreeAssumption
    <2>2. QED
      BY <2>1 DEF Losable
  <1>4. Divided(e, h, p, l, u, j) /\ Len(e[l].key) = Len(h[l].key) + 1 + Len(h[u].key)
    <2>1. /\ Divided(Melt(h, p, j), h, p, l, u, j)
          /\ Len(Melt(h, p, j)[l].key) = Len(h[l].key) + 1 + Len(h[u].key)
          /\ Len(Melt(h, p, j)[p].key) = Len(h[p].key) - 1
      BY <1>1, MeltIs
    <2>2. QED
      BY <2>1
  <1>5. Capped(f, e, l, p)
    BY <1>1, MergeIs
  <1>6. Reshaped(h, e, r, lev, p)
    BY <1>4, MeltReshapes
  <1>7. PICK G : Tree(e, r, lev, G)
    BY <1>6 DEF Reshaped
  <1>8. Tree(f, l, lev, G)
    BY <1>3, <1>5, <1>7, TreeUncaps
  <1>9. \A V : Total(KeysOf(f), V) = Total(KeysOf(h), V)
    <2>1. \A V : Total(KeysOf(e), V) = Total(KeysOf(f), V)
      BY <1>5, CappedTotals
    <2>2. QED
      BY <1>6, <2>1 DEF Reshaped
  <1>10. /\ l \in DOMAIN f /\ DOMAIN e = DOMAIN f \cup {p} /\ p \notin DOMAIN f
         /\ \A n \in DOMAIN f : e[n] = f[n]
    BY <1>5 DEF Capped, SameOn
  <1>11. DOMAIN h = DOMAIN e \cup {u} /\ \A n \in DOMAIN e \ {p, l} : h[n] = e[n]
    BY <1>4 DEF Divided, SameOn
  <1>12. \A n \in DOMAIN h : SizedNode(h[n], n = r)
    BY DEF Losable, Sized
  <1>13. Len(f[l].key) >= MinDegree /\ Len(f[l].key) <= Full /\ Len(f[l].key) >= 1
    <2>1. /\ Len(h[l].key) \in Nat /\ Len(h[u].key) \in Nat /\ MinDegree \in Nat /\ MinDegree >= 2
      BY <1>1, <1>2, BTreeAssumption, NodeTypes
    <2>2. Len(h[l].key) >= MinDegree - 1 /\ Len(h[u].key) >= MinDegree - 1
      BY <1>2, <1>12 DEF SizedNode
    <2>3. Len(f[l].key) = Len(h[l].key) + 1 + Len(h[u].key)
      BY <1>4, <1>10
    <2>4. \A a, b \in Nat, t \in Nat : a >= t - 1 /\ b >= t - 1 /\ a < t /\ b < t /\ t >= 2
            => a + 1 + b >= t /\ a + 1 + b <= 2 * t - 1 /\ a + 1 + b >= 1
      OBVIOUS
    <2>5. QED
      BY <2>1, <2>2, <2>3, <2>4 DEF Full
  <1>14. ASSUME NEW n \in DOMAIN f PROVE SizedNode(f[n], n = l)
    <2>1. CASE n = l
      BY <1>13, <2>1 DEF SizedNode
    <2>2. CASE n # l
      <3>1. n \in DOMAIN h /\ n # r /\ f[n] = h[n]
        BY <1>3, <1>10, <1>11, <2>2
      <3>2. SizedNode(h[n], n = r)
        BY <1>12, <3>1
      <3>3. QED
        BY <3>1, <3>2 DEF SizedNode
    <2>3. QED
      BY <2>1, <2>2
  <1>15. Sized(f, l)
    BY <1>14 DEF Sized
  <1>16. QED
    BY <1>2, <1>3, <1>8, <1>9, <1>10, <1>13, <1>15 DEF Vanished

(* What mergeChildren does at the key j of p, seen from the place i.        *)
Kept(h, g, r, lev, p, i) ==
  Reshaped(h, g, r, lev, p) /\ Sized(g, r) /\ \E q : Fixed(h, g, p, i, q)

LEMMA MergeEffect ==
  ASSUME NEW h, NEW r, NEW lev, NEW K, Tree(h, r, lev, K), NEW p, Losable(h, r, p),
         NEW j, NEW l, NEW u, Siblings(h, p, j, l, u),
         Len(h[l].key) < MinDegree, Len(h[u].key) < MinDegree,
         NEW i \in {j, j + 1}, NEW m, m = MergeChildren(h, r, p, j)
  PROVE  /\ Len(h[p].key) > 1 => m.root = r /\ Kept(h, m.node, r, lev, p, i) /\ m.node = Melt(h, p, j)
         /\ Len(h[p].key) = 1 => p = r /\ m.root = l /\ Vanished(h, m.node, r, l, lev)
         /\ Len(h[p].key) > 1 \/ Len(h[p].key) = 1
  <1>1. Frame(h, r, lev)
    BY DEF Tree
  <1>2. Len(h[p].key) > 1 => m.node = Melt(h, p, j) /\ m.root = r
    BY <1>1, MergeIs
  <1>3. Len(h[p].key) = 1 => m.root = l
    BY <1>1, MergeIs
  <1>4. ASSUME Len(h[p].key) > 1 PROVE Kept(h, m.node, r, lev, p, i)
    <2>1. /\ Reshaped(h, Melt(h, p, j), r, lev, p) /\ Sized(Melt(h, p, j), r)
          /\ Fixed(h, Melt(h, p, j), p, i, j)
      BY <1>4, MeltFixed
    <2>2. QED
      BY <1>2, <1>4, <2>1 DEF Kept
  <1>5. ASSUME Len(h[p].key) = 1 PROVE p = r /\ Vanished(h, m.node, r, l, lev)
    BY <1>5, MergeVanishes
  <1>6. Len(h[p].key) > 1 \/ Len(h[p].key) = 1
    <2>1. Len(h[p].key) \in Nat
      BY <1>1, SiblingsAre
    <2>2. j \in 1 .. Len(h[p].key)
      BY DEF Siblings
    <2>3. \A n \in Nat : j \in 1 .. n => n > 1 \/ n = 1
      OBVIOUS
    <2>4. QED
      BY <2>1, <2>2, <2>3
  <1>7. QED
    BY <1>2, <1>3, <1>4, <1>5, <1>6

(* fixChildSize keeps the tree, the keys and what is not below p, and       *)
(* leaves at least t keys in the child to go on with, or in the new root.   *)
LEMMA FixIs ==
  ASSUME NEW h, NEW r, NEW lev, NEW K, Tree(h, r, lev, K), NEW p, Losable(h, r, p),
         NEW i \in 1 .. Len(h[p].child), NEW f, f = FixChildSize(h, r, p, i)
  PROVE  \/ f.root = r /\ Kept(h, f.node, r, lev, p, i)
         \/ p = r /\ f.root # r /\ Vanished(h, f.node, r, f.root, lev)
  <1>1. Frame(h, r, lev) /\ HeapType(h) /\ Shaped(h)
    BY DEF Tree, Frame
  <1>2. p \in DOMAIN h /\ ~h[p].leaf /\ \A n \in DOMAIN h : SizedNode(h[n], n = r)
    BY DEF Losable, Sized
  <1>3. Len(h[p].key) \in Nat /\ Len(h[p].child) = Len(h[p].key) + 1 /\ Len(h[p].key) >= 1
    <2>1. Len(h[p].child) = Len(h[p].key) + 1 /\ Len(h[p].key) \in Nat
      BY <1>1, <1>2, KidsCount
    <2>2. QED
      BY <1>2, <2>1 DEF SizedNode
  <1>4. MinDegree \in Nat /\ MinDegree >= 2
    BY BTreeAssumption
  <1>5. ASSUME NEW j \in 1 .. Len(h[p].key) + 1 PROVE KidSize(h, p, j) \in Nat
    <2>1. h[p].child[j] \in DOMAIN h
      BY <1>1, <1>2, <1>3, ChildIs
    <2>2. QED
      BY <1>1, <2>1, NodeTypes DEF KidSize
  <1>6. \A j \in 1 .. Len(h[p].key) : Siblings(h, p, j, h[p].child[j], h[p].child[j + 1])
    BY <1>2 DEF Siblings
  <1>7. i \in Nat /\ i >= 1 /\ i <= Len(h[p].key) + 1
    BY <1>3
  <1>8. \/ KidSize(h, p, i) >= MinDegree /\ f = [node |-> h, root |-> r]
        \/ /\ KidSize(h, p, i) < MinDegree /\ i > 1 /\ KidSize(h, p, i - 1) >= MinDegree
           /\ f = [node |-> BorrowLeft(h, p, i), root |-> r]
        \/ /\ KidSize(h, p, i) < MinDegree /\ i <= Len(h[p].key) /\ KidSize(h, p, i + 1) >= MinDegree
           /\ f = [node |-> BorrowRight(h, p, i), root |-> r]
        \/ \E j \in 1 .. Len(h[p].key) :
             /\ i \in {j, j + 1} /\ KidSize(h, p, j) < MinDegree /\ KidSize(h, p, j + 1) < MinDegree
             /\ f = MergeChildren(h, r, p, j)
    BY <1>3, <1>4, <1>5, <1>7, FixCases, SMTT(40)
  <1>9. CASE KidSize(h, p, i) >= MinDegree /\ f = [node |-> h, root |-> r]
    <2>1. f.root = r /\ f.node = h
      BY <1>9
    <2>2. Reshaped(h, h, r, lev, p) /\ Sized(h, r)
      BY SameReshaped DEF Losable
    <2>3. Fixed(h, h, p, i, i)
      BY <1>2, <1>9 DEF Fixed
    <2>4. QED
      BY <2>1, <2>2, <2>3 DEF Kept
  <1>10. CASE /\ KidSize(h, p, i) < MinDegree /\ i > 1 /\ KidSize(h, p, i - 1) >= MinDegree
              /\ f = [node |-> BorrowLeft(h, p, i), root |-> r]
    <2> PICK j : j = i - 1
      OBVIOUS
    <2> PICK l : l = h[p].child[j]
      OBVIOUS
    <2> PICK u : u = h[p].child[i]
      OBVIOUS
    <2> PICK g : g = BorrowLeft(h, p, i)
      OBVIOUS
    <2>1. j \in 1 .. Len(h[p].key) /\ i = j + 1
      BY <1>7, <1>10
    <2>2. Siblings(h, p, j, l, u)
      BY <1>6, <2>1
    <2>3. Len(h[l].key) >= MinDegree /\ Len(h[u].key) < MinDegree
      BY <1>10 DEF KidSize
    <2>4. l \in DOMAIN h /\ u \in DOMAIN h
      BY <1>1, <2>2, SiblingsAre
    <2>5. Len(h[l].key) \in Nat /\ Len(h[l].key) >= 1
      BY <1>1, <1>4, <2>3, <2>4, NodeTypes
    <2>6. /\ Divided(Melt(h, p, j), g, p, l, u, j) /\ Lent(h, g, p, l, u)
          /\ Patched(g[p].key, h[p].key, j, LastKey(h[l]))
      <3>1. /\ Divided(Melt(h, p, j), BorrowLeft(h, p, j + 1), p, l, u, j)
            /\ Lent(h, BorrowLeft(h, p, j + 1), p, l, u)
            /\ Patched(BorrowLeft(h, p, j + 1)[p].key, h[p].key, j, LastKey(h[l]))
        BY <2>2, <2>5, BorrowLeftIs
      <3>2. QED
        BY <2>1, <3>1
    <2>7. Divided(Melt(h, p, j), h, p, l, u, j)
      BY <1>1, <2>2, MeltIs
    <2>8. LastKey(h[l]) \in Int /\ LastKey(h[l]) <= h[p].key[j]
      <3>1. /\ Ints(h[l].key, Len(h[l].key))
            /\ \A q \in 1 .. Len(h[l].key) : h[l].key[q] <= h[p].key[j]
        BY <2>2, BrothersApart
      <3>2. Len(h[l].key) \in 1 .. Len(h[l].key)
        BY <2>5
      <3>3. QED
        BY <3>1, <3>2 DEF LastKey, Ints
    <2>9. Reshaped(h, g, r, lev, p) /\ Sized(g, r) /\ Fixed(h, g, p, i, i)
      BY <2>1, <2>2, <2>3, <2>6, <2>7, <2>8, LentFixed
    <2>10. f.node = g /\ f.root = r
      BY <1>10
    <2>11. QED
      BY <2>9, <2>10 DEF Kept
  <1>11. CASE /\ KidSize(h, p, i) < MinDegree /\ i <= Len(h[p].key) /\ KidSize(h, p, i + 1) >= MinDegree
              /\ f = [node |-> BorrowRight(h, p, i), root |-> r]
    <2> PICK l : l = h[p].child[i]
      OBVIOUS
    <2> PICK u : u = h[p].child[i + 1]
      OBVIOUS
    <2> PICK g : g = BorrowRight(h, p, i)
      OBVIOUS
    <2>1. i \in 1 .. Len(h[p].key)
      BY <1>7, <1>11
    <2>2. Siblings(h, p, i, l, u)
      BY <1>6, <2>1
    <2>3. Len(h[u].key) >= MinDegree /\ Len(h[l].key) < MinDegree
      BY <1>11 DEF KidSize
    <2>4. l \in DOMAIN h /\ u \in DOMAIN h
      BY <1>1, <2>2, SiblingsAre
    <2>5. Len(h[u].key) \in Nat /\ Len(h[u].key) >= 1
      BY <1>1, <1>4, <2>3, <2>4, NodeTypes
    <2>6. /\ Divided(Melt(h, p, i), g, p, l, u, i) /\ Lent(h, g, p, u, l)
          /\ Patched(g[p].key, h[p].key, i, h[u].key[1])
      <3>1. /\ Divided(Melt(h, p, i), BorrowRight(h, p, i), p, l, u, i)
            /\ Lent(h, BorrowRight(h, p, i), p, u, l)
            /\ Patched(BorrowRight(h, p, i)[p].key, h[p].key, i, h[u].key[1])
        BY <2>2, <2>5, BorrowRightIs
      <3>2. QED
        BY <3>1
    <2>7. Divided(Melt(h, p, i), h, p, l, u, i)
      BY <1>1, <2>2, MeltIs
    <2>8. h[u].key[1] \in Int /\ h[p].key[i] <= h[u].key[1]
      <3>1. /\ Ints(h[u].key, Len(h[u].key))
            /\ \A q \in 1 .. Len(h[u].key) : h[p].key[i] <= h[u].key[q]
        BY <2>2, BrothersApart
      <3>2. 1 \in 1 .. Len(h[u].key)
        BY <2>5
      <3>3. QED
        BY <3>1, <3>2 DEF Ints
    <2>9. Reshaped(h, g, r, lev, p) /\ Sized(g, r) /\ Fixed(h, g, p, i, i)
      BY <2>2, <2>3, <2>6, <2>7, <2>8, LentFixed
    <2>10. f.node = g /\ f.root = r
      BY <1>11
    <2>11. QED
      BY <2>9, <2>10 DEF Kept
  <1>12. ASSUME NEW j \in 1 .. Len(h[p].key), i \in {j, j + 1}, KidSize(h, p, j) < MinDegree,
                KidSize(h, p, j + 1) < MinDegree, f = MergeChildren(h, r, p, j)
         PROVE  \/ f.root = r /\ Kept(h, f.node, r, lev, p, i)
                \/ p = r /\ f.root # r /\ Vanished(h, f.node, r, f.root, lev)
    <2> PICK l : l = h[p].child[j]
      OBVIOUS
    <2> PICK u : u = h[p].child[j + 1]
      OBVIOUS
    <2>1. Siblings(h, p, j, l, u)
      BY <1>6
    <2>2. Len(h[l].key) < MinDegree /\ Len(h[u].key) < MinDegree
      BY <1>12 DEF KidSize
    <2>3. /\ Len(h[p].key) > 1 => f.root = r /\ Kept(h, f.node, r, lev, p, i) /\ f.node = Melt(h, p, j)
          /\ Len(h[p].key) = 1 => p = r /\ f.root = l /\ Vanished(h, f.node, r, l, lev)
          /\ Len(h[p].key) > 1 \/ Len(h[p].key) = 1
      BY <1>12, <2>1, <2>2, MergeEffect
    <2>4. QED
      BY <2>3 DEF Vanished
  <1>13. QED
    BY <1>8, <1>9, <1>10, <1>11, <1>12

----------------------------------------------------------------------------
(* Fences that let a key through                                           *)

(* The key belongs at place i.                                              *)
Slot(x, i, k) == \A a \in 1 .. Len(x.key) : IF a < i THEN x.key[a] <= k ELSE k <= x.key[a]

(* A wider fence around a node c, when it has room in its parent.           *)
LEMMA FenceWidens ==
  ASSUME NEW h, HeapType(h), NEW K, Fenced(h, K), NEW c \in Nodes, NEW k \in Int,
         \A n \in DOMAIN h : c \in KidSet(h[n]) =>
           k \in K[n] /\ \A i \in 1 .. Len(h[n].child) : h[n].child[i] = c => Slot(h[n], i, k)
  PROVE  Fenced(h, [K EXCEPT ![c] = @ \cup {k}])
  <1> PICK G : G = [K EXCEPT ![c] = @ \cup {k}]
    OBVIOUS
  <1>1. K \in [Nodes -> SUBSET Int] /\ \A n \in DOMAIN h : FencedNode(h[n], K[n], K)
    BY DEF Fenced
  <1>2. /\ G \in [Nodes -> SUBSET Int] /\ G[c] = K[c] \cup {k} /\ \A n \in Nodes \ {c} : G[n] = K[n]
        /\ \A n \in Nodes : K[n] \subseteq G[n]
    BY <1>1
  <1>3. ASSUME NEW n \in DOMAIN h PROVE FencedNode(h[n], G[n], G)
    <2>1. /\ n \in Nodes /\ Len(h[n].key) \in Nat /\ Len(h[n].child) \in Nat
          /\ \A i \in 1 .. Len(h[n].child) : h[n].child[i] \in Nodes
          /\ \A i \in 1 .. Len(h[n].key) : h[n].key[i] \in Int
      BY <1>3, NodeTypes
    <2>2. Holds(h[n], K[n], K) /\ Rising(h[n]) /\ Beside(h[n], K)
      BY <1>1 DEF FencedNode
    <2>3. KidSet(h[n]) \subseteq Nodes
      BY <2>1 DEF KidSet, Elements
    <2>4. Holds(h[n], G[n], G)
      <3>1. \A i \in 1 .. Len(h[n].key) : h[n].key[i] \in G[n]
        BY <1>2, <2>1, <2>2 DEF Holds
      <3>2. ASSUME NEW d \in KidSet(h[n]) PROVE G[d] \subseteq G[n]
        <4>1. K[d] \subseteq K[n] /\ d \in Nodes
          BY <2>2, <2>3 DEF Holds
        <4>2. CASE d = c
          <5>1. k \in K[n]
            BY <4>2
          <5>2. QED
            BY <1>2, <2>1, <4>1, <4>2, <5>1
        <4>3. CASE d # c
          BY <1>2, <2>1, <4>1, <4>3
        <4>4. QED
          BY <4>2, <4>3
      <3>3. QED
        BY <3>1, <3>2 DEF Holds
    <2>5. Beside(h[n], G)
      <3>1. ASSUME NEW i \in 1 .. Len(h[n].key), NEW j \in 1 .. Len(h[n].child), NEW v \in G[h[n].child[j]]
            PROVE  IF j <= i THEN v <= h[n].key[i] ELSE h[n].key[i] <= v
        <4>1. CASE v \in K[h[n].child[j]]
          BY <2>2, <4>1 DEF Beside, Apart
        <4>2. CASE v \notin K[h[n].child[j]]
          <5>1. h[n].child[j] = c /\ v = k
            BY <1>2, <2>1, <4>2
          <5>2. c \in KidSet(h[n])
            BY <5>1 DEF KidSet, Elements
          <5>3. Slot(h[n], j, k)
            BY <5>1, <5>2
          <5>4. IF i < j THEN h[n].key[i] <= k ELSE k <= h[n].key[i]
            BY <5>3 DEF Slot
          <5>5. QED
            BY <2>1, <5>1, <5>4
        <4>3. QED
          BY <4>1, <4>2
      <3>2. QED
        BY <3>1 DEF Beside, Apart
    <2>6. QED
      BY <2>2, <2>4, <2>5 DEF FencedNode
  <1>4. QED
    BY <1>2, <1>3 DEF Fenced

(* Any key may be let through at the root.                                  *)
LEMMA RootWidens ==
  ASSUME NEW h, NEW r, NEW lev, NEW K, Tree(h, r, lev, K), NEW k \in Int
  PROVE  Tree(h, r, lev, [K EXCEPT ![r] = @ \cup {k}])
  <1>1. Frame(h, r, lev) /\ HeapType(h) /\ Fenced(h, K) /\ Wired(h, r)
    BY DEF Tree, Frame
  <1>2. OneParent(h, r) /\ r \in Nodes
    BY <1>1, WiredKids DEF Wired, HeapType
  <1>3. \A n \in DOMAIN h : r \notin KidSet(h[n])
    BY <1>2 DEF OneParent
  <1>4. Fenced(h, [K EXCEPT ![r] = @ \cup {k}])
    BY <1>1, <1>2, <1>3, FenceWidens
  <1>5. QED
    BY <1>1, <1>4 DEF Tree

(* A key may be let through at a child when it belongs there.               *)
LEMMA KidWidens ==
  ASSUME NEW h, NEW r, NEW lev, NEW K, Tree(h, r, lev, K), NEW x \in DOMAIN h,
         NEW i \in 1 .. Len(h[x].child), NEW c, c = h[x].child[i],
         NEW k \in Int, k \in K[x], Slot(h[x], i, k)
  PROVE  Tree(h, r, lev, [K EXCEPT ![c] = @ \cup {k}])
  <1>1. Frame(h, r, lev) /\ HeapType(h) /\ Fenced(h, K) /\ Wired(h, r)
    BY DEF Tree, Frame
  <1>2. Once(h) /\ c \in Nodes
    BY <1>1, WiredSays, NodeTypes
  <1>3. ASSUME NEW n \in DOMAIN h, c \in KidSet(h[n])
        PROVE  k \in K[n] /\ \A j \in 1 .. Len(h[n].child) : h[n].child[j] = c => Slot(h[n], j, k)
    <2>1. \A j \in 1 .. Len(h[n].child) : h[n].child[j] = c => n = x /\ j = i
      BY <1>2 DEF Once
    <2>2. \E j \in 1 .. Len(h[n].child) : h[n].child[j] = c
      BY <1>3 DEF KidSet, Elements
    <2>3. QED
      BY <2>1, <2>2
  <1>4. Fenced(h, [K EXCEPT ![c] = @ \cup {k}])
    BY <1>1, <1>2, <1>3, FenceWidens
  <1>5. QED
    BY <1>1, <1>4 DEF Tree

----------------------------------------------------------------------------
(* Keys that change in place                                               *)

(* g is h with other keys in the same nodes.                                *)
SameShape(h, g) ==
  /\ HeapType(g) /\ Shaped(g) /\ DOMAIN g = DOMAIN h
  /\ \A n \in DOMAIN h : g[n].leaf = h[n].leaf /\ g[n].child = h[n].child

LEMMA FrameSame ==
  ASSUME NEW h, NEW g, SameShape(h, g), NEW r, NEW lev, Frame(h, r, lev)
  PROVE  Frame(g, r, lev)
  <1>1. HeapType(g) /\ Shaped(g) /\ Wired(h, r) /\ Levelled(h, lev)
    BY DEF SameShape, Frame
  <1>2. KidsOf(g) = KidsOf(h)
    BY DEF SameShape, KidsOf
  <1>3. Wired(g, r)
    BY <1>1, <1>2 DEF Wired, SameShape
  <1>4. Levelled(g, lev)
    BY <1>1 DEF SameShape, Levelled, LevelledNode, KidSet
  <1>5. QED
    BY <1>1, <1>3, <1>4 DEF Frame

LEMMA UpInserted ==
  ASSUME NEW s, NEW w, NEW i, NEW k \in Int, Len(s) \in Nat, Ints(s, Len(s)), Up(s, Len(s)),
         Without(s, w, i), w[i] = k,
         \A a \in 1 .. Len(s) : IF a < i THEN s[a] <= k ELSE k <= s[a]
  PROVE  Up(w, Len(w))
  <1> PICK n \in Nat : n = Len(s)
    OBVIOUS
  <1>1. i \in 1 .. n + 1 /\ Len(w) = n + 1 /\ \A j \in 1 .. n : s[j] = IF j < i THEN w[j] ELSE w[j + 1]
    BY DEF Without
  <1>2. \A a \in 1 .. n : s[a] \in Int
    BY DEF Ints
  <1>3. \A a, b \in 1 .. n : a <= b => s[a] <= s[b]
    BY DEF Up
  <1>4. \A a \in 1 .. n + 1 : /\ a < i => a \in 1 .. n /\ w[a] = s[a]
                              /\ a > i => a - 1 \in 1 .. n /\ w[a] = s[a - 1]
    <2>1. \A a \in 1 .. n + 1 : a < i => a \in 1 .. n /\ w[a] = s[a]
      BY <1>1
    <2>2. ASSUME NEW a \in 1 .. n + 1, a > i PROVE a - 1 \in 1 .. n /\ w[a] = s[a - 1]
      <3>1. a - 1 \in 1 .. n /\ ~(a - 1 < i) /\ (a - 1) + 1 = a
        BY <1>1, <2>2
      <3>2. s[a - 1] = w[(a - 1) + 1]
        BY <1>1, <3>1
      <3>3. QED
        BY <3>1, <3>2
    <2>3. QED
      BY <2>1, <2>2
  <1>5. ASSUME NEW a \in 1 .. n + 1, NEW b \in 1 .. n + 1, a <= b PROVE w[a] <= w[b]
    <2>1. CASE b < i
      BY <1>1, <1>3, <1>4, <1>5, <2>1
    <2>2. CASE a > i
      <3>1. b > i /\ a - 1 <= b - 1
        BY <1>1, <1>5, <2>2
      <3>2. QED
        BY <1>3, <1>4, <2>2, <3>1
    <2>3. CASE a < i /\ b = i
      BY <1>4, <2>3
    <2>4. CASE a = i /\ b > i
      <3>1. b - 1 \in 1 .. n /\ ~(b - 1 < i) /\ w[b] = s[b - 1]
        BY <1>1, <1>4, <2>4
      <3>2. QED
        BY <2>4, <3>1
    <2>5. CASE a < i /\ b > i
      <3>1. a \in 1 .. n /\ w[a] = s[a] /\ b - 1 \in 1 .. n /\ w[b] = s[b - 1] /\ a <= b - 1
        BY <1>1, <1>4, <2>5
      <3>2. QED
        BY <1>3, <3>1
    <2>6. CASE a = i /\ b = i
      BY <2>6
    <2>7. QED
      BY <1>1, <1>5, <2>1, <2>2, <2>3, <2>4, <2>5, <2>6
  <1>6. QED
    BY <1>1, <1>5 DEF Up

LEMMA UpWithout ==
  ASSUME NEW v, NEW w, NEW i, Len(v) \in Nat, Without(v, w, i), Up(w, Len(w))
  PROVE  Up(v, Len(v))
  <1> PICK n \in Nat : n = Len(v)
    OBVIOUS
  <1>1. i \in 1 .. n + 1 /\ Len(w) = n + 1 /\ \A j \in 1 .. n : v[j] = IF j < i THEN w[j] ELSE w[j + 1]
    BY DEF Without
  <1>2. \A a, b \in 1 .. n + 1 : a <= b => w[a] <= w[b]
    BY <1>1 DEF Up
  <1> PICK at : at = [j \in 1 .. n |-> IF j < i THEN j ELSE j + 1]
    OBVIOUS
  <1>3. \A j \in 1 .. n : at[j] \in 1 .. n + 1 /\ v[j] = w[at[j]]
    BY <1>1
  <1>4. \A a, b \in 1 .. n : a <= b => at[a] <= at[b]
    BY <1>1
  <1>5. \A a, b \in 1 .. n : a <= b => v[a] <= v[b]
    BY <1>2, <1>3, <1>4
  <1>6. QED
    BY <1>5 DEF Up

(* The elements of a list with one more.                                    *)
LEMMA AllWithout ==
  ASSUME NEW v, NEW w, NEW i, Len(v) \in Nat, Without(v, w, i), NEW S
  PROVE  (\A a \in 1 .. Len(w) : w[a] \in S) <=> (\A a \in 1 .. Len(v) : v[a] \in S) /\ w[i] \in S
  <1> PICK n \in Nat : n = Len(v)
    OBVIOUS
  <1>1. i \in 1 .. n + 1 /\ Len(w) = n + 1 /\ \A j \in 1 .. n : v[j] = IF j < i THEN w[j] ELSE w[j + 1]
    BY DEF Without
  <1>2. \A j \in 1 .. n : (j < i => v[j] = w[j]) /\ (~(j < i) => v[j] = w[j + 1])
    BY <1>1
  <1>3. ASSUME \A a \in 1 .. n + 1 : w[a] \in S PROVE (\A a \in 1 .. n : v[a] \in S) /\ w[i] \in S
    BY <1>1, <1>2, <1>3
  <1>4. ASSUME \A a \in 1 .. n : v[a] \in S, w[i] \in S, NEW a \in 1 .. n + 1 PROVE w[a] \in S
    <2>1. CASE a < i
      <3>1. a \in 1 .. n /\ v[a] = w[a]
        BY <1>1, <1>2, <2>1
      <3>2. QED
        BY <1>4, <3>1
    <2>2. CASE a > i
      <3>1. a - 1 \in 1 .. n /\ ~(a - 1 < i) /\ (a - 1) + 1 = a
        BY <1>1, <2>2
      <3>2. v[a - 1] = w[a]
        BY <1>2, <3>1
      <3>3. QED
        BY <1>4, <3>1, <3>2
    <2>3. CASE a = i
      BY <1>4, <2>3
    <2>4. QED
      BY <1>1, <2>1, <2>2, <2>3
  <1>5. QED
    BY <1>1, <1>3, <1>4

(* g is h with other keys in the leaf x.                                    *)
LeafChanged(h, g, x) ==
  /\ x \in DOMAIN h /\ DOMAIN g = DOMAIN h /\ IsHeap(g) /\ SameOn(h, g, DOMAIN h \ {x})
  /\ h[x].leaf /\ g[x] \in NodeType /\ g[x].leaf = h[x].leaf /\ g[x].child = h[x].child

(* The keys of h with those of x exchanged; with k in addition; without k.  *)
Exchanged(h, g, x) ==
  \A V : Total(KeysOf(g), V) = Total(KeysOf(h), V) - CountIn(h[x].key, V) + CountIn(g[x].key, V)
Gained(h, g, k) == \A V : Total(KeysOf(g), V) = Total(KeysOf(h), V) + One(k, V)
Lost(h, g, k)   == \A V : Total(KeysOf(g), V) = Total(KeysOf(h), V) - One(k, V)

LEMMA LeafChangedIs ==
  ASSUME NEW h, NEW r, NEW lev, NEW K, Tree(h, r, lev, K), NEW g, NEW x, LeafChanged(h, g, x),
         AllIn(g[x].key, Len(g[x].key), K[x]), Rising(g[x])
  PROVE  Tree(g, r, lev, K) /\ Exchanged(h, g, x)
  <1>1. Frame(h, r, lev) /\ HeapType(h) /\ Shaped(h) /\ Fenced(h, K)
    BY DEF Tree, Frame
  <1>2. /\ x \in DOMAIN h /\ DOMAIN g = DOMAIN h /\ \A n \in DOMAIN h \ {x} : g[n] = h[n]
        /\ g[x].leaf = h[x].leaf /\ g[x].child = h[x].child /\ h[x].leaf /\ g[x] \in NodeType
        /\ g = [n \in DOMAIN g |-> g[n]]
    BY DEF LeafChanged, SameOn, IsHeap
  <1>3. HeapType(g)
    BY <1>1, <1>2 DEF HeapType
  <1>4. ShapedNode(g[x]) /\ h[x].child = << >> /\ g[x].child = << >>
    BY <1>1, <1>2 DEF Shaped, ShapedNode
  <1>5. Shaped(g)
    BY <1>1, <1>2, <1>4 DEF Shaped
  <1>6. SameShape(h, g)
    BY <1>2, <1>3, <1>5 DEF SameShape
  <1>7. Frame(g, r, lev)
    BY <1>1, <1>6, FrameSame
  <1>8. FencedNode(g[x], K[x], K)
    <2>1. KidSet(g[x]) = {} /\ Len(g[x].child) = 0
      BY <1>4 DEF KidSet, Elements
    <2>2. Holds(g[x], K[x], K)
      BY <2>1 DEF Holds, AllIn
    <2>3. Beside(g[x], K)
      BY <2>1 DEF Beside, Apart
    <2>4. QED
      BY <2>2, <2>3 DEF FencedNode
  <1>9. Fenced(g, K)
    BY <1>1, <1>2, <1>8 DEF Fenced
  <1>10. /\ Lists(KeysOf(h)) /\ DOMAIN KeysOf(h) = DOMAIN h
         /\ \A n \in DOMAIN h : KeysOf(h)[n] = h[n].key
         /\ Lists(KeysOf(g)) /\ DOMAIN KeysOf(g) = DOMAIN g
         /\ \A n \in DOMAIN g : KeysOf(g)[n] = g[n].key
    BY <1>1, <1>3, HeapLists
  <1>11. SameOn(KeysOf(h), KeysOf(g), DOMAIN KeysOf(h) \ {x})
    BY <1>2, <1>10 DEF SameOn
  <1>12. ASSUME NEW V
         PROVE  Total(KeysOf(g), V) = Total(KeysOf(h), V) - CountIn(h[x].key, V) + CountIn(g[x].key, V)
    <2>1. x \in DOMAIN KeysOf(h) /\ DOMAIN KeysOf(g) = DOMAIN KeysOf(h)
      BY <1>2, <1>10
    <2>2. Total(KeysOf(g), V) = Total(KeysOf(h), V) - CountIn(KeysOf(h)[x], V) + CountIn(KeysOf(g)[x], V)
      BY <1>10, <1>11, <2>1, TotalOne
    <2>3. KeysOf(h)[x] = h[x].key /\ KeysOf(g)[x] = g[x].key
      BY <1>2, <1>10
    <2>4. QED
      BY <2>2, <2>3
  <1>13. QED
    BY <1>7, <1>9, <1>12 DEF Tree, Exchanged

Grown(h, x, k) == [h EXCEPT ![x] = NodeInsert(@, k)]

(* A key that is let through to a leaf is put in there.                     *)
LEMMA LeafGrows ==
  ASSUME NEW h, NEW r, NEW lev, NEW K, Tree(h, r, lev, K), NEW x \in DOMAIN h, h[x].leaf,
         NEW k \in Keys, k \in K[x], NEW g, g = Grown(h, x, k)
  PROVE  /\ Tree(g, r, lev, K) /\ LeafChanged(h, g, x) /\ Len(g[x].key) = Len(h[x].key) + 1
         /\ Gained(h, g, k)
  <1> USE DEF Grown
  <1>1. Frame(h, r, lev) /\ HeapType(h) /\ Shaped(h) /\ Fenced(h, K)
    BY DEF Tree, Frame
  <1>2. h[x] \in NodeType /\ Len(h[x].key) \in Nat /\ k \in Int /\ Ints(h[x].key, Len(h[x].key))
        /\ h[x].key \in Seq(Keys)
    <2>1. k \in Int
      BY BTreeAssumption
    <2>2. QED
      BY <1>1, <2>1, NodeTypes DEF HeapType, Ints
  <1>3. Rising(h[x]) /\ Holds(h[x], K[x], K)
    BY <1>1 DEF Fenced, FencedNode
  <1> PICK B : B = Behind(h[x], k)
    OBVIOUS
  <1>4. /\ B \in 1 .. Len(h[x].key) + 1
        /\ \A q \in 1 .. Len(h[x].key) : IF q < B THEN h[x].key[q] <= k ELSE k < h[x].key[q]
    BY <1>2, <1>3, BehindIs
  <1> PICK y : y = NodeInsert(h[x], k)
    OBVIOUS
  <1>5. /\ y.leaf = h[x].leaf /\ y.key = InsertAt(h[x].key, B, k) /\ y.key \in Seq(Keys)
        /\ y.child = h[x].child
        /\ y = [leaf |-> y.leaf, key |-> y.key, child |-> y.child]
    BY <1>2, <1>4, NodeInsertIs
  <1>6. y \in NodeType
    BY <1>2, <1>5 DEF NodeType
  <1>7. Without(h[x].key, y.key, B) /\ y.key[B] = k /\ Len(y.key) = Len(h[x].key) + 1
    BY <1>2, <1>4, <1>5, InsertAtIs
  <1>8. /\ DOMAIN g = DOMAIN h /\ g[x] = y /\ \A n \in DOMAIN h \ {x} : g[n] = h[n]
        /\ g = [n \in DOMAIN g |-> g[n]]
    OBVIOUS
  <1>9. LeafChanged(h, g, x)
    BY <1>5, <1>6, <1>8 DEF LeafChanged, SameOn, IsHeap
  <1>10. Rising(y)
    <2>1. \A a \in 1 .. Len(h[x].key) : IF a < B THEN h[x].key[a] <= k ELSE k <= h[x].key[a]
      <3>1. \A a \in 1 .. Len(h[x].key) : h[x].key[a] \in Int
        BY <1>2 DEF Ints
      <3>2. QED
        BY <1>2, <1>4, <3>1
    <2>2. Up(h[x].key, Len(h[x].key))
      BY <1>3 DEF Rising
    <2>3. Up(y.key, Len(y.key))
      BY <1>2, <1>7, <2>1, <2>2, UpInserted
    <2>4. QED
      BY <2>3 DEF Rising
  <1>11. AllIn(y.key, Len(y.key), K[x])
    <2>1. \A i \in 1 .. Len(h[x].key) : h[x].key[i] \in K[x]
      BY <1>3 DEF Holds
    <2>2. QED
      BY <1>2, <1>7, <2>1, AllWithout DEF AllIn
  <1>12. Tree(g, r, lev, K) /\ Exchanged(h, g, x)
    BY <1>8, <1>9, <1>10, <1>11, LeafChangedIs
  <1>13. ASSUME NEW V PROVE Total(KeysOf(g), V) = Total(KeysOf(h), V) + One(k, V)
    <2>1. CountIn(y.key, V) = CountIn(h[x].key, V) + One(k, V)
      BY <1>2, <1>7, CountWithout
    <2>2. CountIn(h[x].key, V) \in Nat
      BY <1>2, CountType
    <2>3. One(k, V) \in Int /\ Total(KeysOf(h), V) \in Int
      BY <1>1, HeapLists, TotalType DEF One
    <2>4. Total(KeysOf(g), V) = Total(KeysOf(h), V) - CountIn(h[x].key, V) + CountIn(g[x].key, V)
      BY <1>12 DEF Exchanged
    <2>5. CountIn(g[x].key, V) = CountIn(y.key, V) /\ CountIn(y.key, V) \in Int
      BY <1>8, <2>1, <2>2, <2>3
    <2>6. QED
      BY <2>1, <2>2, <2>3, <2>4, <2>5
  <1>14. QED
    BY <1>7, <1>8, <1>9, <1>12, <1>13 DEF Gained

Shrunk(h, x, i) == [h EXCEPT ![x] = NodeDelete(@, i)]

(* A key is taken out of a leaf.                                            *)
LEMMA LeafShrinks ==
  ASSUME NEW h, NEW r, NEW lev, NEW K, Tree(h, r, lev, K), NEW x \in DOMAIN h, h[x].leaf,
         NEW i \in 1 .. Len(h[x].key), NEW g, g = Shrunk(h, x, i)
  PROVE  /\ Tree(g, r, lev, K) /\ LeafChanged(h, g, x) /\ Len(g[x].key) = Len(h[x].key) - 1
         /\ Without(g[x].key, h[x].key, i)
         /\ Lost(h, g, h[x].key[i])
  <1> USE DEF Shrunk
  <1>1. Frame(h, r, lev) /\ HeapType(h) /\ Shaped(h) /\ Fenced(h, K)
    BY DEF Tree, Frame
  <1>2. h[x] \in NodeType /\ ShapedNode(h[x]) /\ Len(h[x].key) \in Nat
    BY <1>1, NodeTypes DEF HeapType, Shaped
  <1>3. Rising(h[x]) /\ Holds(h[x], K[x], K)
    BY <1>1 DEF Fenced, FencedNode
  <1> PICK y : y = NodeDelete(h[x], i)
    OBVIOUS
  <1>4. /\ y \in NodeType /\ y.leaf = h[x].leaf /\ Without(y.key, h[x].key, i)
        /\ Len(y.key) = Len(h[x].key) - 1 /\ y.child = h[x].child
    BY <1>2, NodeDeleteIs
  <1>5. Len(y.key) \in Nat
    BY <1>4 DEF NodeType
  <1>6. /\ DOMAIN g = DOMAIN h /\ g[x] = y /\ \A n \in DOMAIN h \ {x} : g[n] = h[n]
        /\ g = [n \in DOMAIN g |-> g[n]]
    OBVIOUS
  <1>7. LeafChanged(h, g, x)
    BY <1>4, <1>6 DEF LeafChanged, SameOn, IsHeap
  <1>8. Rising(y)
    BY <1>3, <1>4, <1>5, UpWithout DEF Rising
  <1>9. AllIn(y.key, Len(y.key), K[x])
    <2>1. \A j \in 1 .. Len(h[x].key) : h[x].key[j] \in K[x]
      BY <1>3 DEF Holds
    <2>2. QED
      BY <1>4, <1>5, <2>1, AllWithout DEF AllIn
  <1>10. Tree(g, r, lev, K) /\ Exchanged(h, g, x)
    BY <1>6, <1>7, <1>8, <1>9, LeafChangedIs
  <1>11. ASSUME NEW V PROVE Total(KeysOf(g), V) = Total(KeysOf(h), V) - One(h[x].key[i], V)
    <2>1. CountIn(h[x].key, V) = CountIn(y.key, V) + One(h[x].key[i], V)
      BY <1>4, <1>5, CountWithout
    <2>2. CountIn(y.key, V) \in Nat
      BY <1>5, CountType
    <2>3. One(h[x].key[i], V) \in Int /\ Total(KeysOf(h), V) \in Int
      BY <1>1, HeapLists, TotalType DEF One
    <2>4. Total(KeysOf(g), V) = Total(KeysOf(h), V) - CountIn(h[x].key, V) + CountIn(g[x].key, V)
      BY <1>10 DEF Exchanged
    <2>5. CountIn(g[x].key, V) = CountIn(y.key, V) /\ CountIn(y.key, V) \in Int
      BY <1>6, <2>1, <2>2, <2>3
    <2>6. QED
      BY <2>1, <2>2, <2>3, <2>4, <2>5
  <1>12. QED
    BY <1>4, <1>6, <1>7, <1>10, <1>11 DEF Lost

----------------------------------------------------------------------------
(* A key that takes the place of another                                   *)

(* u can take the place of key q of w.                                      *)
Exchangeable(w, q, u, K) ==
  /\ \A i \in 1 .. Len(w.key) : (i < q => w.key[i] <= u) /\ (i > q => u <= w.key[i])
  /\ \A j \in 1 .. Len(w.child) : \A v \in K[w.child[j]] : IF j <= q THEN v <= u ELSE u <= v

LEMMA ExchangeableLeft ==
  ASSUME NEW w, NEW S, S \subseteq Int, NEW K, FencedNode(w, S, K), Len(w.key) \in Nat,
         Len(w.child) = Len(w.key) + 1, NEW q \in 1 .. Len(w.key), NEW u \in K[w.child[q]],
         \A v \in K[w.child[q]] : v <= u
  PROVE  Exchangeable(w, q, u, K)
  <1> PICK n \in Nat : n = Len(w.key)
    OBVIOUS
  <1>1. Ints(w.key, n) /\ IntSets(w.child, n + 1, K) /\ Up(w.key, n) /\ Apart(w.key, n, w.child, n + 1, K)
    BY HoldsInts DEF FencedNode, Rising, Beside
  <1>2. \A i \in 1 .. n : w.key[i] \in Int
    BY <1>1 DEF Ints
  <1>3. \A j \in 1 .. n + 1 : \A v \in K[w.child[j]] : v \in Int
    BY <1>1 DEF IntSets
  <1>4. \A i \in 1 .. n, j \in 1 .. n + 1 : \A v \in K[w.child[j]] :
          IF j <= i THEN v <= w.key[i] ELSE w.key[i] <= v
    BY <1>1 DEF Apart
  <1>5. u \in Int /\ \A i \in 1 .. n : IF q <= i THEN u <= w.key[i] ELSE w.key[i] <= u
    BY <1>3, <1>4
  <1>6. ASSUME NEW i \in 1 .. n PROVE (i < q => w.key[i] <= u) /\ (i > q => u <= w.key[i])
    BY <1>5
  <1>7. ASSUME NEW j \in 1 .. n + 1, NEW v \in K[w.child[j]] PROVE IF j <= q THEN v <= u ELSE u <= v
    <2>1. CASE j = q
      BY <2>1
    <2>2. CASE j < q
      <3>1. j \in 1 .. n /\ v \in Int /\ v <= w.key[j] /\ w.key[j] <= u /\ w.key[j] \in Int
        BY <1>2, <1>3, <1>4, <1>5, <2>2
      <3>2. QED
        BY <1>5, <2>2, <3>1
    <2>3. CASE j > q
      <3>1. w.key[q] <= v /\ u <= w.key[q] /\ w.key[q] \in Int /\ v \in Int
        BY <1>2, <1>3, <1>4, <1>5, <2>3
      <3>2. QED
        BY <1>5, <2>3, <3>1
    <2>4. QED
      BY <2>1, <2>2, <2>3
  <1>8. QED
    BY <1>6, <1>7 DEF Exchangeable

LEMMA ExchangeableRight ==
  ASSUME NEW w, NEW S, S \subseteq Int, NEW K, FencedNode(w, S, K), Len(w.key) \in Nat,
         Len(w.child) = Len(w.key) + 1, NEW q \in 1 .. Len(w.key), NEW u \in K[w.child[q + 1]],
         \A v \in K[w.child[q + 1]] : u <= v
  PROVE  Exchangeable(w, q, u, K)
  <1> PICK n \in Nat : n = Len(w.key)
    OBVIOUS
  <1>1. Ints(w.key, n) /\ IntSets(w.child, n + 1, K) /\ Up(w.key, n) /\ Apart(w.key, n, w.child, n + 1, K)
    BY HoldsInts DEF FencedNode, Rising, Beside
  <1>2. \A i \in 1 .. n : w.key[i] \in Int
    BY <1>1 DEF Ints
  <1>3. \A j \in 1 .. n + 1 : \A v \in K[w.child[j]] : v \in Int
    BY <1>1 DEF IntSets
  <1>4. \A i \in 1 .. n, j \in 1 .. n + 1 : \A v \in K[w.child[j]] :
          IF j <= i THEN v <= w.key[i] ELSE w.key[i] <= v
    BY <1>1 DEF Apart
  <1>5. u \in Int /\ \A i \in 1 .. n : IF q + 1 <= i THEN u <= w.key[i] ELSE w.key[i] <= u
    <2>1. q + 1 \in 1 .. n + 1
      OBVIOUS
    <2>2. QED
      BY <1>3, <1>4, <2>1
  <1>6. ASSUME NEW i \in 1 .. n PROVE (i < q => w.key[i] <= u) /\ (i > q => u <= w.key[i])
    BY <1>5
  <1>7. ASSUME NEW j \in 1 .. n + 1, NEW v \in K[w.child[j]] PROVE IF j <= q THEN v <= u ELSE u <= v
    <2>1. CASE j = q + 1
      BY <2>1
    <2>2. CASE j <= q
      <3>1. v \in Int /\ v <= w.key[q] /\ w.key[q] <= u /\ w.key[q] \in Int
        BY <1>2, <1>3, <1>4, <1>5, <2>2
      <3>2. QED
        BY <1>5, <2>2, <3>1
    <2>3. CASE j > q + 1
      <3>1. q + 1 \in 1 .. n
        BY <2>3
      <3>2. w.key[q + 1] <= v /\ u <= w.key[q + 1] /\ w.key[q + 1] \in Int /\ v \in Int
        BY <1>2, <1>3, <1>4, <1>5, <2>3, <3>1
      <3>3. QED
        BY <1>5, <2>3, <3>2
    <2>4. QED
      BY <2>1, <2>2, <2>3
  <1>8. QED
    BY <1>6, <1>7 DEF Exchangeable

LEMMA CountPatched ==
  ASSUME NEW S, NEW w \in Seq(S), NEW q \in 1 .. Len(w), NEW u \in S, NEW v, Patched(v, w, q, u), NEW V
  PROVE  /\ v \in Seq(S) /\ Len(v) = Len(w) /\ v[q] = u /\ \A i \in 1 .. Len(w) : i # q => v[i] = w[i]
         /\ CountIn(v, V) = CountIn(w, V) - One(w[q], V) + One(u, V)
  <1> PICK t : t = RemoveAt(w, q)
    OBVIOUS
  <1>1. t \in Seq(S) /\ Len(t) = Len(w) - 1 /\ Without(t, w, q)
    BY RemoveAtIs
  <1>2. v = [w EXCEPT ![q] = u]
    BY DEF Patched
  <1>3. v \in Seq(S) /\ Len(v) = Len(w) /\ v[q] = u /\ \A i \in 1 .. Len(w) : i # q => v[i] = w[i]
    BY <1>2
  <1>4. Len(t) \in Nat
    BY <1>1
  <1>5. PatchedIs(v, t, w, q, u, S)
    BY <1>1, <1>4, WithoutAnother
  <1>6. Without(t, v, q)
    BY <1>5 DEF PatchedIs
  <1>7. CountIn(v, V) = CountIn(t, V) + One(v[q], V) /\ CountIn(w, V) = CountIn(t, V) + One(w[q], V)
    BY <1>1, <1>4, <1>6, CountWithout
  <1>8. CountIn(t, V) \in Nat /\ One(u, V) \in Int /\ One(w[q], V) \in Int
    BY <1>4, CountType DEF One
  <1>9. QED
    BY <1>3, <1>7, <1>8

LEMMA ExchangedNode ==
  ASSUME NEW w, NEW v, NEW S, S \subseteq Int, NEW K, FencedNode(w, S, K), NEW q, NEW u, u \in S,
         Exchangeable(w, q, u, K), Len(w.key) \in Nat, q \in 1 .. Len(w.key),
         Replaced(v.key, w.key, q, u), v.child = w.child
  PROVE  FencedNode(v, S, K)
  <1> PICK n \in Nat : n = Len(w.key)
    OBVIOUS
  <1>1. /\ Len(v.key) = n /\ q \in 1 .. n /\ v.key[q] = u
        /\ \A i \in 1 .. n : i # q => v.key[i] = w.key[i]
    BY DEF Replaced
  <1>2. Ints(w.key, n) /\ Up(w.key, n) /\ Apart(w.key, n, w.child, Len(w.child), K)
        /\ Holds(w, S, K)
    BY HoldsInts DEF FencedNode, Rising, Beside
  <1>3. \A i \in 1 .. n : w.key[i] \in Int
    BY <1>2 DEF Ints
  <1>4. \A i, j \in 1 .. n : i <= j => w.key[i] <= w.key[j]
    BY <1>2 DEF Up
  <1>5. \A i \in 1 .. n : (i < q => w.key[i] <= u) /\ (i > q => u <= w.key[i])
    BY DEF Exchangeable
  <1>6. Holds(v, S, K)
    <2>1. \A i \in 1 .. n : w.key[i] \in S
      BY <1>2 DEF Holds
    <2>2. \A i \in 1 .. Len(v.key) : v.key[i] \in S
      BY <1>1, <2>1
    <2>3. KidSet(v) = KidSet(w)
      BY DEF KidSet
    <2>4. QED
      BY <1>2, <2>2, <2>3 DEF Holds
  <1>7. ASSUME NEW i \in 1 .. n, NEW j \in 1 .. n, i <= j PROVE v.key[i] <= v.key[j]
    <2>0. u \in Int
      OBVIOUS
    <2>1. CASE i = q /\ j = q
      BY <1>1, <2>0, <2>1
    <2>2. CASE i = q /\ j # q
      <3>1. v.key[j] = w.key[j] /\ v.key[i] = u /\ j > q
        BY <1>1, <1>7, <2>2
      <3>2. QED
        BY <1>5, <3>1
    <2>3. CASE i # q /\ j = q
      <3>1. v.key[i] = w.key[i] /\ v.key[j] = u /\ i < q
        BY <1>1, <1>7, <2>3
      <3>2. QED
        BY <1>5, <3>1
    <2>4. CASE i # q /\ j # q
      BY <1>1, <1>4, <1>7, <2>4
    <2>5. QED
      BY <2>1, <2>2, <2>3, <2>4
  <1>8. Rising(v)
    BY <1>1, <1>7 DEF Rising, Up
  <1>9. ASSUME NEW i \in 1 .. n, NEW j \in 1 .. Len(v.child), NEW x \in K[v.child[j]]
        PROVE  IF j <= i THEN x <= v.key[i] ELSE v.key[i] <= x
    <2>1. CASE i = q
      BY <1>1, <2>1 DEF Exchangeable
    <2>2. CASE i # q
      <3>1. IF j <= i THEN x <= w.key[i] ELSE w.key[i] <= x
        BY <1>2 DEF Apart
      <3>2. QED
        BY <1>1, <2>2, <3>1
    <2>3. QED
      BY <2>1, <2>2
  <1>10. Beside(v, K)
    BY <1>1, <1>9 DEF Beside, Apart
  <1>11. QED
    BY <1>6, <1>8, <1>10 DEF FencedNode

(* The keys of h with u in the place of k.                                  *)
Traded(h, g, k, u) ==
  \A V : Total(KeysOf(g), V) = Total(KeysOf(h), V) - One(k, V) + One(u, V)

Swapped(h, o, q, u) == [h EXCEPT ![o].key[q] = u]

SwapEffect(h, g, o, q, u) ==
  /\ Traded(h, g, h[o].key[q], u)
  /\ DOMAIN g = DOMAIN h /\ SameOn(h, g, DOMAIN h \ {o})
  /\ g[o].leaf = h[o].leaf /\ Len(g[o].key) = Len(h[o].key)

(* A key of an inner node is replaced with its neighbour below.             *)
LEMMA KeyTraded ==
  ASSUME NEW h, NEW r, NEW lev, NEW K, Tree(h, r, lev, K), NEW o \in DOMAIN h,
         NEW q \in 1 .. Len(h[o].key), NEW u \in Keys, u \in K[o], Exchangeable(h[o], q, u, K),
         NEW g, g = Swapped(h, o, q, u)
  PROVE  Tree(g, r, lev, K) /\ SwapEffect(h, g, o, q, u)
  <1> USE DEF Swapped, SwapEffect
  <1>1. Frame(h, r, lev) /\ HeapType(h) /\ Shaped(h) /\ Fenced(h, K)
    BY DEF Tree, Frame
  <1>2. /\ h[o] \in NodeType /\ h[o].key \in Seq(Keys) /\ Len(h[o].key) \in Nat /\ o \in Nodes
        /\ h[o] = [leaf |-> h[o].leaf, key |-> h[o].key, child |-> h[o].child]
        /\ h = [n \in DOMAIN h |-> h[n]]
    BY <1>1 DEF HeapType, NodeType
  <1> PICK v : v = [h[o].key EXCEPT ![q] = u]
    OBVIOUS
  <1> PICK y : y = [h[o] EXCEPT !.key = v]
    OBVIOUS
  <1>3. /\ DOMAIN g = DOMAIN h /\ g[o] = y /\ \A n \in DOMAIN h \ {o} : g[n] = h[n]
        /\ g = [n \in DOMAIN g |-> g[n]]
    BY <1>2
  <1>4. Patched(v, h[o].key, q, u)
    BY DEF Patched
  <1>5. /\ v \in Seq(Keys) /\ Len(v) = Len(h[o].key) /\ v[q] = u
        /\ \A i \in 1 .. Len(h[o].key) : i # q => v[i] = h[o].key[i]
    BY <1>2, <1>4, CountPatched
  <1>6. y = [leaf |-> h[o].leaf, key |-> v, child |-> h[o].child]
    BY <1>2
  <1>7. y \in NodeType
    BY <1>2, <1>5, <1>6 DEF NodeType
  <1>8. y.leaf = h[o].leaf /\ y.key = v /\ y.child = h[o].child
    BY <1>6
  <1>9. HeapType(g)
    BY <1>1, <1>3, <1>7 DEF HeapType
  <1>10. ShapedNode(y)
    BY <1>1, <1>5, <1>8 DEF Shaped, ShapedNode
  <1>11. SameShape(h, g)
    <2>1. Shaped(g)
      BY <1>1, <1>3, <1>10 DEF Shaped
    <2>2. QED
      BY <1>3, <1>8, <1>9, <2>1 DEF SameShape
  <1>12. Frame(g, r, lev)
    BY <1>1, <1>11, FrameSame
  <1>13. FencedNode(y, K[o], K)
    <2>1. FencedNode(h[o], K[o], K) /\ K[o] \subseteq Int
      BY <1>1, <1>2 DEF Fenced
    <2>2. Replaced(y.key, h[o].key, q, u)
      BY <1>5, <1>8 DEF Replaced
    <2>3. QED
      BY <1>2, <1>8, <2>1, <2>2, ExchangedNode
  <1>14. Fenced(g, K)
    BY <1>1, <1>3, <1>13 DEF Fenced
  <1>15. /\ Lists(KeysOf(h)) /\ DOMAIN KeysOf(h) = DOMAIN h
         /\ \A n \in DOMAIN h : KeysOf(h)[n] = h[n].key
         /\ Lists(KeysOf(g)) /\ DOMAIN KeysOf(g) = DOMAIN g
         /\ \A n \in DOMAIN g : KeysOf(g)[n] = g[n].key
    BY <1>1, <1>9, HeapLists
  <1>16. ASSUME NEW V
         PROVE  Total(KeysOf(g), V) = Total(KeysOf(h), V) - One(h[o].key[q], V) + One(u, V)
    <2>1. /\ o \in DOMAIN KeysOf(h) /\ DOMAIN KeysOf(g) = DOMAIN KeysOf(h)
          /\ SameOn(KeysOf(h), KeysOf(g), DOMAIN KeysOf(h) \ {o})
      BY <1>3, <1>15 DEF SameOn
    <2>2. Total(KeysOf(g), V) = Total(KeysOf(h), V) - CountIn(KeysOf(h)[o], V) + CountIn(KeysOf(g)[o], V)
      BY <1>15, <2>1, TotalOne
    <2>3. KeysOf(h)[o] = h[o].key /\ KeysOf(g)[o] = v
      BY <1>3, <1>8, <1>15
    <2>4. Total(KeysOf(g), V) = Total(KeysOf(h), V) - CountIn(h[o].key, V) + CountIn(v, V)
      BY <2>2, <2>3
    <2>5. /\ CountIn(v, V) = CountIn(h[o].key, V) - One(h[o].key[q], V) + One(u, V)
          /\ CountIn(h[o].key, V) \in Int /\ One(h[o].key[q], V) \in Int /\ One(u, V) \in Int
          /\ Total(KeysOf(h), V) \in Int
      <3>1. CountIn(h[o].key, V) \in Nat
        BY <1>2, CountType
      <3>2. Total(KeysOf(h), V) \in Int
        BY <1>15, TotalType
      <3>3. One(h[o].key[q], V) \in Int /\ One(u, V) \in Int
        BY DEF One
      <3>4. CountIn(v, V) = CountIn(h[o].key, V) - One(h[o].key[q], V) + One(u, V)
        BY <1>2, <1>4, CountPatched
      <3>5. QED
        BY <3>1, <3>2, <3>3, <3>4
    <2>6. QED
      BY <2>4, <2>5
  <1>17. QED
    BY <1>3, <1>5, <1>8, <1>12, <1>14, <1>16 DEF Tree, Traded, SameOn

----------------------------------------------------------------------------
(* The inductive invariant                                                 *)

Stocked(h) == (\A k \in Keys : Copies(h, k) <= MaxCopies) /\ Number(h) <= MaxKeys
Roomy(h, k) == Copies(h, k) < MaxCopies /\ Number(h) < MaxKeys

(* An insertion of k has come to x, which can take a key; k is within the   *)
(* keys beside the children that led to x.                                  *)
Inserting(h, x, k, K) == Len(h[x].key) < Full /\ k \in K[x] /\ Roomy(h, k)

(* Of the keys in and below c those in and below x are the greatest or the  *)
(* least: x is on the way to the key that takes the place of another.       *)
Hindmost(h, c, x) ==
  /\ \A u : Under(h, x, u) => Under(h, c, u)
  /\ \A v : Under(h, c, v) => Under(h, x, v) \/ \A u : Under(h, x, u) => v <= u
Foremost(h, c, x) ==
  /\ \A u : Under(h, x, u) => Under(h, c, u)
  /\ \A v : Under(h, c, v) => Under(h, x, v) \/ \A u : Under(h, x, u) => u <= v

HoleAt(h, r, lev, x, k, o) ==
  /\ x # r /\ o.side \in {"left", "right"}
  /\ o.node \in DOMAIN h /\ ~h[o.node].leaf /\ lev[x] < lev[o.node]
  /\ o.key \in 1 .. Len(h[o.node].key) /\ h[o.node].key[o.key] = k
  /\ o.side = "left" => Hindmost(h, h[o.node].child[o.key], x)
  /\ o.side = "right" => Foremost(h, h[o.node].child[o.key + 1], x)

(* A removal of k has come to x, which can lose a key.  Before it has found *)
(* k, every copy that is left to find is in or below x.                     *)
Removing(h, r, lev, x, k, o) ==
  /\ x = r \/ Len(h[x].key) >= MinDegree
  /\ o = NoHole => (Occurs(h, k) => Under(h, x, k))
  /\ o # NoHole => HoleAt(h, r, lev, x, k, o)

Calling(h, r, c, x, o, lev, K) ==
  /\ c \in Calls \cup {NoCall}
  /\ c = NoCall => o = NoHole
  /\ c # NoCall => x \in DOMAIN h
  /\ c # NoCall /\ c.do = "insert" => o = NoHole /\ Inserting(h, x, c.key, K)
  /\ c # NoCall /\ c.do = "remove" => Removing(h, r, lev, x, c.key, o)

Proper(h, r, lev, K) == Tree(h, r, lev, K) /\ Sized(h, r) /\ Stocked(h)

Sound(h, r, c, x, o, lev, K) == Proper(h, r, lev, K) /\ Calling(h, r, c, x, o, lev, K)

IInv == \E lev, K : Sound(node, root, call, curr, hole, lev, K)

----------------------------------------------------------------------------
(* The stock of keys                                                       *)

Unmoved(h, g) == \A V : Total(KeysOf(g), V) = Total(KeysOf(h), V)

(* What stays when no key comes or goes.                                    *)
LEMMA UnmovedSays ==
  ASSUME NEW h, NEW g, Unmoved(h, g)
  PROVE  /\ Stocked(h) => Stocked(g)
         /\ \A k : (Copies(g, k) = Copies(h, k)) /\ (Roomy(h, k) => Roomy(g, k))
         /\ Number(g) = Number(h)
  <1>1. \A k : Copies(g, k) = Copies(h, k)
    BY DEF Unmoved, Copies
  <1>2. Number(g) = Number(h)
    BY DEF Unmoved, Number
  <1>3. QED
    BY <1>1, <1>2 DEF Stocked, Roomy

LEMMA UnmovedOccurs ==
  ASSUME NEW h, NEW g, HeapType(h), HeapType(g), Unmoved(h, g), NEW k
  PROVE  Occurs(g, k) <=> Occurs(h, k)
  <1>1. Copies(g, k) = Copies(h, k)
    BY UnmovedSays
  <1>2. (Copies(h, k) = 0 <=> ~Occurs(h, k)) /\ (Copies(g, k) = 0 <=> ~Occurs(g, k))
    BY OccursCounted
  <1>3. QED
    BY <1>1, <1>2

LEMMA StockType ==
  ASSUME NEW h, HeapType(h)
  PROVE  Number(h) \in Int /\ \A k : Copies(h, k) \in Int
  BY HeapLists, TotalType DEF Number, Copies

(* One copy more.                                                           *)
LEMMA GainedStock ==
  ASSUME NEW h, NEW g, HeapType(h), Stocked(h), NEW k \in Keys, Roomy(h, k), Gained(h, g, k)
  PROVE  Stocked(g) /\ \A v \in Keys : Copies(g, v) = Copies(h, v) + (IF v = k THEN 1 ELSE 0)
  <1>1. \A v : Copies(g, v) = Copies(h, v) + One(k, {v})
    BY DEF Gained, Copies
  <1>2. Number(g) = Number(h) + One(k, Keys)
    BY DEF Gained, Number
  <1>3. Number(h) \in Int /\ \A v : Copies(h, v) \in Int
    BY StockType
  <1>4. One(k, Keys) = 1 /\ \A v : One(k, {v}) = IF v = k THEN 1 ELSE 0
    BY DEF One
  <1>5. MaxKeys \in Int /\ MaxCopies \in Int
    BY BTreeAssumption
  <1>6. \A v \in Keys : Copies(g, v) = Copies(h, v) + (IF v = k THEN 1 ELSE 0)
    BY <1>1, <1>4
  <1>7. \A v \in Keys : Copies(g, v) <= MaxCopies
    BY <1>3, <1>5, <1>6 DEF Stocked, Roomy
  <1>8. Number(g) <= MaxKeys
    BY <1>2, <1>3, <1>4, <1>5 DEF Roomy
  <1>9. QED
    BY <1>6, <1>7, <1>8 DEF Stocked

(* One copy less.                                                           *)
LEMMA LostStock ==
  ASSUME NEW h, NEW g, HeapType(h), Stocked(h), NEW k \in Keys, Lost(h, g, k)
  PROVE  Stocked(g) /\ \A v \in Keys : Copies(g, v) = Copies(h, v) - (IF v = k THEN 1 ELSE 0)
  <1>1. \A v : Copies(g, v) = Copies(h, v) - One(k, {v})
    BY DEF Lost, Copies
  <1>2. Number(g) = Number(h) - One(k, Keys)
    BY DEF Lost, Number
  <1>3. Number(h) \in Int /\ \A v : Copies(h, v) \in Int
    BY StockType
  <1>4. One(k, Keys) = 1 /\ \A v : One(k, {v}) = IF v = k THEN 1 ELSE 0
    BY DEF One
  <1>5. MaxKeys \in Int /\ MaxCopies \in Int
    BY BTreeAssumption
  <1>6. \A v \in Keys : Copies(g, v) = Copies(h, v) - (IF v = k THEN 1 ELSE 0)
    BY <1>1, <1>4
  <1>7. \A v \in Keys : Copies(g, v) <= MaxCopies
    BY <1>3, <1>5, <1>6 DEF Stocked
  <1>8. Number(g) <= MaxKeys
    BY <1>2, <1>3, <1>4, <1>5 DEF Stocked
  <1>9. QED
    BY <1>6, <1>7, <1>8 DEF Stocked

----------------------------------------------------------------------------
(* insert                                                                  *)

(* While there is room for a key there are addresses for two nodes.         *)
LEMMA RoomForNodes ==
  ASSUME NEW h, NEW r, NEW lev, NEW K, Proper(h, r, lev, K), Number(h) < MaxKeys
  PROVE  /\ NewNode(h) \in Nodes \ DOMAIN h
         /\ \A g : DOMAIN g = DOMAIN h \cup {NewNode(h)} => NewNode(g) \in Nodes \ DOMAIN g
  <1>1. HeapType(h) /\ r \in DOMAIN h /\ Sized(h, r) /\ IsFiniteSet(DOMAIN h) /\ DOMAIN h \subseteq Nodes
    BY HeapLists DEF Proper, Tree, Frame, Wired, HeapType
  <1>2. Number(h) \in Nat /\ Cardinality(DOMAIN h) <= Number(h) + 1
    BY <1>1, FewNodes
  <1>3. Cardinality(DOMAIN h) \in Nat /\ Cardinality(Nodes) \in Nat /\ MaxKeys \in Nat
        /\ Cardinality(Nodes) > MaxKeys + 1
    BY <1>1, BTreeAssumption, FS_CardinalityType
  <1>4. Cardinality(DOMAIN h) + 1 < Cardinality(Nodes)
    BY <1>2, <1>3
  <1>5. NewNode(h) \in Nodes \ DOMAIN h
    <2>1. Cardinality(DOMAIN h) < Cardinality(Nodes)
      BY <1>3, <1>4
    <2>2. QED
      BY <1>1, <2>1, NewNodeIs
  <1>6. ASSUME NEW g, DOMAIN g = DOMAIN h \cup {NewNode(h)} PROVE NewNode(g) \in Nodes \ DOMAIN g
    <2>1. Cardinality(DOMAIN g) = Cardinality(DOMAIN h) + 1
      BY <1>1, <1>5, <1>6, FS_AddElement
    <2>2. DOMAIN g \subseteq Nodes /\ Cardinality(DOMAIN g) < Cardinality(Nodes)
      BY <1>1, <1>4, <1>5, <1>6, <2>1
    <2>3. QED
      BY <2>2, NewNodeIs
  <1>7. QED
    BY <1>5, <1>6

LEMMA KidsLarge ==
  ASSUME NEW h, NEW r, NEW lev, NEW K, Tree(h, r, lev, K), Sized(h, r), NEW x \in DOMAIN h
  PROVE  \A j \in 1 .. Len(h[x].child) : /\ h[x].child[j] \in DOMAIN h \ {r}
                                         /\ Len(h[h[x].child[j]].key) >= MinDegree - 1
                                         /\ Len(h[h[x].child[j]].key) <= Full
  <1>1. Frame(h, r, lev)
    BY DEF Tree
  <1>2. ASSUME NEW j \in 1 .. Len(h[x].child)
        PROVE  /\ h[x].child[j] \in DOMAIN h \ {r}
               /\ Len(h[h[x].child[j]].key) >= MinDegree - 1 /\ Len(h[h[x].child[j]].key) <= Full
    <2>1. h[x].child[j] \in DOMAIN h \ {r}
      BY <1>1, ChildIs
    <2>2. QED
      BY <2>1 DEF Sized, SizedNode
  <1>3. QED
    BY <1>2

(* A split on the way of an insertion.                                      *)
LEMMA SplitProper ==
  ASSUME NEW h, NEW r, NEW lev, NEW K, Tree(h, r, lev, K), Stocked(h), FewCopies,
         NEW x \in DOMAIN h, NEW i \in 1 .. Len(h[x].child), ~h[x].leaf,
         \A n \in DOMAIN h \ {x} : SizedNode(h[n], n = r),
         Len(h[x].key) < Full, x # r => Len(h[x].key) >= MinDegree - 1,
         NEW y, y = h[x].child[i], Len(h[y].key) = Full,
         NEW z, z = NewNode(h), z \in Nodes \ DOMAIN h,
         NEW g, g = SplitChild(h, x, i)
  PROVE  /\ Divided(h, g, x, y, z, i) /\ SplitSizes(h, g, x, y, z)
         /\ Sized(g, r) /\ Stocked(g) /\ Unmoved(h, g)
         /\ \E G : Tree(g, r, [lev EXCEPT ![z] = lev[y]], G) /\ G[x] = K[x]
  <1>1. Frame(h, r, lev) /\ HeapType(h) /\ Shaped(h) /\ r \in DOMAIN h
    BY DEF Tree, Frame, Wired
  <1>2. i \in 1 .. Len(h[x].key) + 1
    BY <1>1, KidsCount
  <1>3. \A j \in 1 .. Len(h[x].child) : Len(h[h[x].child[j]].key) >= MinDegree - 1
    <2>1. ASSUME NEW j \in 1 .. Len(h[x].child) PROVE Len(h[h[x].child[j]].key) >= MinDegree - 1
      <3>1. h[x].child[j] \in DOMAIN h \ {r} /\ h[x].child[j] # x
        BY <1>1, ChildIs
      <3>2. QED
        BY <3>1 DEF SizedNode
    <2>2. QED
      BY <2>1
  <1>4. Splittable(h, x, i)
    BY <1>2, <1>3 DEF Splittable, Stocked
  <1>5. Divided(h, g, x, y, z, i) /\ SplitSizes(h, g, x, y, z)
    BY <1>4, SplitIs
  <1>6. Sized(g, r)
    BY <1>1, <1>5, SizedSplit
  <1>7. Unmoved(h, g)
    BY <1>5, DividedTotals DEF Unmoved
  <1>8. Stocked(g)
    BY <1>7, UnmovedSays
  <1>9. PICK G : /\ Tree(g, r, [lev EXCEPT ![z] = lev[y]], G)
                 /\ Cut(h, g, y, z, g[x].key[i], K, G)
    BY <1>5, TreeDivides
  <1>10. x # y
    BY <1>5 DEF Divided
  <1>11. G[x] = K[x]
    BY <1>9, <1>10 DEF Cut
  <1>12. QED
    BY <1>5, <1>6, <1>7, <1>8, <1>9, <1>11

InsertsAt(h, r, x, k, lev, K) == Proper(h, r, lev, K) /\ x \in DOMAIN h /\ Inserting(h, x, k, K)
RemovesAt(h, r, x, k, o, lev, K) ==
  Proper(h, r, lev, K) /\ x \in DOMAIN h /\ Removing(h, r, lev, x, k, o)

(* What a proper tree is.                                                   *)
LEMMA ProperSays ==
  ASSUME NEW h, NEW r, NEW lev, NEW K, Proper(h, r, lev, K)
  PROVE  /\ Tree(h, r, lev, K) /\ Frame(h, r, lev) /\ Fenced(h, K) /\ HeapType(h) /\ Shaped(h)
         /\ Wired(h, r) /\ Levelled(h, lev) /\ Sized(h, r) /\ Stocked(h) /\ r \in DOMAIN h
  BY DEF Proper, Tree, Frame, Wired

LEMMA NodeFence ==
  ASSUME NEW h, HeapType(h), NEW K, Fenced(h, K), NEW x \in DOMAIN h
  PROVE  /\ Len(h[x].key) \in Nat /\ Ints(h[x].key, Len(h[x].key)) /\ Rising(h[x])
         /\ Beside(h[x], K) /\ Holds(h[x], K[x], K) /\ K[x] \subseteq Int
  <1>1. Len(h[x].key) \in Nat /\ Ints(h[x].key, Len(h[x].key)) /\ x \in Nodes
    BY NodeTypes DEF Ints
  <1>2. QED
    BY <1>1 DEF Fenced, FencedNode

(* The child of a split that the key goes on to.                            *)
LEMMA SlotSplit ==
  ASSUME NEW v, NEW w, NEW i, NEW k \in Int, NEW n \in Nat, n = Len(v.key),
         Without(v.key, w.key, i), i \in 1 .. n + 1, Ints(w.key, n + 1), Ints(v.key, n),
         \A q \in 1 .. n : IF q < i THEN v.key[q] <= k ELSE k < v.key[q]
  PROVE  Slot(w, IF w.key[i] < k THEN i + 1 ELSE i, k)
  <1>1. Len(w.key) = n + 1 /\ \A j \in 1 .. n : v.key[j] = IF j < i THEN w.key[j] ELSE w.key[j + 1]
    BY DEF Without
  <1>2. w.key[i] \in Int
    BY DEF Ints
  <1>3. ASSUME NEW a \in 1 .. n + 1, a < i PROVE w.key[a] <= k
    BY <1>1, <1>3
  <1>4. ASSUME NEW a \in 1 .. n + 1, a > i PROVE k <= w.key[a]
    <2>1. a - 1 \in 1 .. n /\ ~(a - 1 < i) /\ a - 1 + 1 = a
      BY <1>4
    <2>2. v.key[a - 1] = w.key[a] /\ k < v.key[a - 1]
      BY <1>1, <2>1
    <2>3. v.key[a - 1] \in Int
      BY <2>1 DEF Ints
    <2>4. QED
      BY <2>2, <2>3
  <1>5. CASE w.key[i] < k
    <2>1. ASSUME NEW a \in 1 .. n + 1 PROVE IF a < i + 1 THEN w.key[a] <= k ELSE k <= w.key[a]
      <3>1. CASE a < i
        BY <1>3, <3>1
      <3>2. CASE a = i
        BY <1>2, <1>5, <3>2
      <3>3. CASE a > i
        BY <1>4, <3>3
      <3>4. QED
        BY <3>1, <3>2, <3>3
    <2>2. QED
      BY <1>1, <1>5, <2>1 DEF Slot
  <1>6. CASE ~(w.key[i] < k)
    <2>1. ASSUME NEW a \in 1 .. n + 1 PROVE IF a < i THEN w.key[a] <= k ELSE k <= w.key[a]
      <3>1. CASE a < i
        BY <1>3, <3>1
      <3>2. CASE a = i
        BY <1>2, <1>6, <3>2
      <3>3. CASE a > i
        BY <1>4, <3>3
      <3>4. QED
        BY <3>1, <3>2, <3>3
    <2>2. QED
      BY <1>1, <1>6, <2>1 DEF Slot
  <1>7. QED
    BY <1>5, <1>6

(* An insertion goes down: into a child with room.                          *)
LEMMA InsertWalks ==
  ASSUME NEW h, NEW r, NEW x, NEW k \in Keys, NEW lev, NEW K, InsertsAt(h, r, x, k, lev, K), ~h[x].leaf,
         NEW y, y = h[x].child[Behind(h[x], k)], Len(h[y].key) # Full
  PROVE  \E G : InsertsAt(h, r, y, k, lev, G) /\ lev[y] < lev[x]
  <1> DEFINE i == Behind(h[x], k)
             G == [K EXCEPT ![y] = @ \cup {k}]
  <1>1. Proper(h, r, lev, K) /\ x \in DOMAIN h /\ Inserting(h, x, k, K) /\ k \in Int
    BY BTreeAssumption DEF InsertsAt
  <1>2. Tree(h, r, lev, K) /\ Frame(h, r, lev) /\ Fenced(h, K) /\ HeapType(h) /\ Shaped(h) /\ Sized(h, r)
    BY <1>1, ProperSays
  <1>3. Len(h[x].key) \in Nat /\ Ints(h[x].key, Len(h[x].key)) /\ Rising(h[x])
    BY <1>1, <1>2, NodeFence
  <1>4. /\ i \in 1 .. Len(h[x].key) + 1
        /\ \A q \in 1 .. Len(h[x].key) : IF q < i THEN h[x].key[q] <= k ELSE k < h[x].key[q]
    BY <1>1, <1>3, BehindIs
  <1>5. i \in 1 .. Len(h[x].child) /\ Len(h[x].child) = Len(h[x].key) + 1
    BY <1>1, <1>2, <1>4, KidsCount
  <1>6. Slot(h[x], i, k)
    BY <1>1, <1>3, <1>4 DEF Slot, Ints
  <1>7. /\ y \in DOMAIN h \ {r} /\ lev[y] \in Nat /\ lev[x] \in Nat /\ lev[y] + 1 = lev[x]
    BY <1>1, <1>2, <1>5, ChildIs
  <1>8. Len(h[y].key) <= Full /\ Len(h[y].key) \in Nat
    BY <1>1, <1>2, <1>5, <1>7, KidsLarge, NodeTypes
  <1>9. k \in K[x] /\ Roomy(h, k)
    BY <1>1 DEF Inserting
  <1>10. Tree(h, r, lev, G)
    BY <1>1, <1>2, <1>5, <1>6, <1>9, KidWidens
  <1>11. k \in G[y]
    <2>1. K \in [Nodes -> SUBSET Int] /\ y \in Nodes
      BY <1>2, <1>7 DEF Fenced, HeapType
    <2>2. QED
      BY <2>1
  <1>12. Len(h[y].key) < Full
    BY <1>8, BTreeAssumption, SMTT(40) DEF Full
  <1>13. Proper(h, r, lev, G)
    BY <1>1, <1>10 DEF Proper
  <1>14. InsertsAt(h, r, y, k, lev, G)
    BY <1>7, <1>9, <1>11, <1>12, <1>13 DEF InsertsAt, Inserting
  <1>15. QED
    BY <1>7, <1>14

(* The same into the half of a full child that the key belongs to.          *)
LEMMA InsertSplits ==
  ASSUME NEW h, NEW r, NEW x, NEW k \in Keys, NEW lev, NEW K, InsertsAt(h, r, x, k, lev, K), ~h[x].leaf,
         FewCopies,
         NEW i, i = Behind(h[x], k), NEW y, y = h[x].child[i], Len(h[y].key) = Full,
         NEW g, g = SplitChild(h, x, i),
         NEW c, c = g[x].child[IF g[x].key[i] < k THEN i + 1 ELSE i]
  PROVE  (\E m, G : InsertsAt(g, r, c, k, m, G) /\ m[c] < lev[x]) /\ Unmoved(h, g)
  <1> DEFINE z == NewNode(h)
             m == [lev EXCEPT ![z] = lev[y]]
             q == IF g[x].key[i] < k THEN i + 1 ELSE i
  <1>1. Proper(h, r, lev, K) /\ x \in DOMAIN h /\ Inserting(h, x, k, K) /\ k \in Int
    BY BTreeAssumption DEF InsertsAt
  <1>2. /\ Tree(h, r, lev, K) /\ Frame(h, r, lev) /\ Fenced(h, K) /\ HeapType(h) /\ Shaped(h)
        /\ Sized(h, r) /\ Stocked(h) /\ Levelled(h, lev)
    BY <1>1, ProperSays
  <1>3. Len(h[x].key) \in Nat /\ Ints(h[x].key, Len(h[x].key)) /\ Rising(h[x])
    BY <1>1, <1>2, NodeFence
  <1>4. /\ i \in 1 .. Len(h[x].key) + 1
        /\ \A a \in 1 .. Len(h[x].key) : IF a < i THEN h[x].key[a] <= k ELSE k < h[x].key[a]
    BY <1>1, <1>3, BehindIs
  <1>5. i \in 1 .. Len(h[x].child) /\ Len(h[x].child) = Len(h[x].key) + 1
    BY <1>1, <1>2, <1>4, KidsCount
  <1>6. Len(h[x].key) < Full /\ k \in K[x] /\ Roomy(h, k) /\ Number(h) < MaxKeys
    BY <1>1 DEF Inserting, Roomy
  <1>7. z \in Nodes \ DOMAIN h
    BY <1>1, <1>6, RoomForNodes
  <1>8. \A n \in DOMAIN h \ {x} : SizedNode(h[n], n = r)
    BY <1>2 DEF Sized
  <1>9. x # r => Len(h[x].key) >= MinDegree - 1
    BY <1>1, <1>2 DEF Sized, SizedNode
  <1>10. /\ Divided(h, g, x, y, z, i) /\ SplitSizes(h, g, x, y, z)
         /\ Sized(g, r) /\ Stocked(g) /\ Unmoved(h, g)
         /\ \E G : Tree(g, r, m, G) /\ G[x] = K[x]
    BY <1>1, <1>2, <1>5, <1>6, <1>7, <1>8, <1>9, SplitProper
  <1>11. PICK G : Tree(g, r, m, G) /\ G[x] = K[x]
    BY <1>10
  <1>12. HeapType(g) /\ Fenced(g, G) /\ Frame(g, r, m)
    BY <1>11 DEF Tree, Frame
  <1>13. /\ x \in DOMAIN g /\ ~g[x].leaf /\ Without(h[x].key, g[x].key, i) /\ Shaped(g)
         /\ g[x].child[i] = y /\ g[x].child[i + 1] = z /\ x \in DOMAIN g /\ y \in DOMAIN h
    BY <1>1, <1>10 DEF Divided
  <1>14. Len(g[x].key) \in Nat /\ Ints(g[x].key, Len(g[x].key))
    BY <1>12, <1>13, NodeFence
  <1>15. Len(g[x].key) = Len(h[x].key) + 1 /\ Len(g[x].child) = Len(g[x].key) + 1
    BY <1>10, <1>12, <1>13, KidsCount DEF SplitSizes
  <1>16. Slot(g[x], q, k)
    <2>1. PICK n \in Nat : n = Len(h[x].key)
      BY <1>3
    <2>2. Ints(g[x].key, n + 1) /\ Ints(h[x].key, n) /\ i \in 1 .. n + 1
      BY <1>3, <1>4, <1>14, <1>15, <2>1
    <2>3. \A a \in 1 .. n : IF a < i THEN h[x].key[a] <= k ELSE k < h[x].key[a]
      BY <1>4, <2>1
    <2>4. QED
      BY <1>1, <1>13, <2>1, <2>2, <2>3, SlotSplit
  <1>17. q \in 1 .. Len(g[x].child)
    BY <1>3, <1>4, <1>15
  <1>18. c = g[x].child[q] /\ c \in {y, z}
    BY <1>13
  <1>19. c \in DOMAIN g
    BY <1>12, <1>13, <1>17, <1>18, ChildIs
  <1>20. m[c] < lev[x]
    <2>1. lev[y] \in Nat /\ lev[x] \in Nat /\ lev[y] + 1 = lev[x]
      BY <1>1, <1>2, <1>5, ChildIs
    <2>2. lev \in [Nodes -> Nat] /\ y # z /\ y \in Nodes
      BY <1>2, <1>7, <1>13 DEF Levelled, HeapType
    <2>3. m[c] = lev[y]
      BY <1>7, <1>18, <2>2
    <2>4. QED
      BY <2>1, <2>3
  <1>21. Tree(g, r, m, [G EXCEPT ![c] = @ \cup {k}])
    BY <1>1, <1>6, <1>11, <1>13, <1>16, <1>17, <1>18, KidWidens
  <1>22. k \in [G EXCEPT ![c] = @ \cup {k}][c]
    <2>1. G \in [Nodes -> SUBSET Int] /\ c \in Nodes
      BY <1>12, <1>19 DEF Fenced, HeapType
    <2>2. QED
      BY <2>1
  <1>23. Len(g[c].key) < Full
    <2>1. Len(g[c].key) = MinDegree - 1
      BY <1>10, <1>18 DEF SplitSizes
    <2>2. QED
      BY <2>1, BTreeAssumption DEF Full
  <1>24. Roomy(g, k)
    BY <1>6, <1>10, UnmovedSays
  <1>25. InsertsAt(g, r, c, k, m, [G EXCEPT ![c] = @ \cup {k}])
    BY <1>10, <1>19, <1>21, <1>22, <1>23, <1>24 DEF InsertsAt, Inserting, Proper
  <1>26. QED
    BY <1>10, <1>20, <1>25

(* An insertion begins at a root with room.                                 *)
LEMMA InsertStarts ==
  ASSUME NEW h, NEW r, NEW k \in Keys, NEW lev, NEW K, Proper(h, r, lev, K), Roomy(h, k),
         Len(h[r].key) # Full
  PROVE  \E G : InsertsAt(h, r, r, k, lev, G)
  <1> DEFINE G == [K EXCEPT ![r] = @ \cup {k}]
  <1>1. k \in Int /\ Tree(h, r, lev, K) /\ Fenced(h, K) /\ HeapType(h) /\ Sized(h, r) /\ r \in DOMAIN h
    BY BTreeAssumption, ProperSays
  <1>2. Tree(h, r, lev, G)
    BY <1>1, RootWidens
  <1>3. k \in G[r]
    <2>1. K \in [Nodes -> SUBSET Int] /\ r \in Nodes
      BY <1>1 DEF Fenced, HeapType
    <2>2. QED
      BY <2>1
  <1>4. Len(h[r].key) <= Full /\ Len(h[r].key) \in Nat
    BY <1>1, NodeTypes DEF Sized, SizedNode
  <1>5. Len(h[r].key) < Full
    BY <1>4, BTreeAssumption DEF Full
  <1>6. QED
    BY <1>1, <1>2, <1>3, <1>5 DEF InsertsAt, Inserting, Proper

Topped(h, r, top) ==
  [n \in DOMAIN h \cup {top} |->
     IF n = top THEN [leaf |-> FALSE, key |-> << >>, child |-> <<r>>] ELSE h[n]]

LEMMA ToppedCaps ==
  ASSUME NEW h, HeapType(h), Shaped(h), NEW r \in DOMAIN h, NEW top \in Nodes \ DOMAIN h
  PROVE  Capped(h, Topped(h, r, top), r, top)
  <1> DEFINE g == Topped(h, r, top)
             x == [leaf |-> FALSE, key |-> << >>, child |-> <<r>>]
  <1>1. DOMAIN g = DOMAIN h \cup {top} /\ g[top] = x /\ \A n \in DOMAIN h : g[n] = h[n]
    BY DEF Topped
  <1>2. r \in Nodes
    BY DEF HeapType
  <1>3. x.leaf = FALSE /\ x.key = << >> /\ x.child = <<r>>
    OBVIOUS
  <1>4. x \in NodeType /\ Len(x.key) = 0 /\ Len(x.child) = 1 /\ x.child[1] = r
    <2>1. << >> \in Seq(Keys) /\ <<r>> \in Seq(Nodes) /\ Len(<< >>) = 0 /\ Len(<<r>>) = 1 /\ <<r>>[1] = r
      BY <1>2
    <2>2. QED
      BY <1>3, <2>1 DEF NodeType
  <1>5. ShapedNode(x)
    BY <1>3, <1>4 DEF ShapedNode
  <1>6. g \in [DOMAIN g -> NodeType]
    <2>1. g = [n \in DOMAIN h \cup {top} |-> g[n]]
      BY <1>1 DEF Topped
    <2>2. ASSUME NEW n \in DOMAIN h \cup {top} PROVE g[n] \in NodeType
      <3>1. CASE n = top
        BY <1>1, <1>4, <3>1
      <3>2. CASE n # top
        BY <1>1, <2>2, <3>2 DEF HeapType
      <3>3. QED
        BY <3>1, <3>2
    <2>3. QED
      BY <1>1, <2>1, <2>2
  <1>7. HeapType(g)
    BY <1>1, <1>6 DEF HeapType
  <1>8. Shaped(g)
    BY <1>1, <1>5 DEF Shaped
  <1>9. SameOn(h, g, DOMAIN h)
    BY <1>1 DEF SameOn
  <1>10. ~g[top].leaf /\ Len(g[top].key) = 0 /\ Len(g[top].child) = 1 /\ g[top].child[1] = r
    BY <1>1, <1>3, <1>4
  <1>11. QED
    BY <1>1, <1>7, <1>8, <1>9, <1>10 DEF Capped

(* An insertion begins at a new root over the halves of a full one.         *)
LEMMA InsertGrows ==
  ASSUME NEW h, NEW r, NEW k \in Keys, NEW lev, NEW K, Proper(h, r, lev, K), Roomy(h, k), FewCopies,
         Len(h[r].key) = Full, NEW top, top = NewNode(h), NEW g, g = SplitChild(Topped(h, r, top), top, 1)
  PROVE  (\E m, G : InsertsAt(g, top, top, k, m, G)) /\ Unmoved(h, g)
  <1> DEFINE e == Topped(h, r, top)
             z == NewNode(e)
             m0 == [lev EXCEPT ![top] = lev[r] + 1]
             K0 == [K EXCEPT ![top] = K[r]]
             m == [m0 EXCEPT ![z] = m0[r]]
  <1>1. /\ k \in Int /\ Tree(h, r, lev, K) /\ Fenced(h, K) /\ HeapType(h) /\ Sized(h, r)
        /\ r \in DOMAIN h /\ Shaped(h) /\ Stocked(h)
    BY BTreeAssumption, ProperSays
  <1>2. Number(h) < MaxKeys
    BY DEF Roomy
  <1>3. top \in Nodes \ DOMAIN h
    BY <1>2, RoomForNodes
  <1>4. Capped(h, e, r, top)
    BY <1>1, <1>3, ToppedCaps
  <1>5. /\ DOMAIN e = DOMAIN h \cup {top} /\ HeapType(e) /\ Shaped(e)
        /\ ~e[top].leaf /\ Len(e[top].key) = 0 /\ Len(e[top].child) = 1 /\ e[top].child[1] = r
        /\ \A n \in DOMAIN h : e[n] = h[n]
    BY <1>4 DEF Capped, SameOn
  <1>6. z \in Nodes \ DOMAIN e
    BY <1>2, <1>5, RoomForNodes
  <1>7. Tree(e, top, m0, K0)
    BY <1>1, <1>4, TreeCaps
  <1>8. Unmoved(h, e)
    BY <1>4, CappedTotals DEF Unmoved
  <1>9. Stocked(e)
    BY <1>1, <1>8, UnmovedSays
  <1>10. \A n \in DOMAIN e \ {top} : SizedNode(e[n], n = top)
    <2>1. ASSUME NEW n \in DOMAIN e \ {top} PROVE SizedNode(e[n], n = top)
      <3>1. n \in DOMAIN h /\ e[n] = h[n] /\ n # top
        BY <1>5, <2>1
      <3>2. SizedNode(h[n], n = r)
        BY <1>1, <3>1 DEF Sized
      <3>3. n = r => Len(h[n].key) >= MinDegree - 1
        BY BTreeAssumption DEF Full
      <3>4. QED
        BY <3>1, <3>2, <3>3 DEF SizedNode
    <2>2. QED
      BY <2>1
  <1>11. Len(e[top].key) < Full
    BY <1>5, BTreeAssumption DEF Full
  <1>12. top \in DOMAIN e /\ 1 \in 1 .. Len(e[top].child) /\ r = e[top].child[1] /\ Len(e[r].key) = Full
    BY <1>1, <1>5
  <1> HIDE DEF m0, K0, e
  <1>22. g = SplitChild(e, top, 1) /\ z = NewNode(e)
    BY DEF e
  <1>13. /\ Divided(e, g, top, r, z, 1) /\ SplitSizes(e, g, top, r, z)
         /\ Sized(g, top) /\ Stocked(g) /\ Unmoved(e, g)
         /\ \E G : Tree(g, top, m, G) /\ G[top] = K0[top]
    BY <1>5, <1>6, <1>7, <1>9, <1>10, <1>11, <1>12, <1>22, SplitProper
  <1>14. PICK G : Tree(g, top, m, G)
    BY <1>13
  <1>15. Unmoved(h, g)
    BY <1>8, <1>13 DEF Unmoved
  <1>16. Len(g[top].key) = 1
    BY <1>5, <1>13 DEF SplitSizes
  <1>17. Proper(g, top, m, G)
    BY <1>13, <1>14 DEF Proper
  <1>18. Roomy(g, k)
    BY <1>15, UnmovedSays
  <1>19. Len(g[top].key) # Full
    <2>1. Full # 1
      BY BTreeAssumption DEF Full
    <2>2. QED
      BY <1>16, <2>1
  <1>20. \E G2 : InsertsAt(g, top, top, k, m, G2)
    BY <1>17, <1>18, <1>19, InsertStarts
  <1>21. QED
    BY <1>15, <1>20

(* A leaf takes the key.                                                    *)
LEMMA InsertEnds ==
  ASSUME NEW h, NEW r, NEW x, NEW k \in Keys, NEW lev, NEW K, InsertsAt(h, r, x, k, lev, K), h[x].leaf,
         NEW g, g = Grown(h, x, k)
  PROVE  Proper(g, r, lev, K) /\ Gained(h, g, k) /\ Roomy(h, k)
  <1>1. Proper(h, r, lev, K) /\ x \in DOMAIN h /\ Len(h[x].key) < Full /\ k \in K[x] /\ Roomy(h, k)
    BY DEF InsertsAt, Inserting
  <1>2. Tree(h, r, lev, K) /\ HeapType(h) /\ Sized(h, r) /\ Stocked(h)
    BY <1>1, ProperSays
  <1>3. /\ Tree(g, r, lev, K) /\ LeafChanged(h, g, x) /\ Len(g[x].key) = Len(h[x].key) + 1
        /\ Gained(h, g, k)
    BY <1>1, <1>2, LeafGrows
  <1>4. Stocked(g)
    BY <1>1, <1>2, <1>3, GainedStock
  <1>5. /\ DOMAIN g = DOMAIN h /\ SameOn(h, g, DOMAIN h \ {x}) /\ g[x].leaf
        /\ Len(h[x].key) \in Nat
    BY <1>1, <1>2, <1>3, NodeTypes DEF LeafChanged
  <1>6. Sized(g, r)
    <2>1. ASSUME NEW n \in DOMAIN g PROVE SizedNode(g[n], n = r)
      <3>1. SizedNode(h[n], n = r)
        BY <1>2, <1>5 DEF Sized
      <3>2. CASE n # x
        BY <1>5, <3>1, <3>2 DEF SameOn
      <3>3. CASE n = x
        BY <1>1, <1>3, <1>5, <3>1, <3>3, BTreeAssumption DEF SizedNode, Full
      <3>4. QED
        BY <3>2, <3>3
    <2>2. QED
      BY <2>1 DEF Sized
  <1>7. QED
    BY <1>1, <1>3, <1>4, <1>6 DEF Proper

----------------------------------------------------------------------------
(* remove                                                                   *)

(* What findIndex returns when the key is not in the node.                  *)
LEMMA FoundAt ==
  ASSUME NEW x, Len(x.key) \in Nat, Ints(x.key, Len(x.key)), Rising(x), NEW k \in Int
  PROVE  /\ FindIndex(x, k) \in 1 .. Len(x.key) + 1
         /\ ~HasAt(x, FindIndex(x, k), k) => ~KeyAt(x, k) /\ Between(x, FindIndex(x, k), k)
  <1> PICK n \in Nat : n = Len(x.key)
    OBVIOUS
  <1> PICK f : f = FindIndex(x, k)
    OBVIOUS
  <1>1. f \in 1 .. n + 1 /\ \A q \in 1 .. n : IF q < f THEN x.key[q] < k ELSE k <= x.key[q]
    BY FindIndexIs
  <1>2. \A q \in 1 .. n : x.key[q] \in Int
    BY DEF Ints
  <1>3. ASSUME ~HasAt(x, f, k) PROVE ~KeyAt(x, k) /\ Between(x, f, k)
    <2>1. ASSUME NEW q \in 1 .. n PROVE IF q < f THEN x.key[q] < k ELSE k < x.key[q]
      <3>1. CASE q < f
        BY <1>1, <3>1
      <3>2. CASE ~(q < f)
        <4>1. f \in 1 .. n /\ f <= q
          BY <1>1, <3>2
        <4>2. x.key[f] <= x.key[q]
          BY <4>1 DEF Rising, Up
        <4>3. x.key[f] # k
          BY <1>3, <4>1 DEF HasAt
        <4>4. k <= x.key[f]
          BY <1>1, <4>1
        <4>5. x.key[f] \in Int /\ x.key[q] \in Int
          BY <1>2, <4>1
        <4>6. QED
          BY <3>2, <4>2, <4>3, <4>4, <4>5
      <3>3. QED
        BY <3>1, <3>2
    <2>2. Between(x, f, k)
      BY <2>1 DEF Between
    <2>3. ~KeyAt(x, k)
      BY <1>2, <2>1 DEF KeyAt
    <2>4. QED
      BY <2>2, <2>3
  <1>4. QED
    BY <1>1, <1>3

LEMMA FoundBetween ==
  ASSUME NEW x, Len(x.key) \in Nat, Ints(x.key, Len(x.key)), Rising(x), NEW k \in Int,
         NEW q \in 1 .. Len(x.key) + 1, Between(x, q, k)
  PROVE  FindIndex(x, k) = q
  <1> PICK n \in Nat : n = Len(x.key)
    OBVIOUS
  <1> PICK f : f = FindIndex(x, k)
    OBVIOUS
  <1>1. f \in 1 .. n + 1 /\ \A a \in 1 .. n : IF a < f THEN x.key[a] < k ELSE k <= x.key[a]
    BY FindIndexIs
  <1>2. \A a \in 1 .. n : x.key[a] \in Int
    BY DEF Ints
  <1>3. \A a \in 1 .. n : IF a < q THEN x.key[a] < k ELSE k < x.key[a]
    BY DEF Between
  <1>4. ~(f < q)
    <2>1. SUFFICES ASSUME f < q PROVE FALSE
      OBVIOUS
    <2>2. f \in 1 .. n /\ ~(f < f)
      BY <1>1, <2>1
    <2>3. x.key[f] < k /\ k <= x.key[f] /\ x.key[f] \in Int
      BY <1>1, <1>2, <1>3, <2>1, <2>2
    <2>4. QED
      BY <2>3
  <1>5. ~(q < f)
    <2>1. SUFFICES ASSUME q < f PROVE FALSE
      OBVIOUS
    <2>2. q \in 1 .. n /\ ~(q < q)
      BY <1>1, <2>1
    <2>3. k < x.key[q] /\ x.key[q] < k /\ x.key[q] \in Int
      BY <1>1, <1>2, <1>3, <2>1, <2>2
    <2>4. QED
      BY <2>3
  <1>6. QED
    BY <1>1, <1>4, <1>5

(* A key that is between the keys beside a child, if it is below, is below  *)
(* that child.                                                              *)
LEMMA UnderFound ==
  ASSUME NEW h, NEW r, NEW lev, NEW K, Tree(h, r, lev, K), NEW p \in DOMAIN h, ~h[p].leaf,
         NEW k \in Int, NEW q \in 1 .. Len(h[p].child), Between(h[p], q, k), Under(h, p, k)
  PROVE  Under(h, h[p].child[q], k)
  <1>1. HeapType(h) /\ Fenced(h, K) /\ Shaped(h)
    BY DEF Tree, Frame
  <1>2. /\ Fenced(h, Core(h, K))
        /\ \A n \in Nodes : \A v : v \in Core(h, K)[n] <=> Under(h, n, v)
    BY <1>1, CoreFences
  <1>3. Len(h[p].key) \in Nat /\ Ints(h[p].key, Len(h[p].key)) /\ Beside(h[p], Core(h, K))
    BY <1>1, <1>2, NodeFence
  <1>4. Len(h[p].child) = Len(h[p].key) + 1
    BY <1>1, KidsCount
  <1> PICK n \in Nat : n = Len(h[p].key)
    BY <1>3
  <1>5. \A a \in 1 .. n : h[p].key[a] \in Int
    BY <1>3 DEF Ints
  <1>6. \A a \in 1 .. n : IF a < q THEN h[p].key[a] < k ELSE k < h[p].key[a]
    BY DEF Between
  <1>7. ~KeyAt(h[p], k)
    BY <1>5, <1>6 DEF KeyAt
  <1>8. PICK c \in KidSet(h[p]) : Under(h, c, k)
    BY <1>1, <1>7, UnderDown
  <1>9. PICK j \in 1 .. n + 1 : c = h[p].child[j]
    BY <1>4 DEF KidSet, Elements
  <1>10. k \in Core(h, K)[h[p].child[j]]
    <2>1. c \in Nodes
      BY <1>1, <1>8, KidSetType
    <2>2. QED
      BY <1>2, <1>8, <1>9, <2>1
  <1>11. \A a \in 1 .. n : IF j <= a THEN k <= h[p].key[a] ELSE h[p].key[a] <= k
    BY <1>3, <1>4, <1>9, <1>10 DEF Beside, Apart
  <1>12. q \in 1 .. n + 1
    BY <1>4
  <1>13. ~(j < q)
    <2>1. SUFFICES ASSUME j < q PROVE FALSE
      OBVIOUS
    <2>2. j \in 1 .. n /\ j <= j
      BY <1>12, <2>1
    <2>3. k <= h[p].key[j] /\ h[p].key[j] < k /\ h[p].key[j] \in Int
      BY <1>5, <1>6, <1>11, <2>1, <2>2
    <2>4. QED
      BY <2>3
  <1>14. ~(q < j)
    <2>1. SUFFICES ASSUME q < j PROVE FALSE
      OBVIOUS
    <2>2. q \in 1 .. n /\ ~(j <= q) /\ ~(q < q)
      BY <1>12, <2>1
    <2>3. k < h[p].key[q] /\ h[p].key[q] <= k /\ h[p].key[q] \in Int
      BY <1>5, <1>6, <1>11, <2>1, <2>2
    <2>4. QED
      BY <2>3
  <1>15. j = q
    BY <1>12, <1>13, <1>14
  <1>16. QED
    BY <1>8, <1>9, <1>15

(* A key below a leaf is in the leaf.                                       *)
LEMMA LeafHolds ==
  ASSUME NEW h, HeapType(h), Shaped(h), NEW K, Fenced(h, K), NEW x \in DOMAIN h, h[x].leaf,
         NEW k, Under(h, x, k)
  PROVE  KeyAt(h[x], k)
  <1>1. h[x].child = << >>
    BY DEF Shaped, ShapedNode
  <1>2. KidSet(h[x]) = {}
    BY <1>1 DEF KidSet, Elements
  <1>3. QED
    BY <1>2, UnderDown

(* remove begins at the root.                                               *)
LEMMA RemoveStarts ==
  ASSUME NEW h, NEW r, NEW k, NEW lev, NEW K, Proper(h, r, lev, K)
  PROVE  RemovesAt(h, r, r, k, NoHole, lev, K)
  <1>1. Frame(h, r, lev) /\ r \in DOMAIN h
    BY ProperSays
  <1>2. Occurs(h, k) => Under(h, r, k)
    BY <1>1, UnderRoot
  <1>3. QED
    BY <1>1, <1>2 DEF RemovesAt, Removing

(* A leaf that can lose a key loses one.                                    *)
LEMMA LeafLoses ==
  ASSUME NEW h, NEW r, NEW lev, NEW K, Tree(h, r, lev, K), Sized(h, r),
         NEW x \in DOMAIN h, h[x].leaf, x = r \/ Len(h[x].key) >= MinDegree,
         NEW i \in 1 .. Len(h[x].key), NEW g, g = Shrunk(h, x, i)
  PROVE  Tree(g, r, lev, K) /\ Sized(g, r) /\ Lost(h, g, h[x].key[i])
  <1>1. HeapType(h) /\ Len(h[x].key) \in Nat
    BY NodeTypes DEF Tree, Frame
  <1>2. /\ Tree(g, r, lev, K) /\ LeafChanged(h, g, x) /\ Len(g[x].key) = Len(h[x].key) - 1
        /\ Without(g[x].key, h[x].key, i)
        /\ Lost(h, g, h[x].key[i])
    BY LeafShrinks
  <1>3. DOMAIN g = DOMAIN h /\ SameOn(h, g, DOMAIN h \ {x}) /\ g[x].leaf
    BY <1>2 DEF LeafChanged
  <1>4. Sized(g, r)
    <2>1. ASSUME NEW n \in DOMAIN g PROVE SizedNode(g[n], n = r)
      <3>1. SizedNode(h[n], n = r)
        BY <1>3 DEF Sized
      <3>2. CASE n # x
        BY <1>3, <3>1, <3>2 DEF SameOn
      <3>3. CASE n = x
        BY <1>1, <1>2, <1>3, <3>1, <3>3, BTreeAssumption DEF SizedNode, Full
      <3>4. QED
        BY <3>2, <3>3
    <2>2. QED
      BY <2>1 DEF Sized
  <1>5. QED
    BY <1>2, <1>4

(* remove takes the key from a leaf.                                        *)
LEMMA RemoveEnds ==
  ASSUME NEW h, NEW r, NEW x, NEW k \in Keys, NEW lev, NEW K, RemovesAt(h, r, x, k, NoHole, lev, K),
         h[x].leaf, NEW i \in 1 .. Len(h[x].key), h[x].key[i] = k, NEW g, g = Shrunk(h, x, i)
  PROVE  Proper(g, r, lev, K) /\ Lost(h, g, k) /\ Occurs(h, k)
  <1>1. Proper(h, r, lev, K) /\ x \in DOMAIN h /\ (x = r \/ Len(h[x].key) >= MinDegree)
    BY DEF RemovesAt, Removing
  <1>2. Tree(h, r, lev, K) /\ HeapType(h) /\ Sized(h, r) /\ Stocked(h)
    BY <1>1, ProperSays
  <1>3. Tree(g, r, lev, K) /\ Sized(g, r) /\ Lost(h, g, h[x].key[i])
    BY <1>1, <1>2, LeafLoses
  <1>4. Stocked(g)
    BY <1>2, <1>3, LostStock
  <1>5. Occurs(h, k)
    BY <1>1 DEF Occurs
  <1>6. QED
    BY <1>3, <1>4, <1>5 DEF Proper

(* remove throws at a leaf without the key: the tree does not have it.      *)
LEMMA RemoveMisses ==
  ASSUME NEW h, NEW r, NEW x, NEW k, NEW lev, NEW K, RemovesAt(h, r, x, k, NoHole, lev, K),
         h[x].leaf, ~KeyAt(h[x], k)
  PROVE  ~Occurs(h, k)
  <1>1. Proper(h, r, lev, K) /\ x \in DOMAIN h /\ (Occurs(h, k) => Under(h, x, k))
    BY DEF RemovesAt, Removing
  <1>2. HeapType(h) /\ Shaped(h) /\ Fenced(h, K)
    BY <1>1, ProperSays
  <1>3. QED
    BY <1>1, <1>2, LeafHolds

(* The key is found in an internal node, and the child on one side of it    *)
(* can lose the key that replaces it.                                       *)
LEMMA RemoveSeeks ==
  ASSUME NEW h, NEW r, NEW x, NEW k, NEW lev, NEW K, RemovesAt(h, r, x, k, NoHole, lev, K),
         ~h[x].leaf, NEW i \in 1 .. Len(h[x].key), h[x].key[i] = k,
         NEW side \in {"left", "right"}, NEW y, y = h[x].child[IF side = "left" THEN i ELSE i + 1],
         Len(h[y].key) >= MinDegree, NEW o, o = [side |-> side, node |-> x, key |-> i]
  PROVE  RemovesAt(h, r, y, k, o, lev, K) /\ lev[y] < lev[x]
  <1> DEFINE j == IF side = "left" THEN i ELSE i + 1
  <1>1. Proper(h, r, lev, K) /\ x \in DOMAIN h
    BY DEF RemovesAt
  <1>2. Frame(h, r, lev) /\ HeapType(h) /\ Shaped(h)
    BY <1>1, ProperSays
  <1>3. Len(h[x].child) = Len(h[x].key) + 1 /\ Len(h[x].key) \in Nat
    BY <1>1, <1>2, KidsCount
  <1>4. j \in 1 .. Len(h[x].child)
    BY <1>3
  <1>5. y \in DOMAIN h \ {r} /\ lev[y] \in Nat /\ lev[x] \in Nat /\ lev[y] + 1 = lev[x]
    BY <1>1, <1>2, <1>4, ChildIs
  <1>6. o.side = side /\ o.node = x /\ o.key = i /\ o # NoHole
    BY DEF NoHole
  <1>7. Hindmost(h, y, y) /\ Foremost(h, y, y)
    BY DEF Hindmost, Foremost
  <1>8. side = "left" => h[x].child[i] = y
    OBVIOUS
  <1>9. side = "right" => h[x].child[i + 1] = y
    OBVIOUS
  <1>10. lev[y] < lev[x]
    BY <1>5
  <1>11. HoleAt(h, r, lev, y, k, o)
    BY <1>1, <1>5, <1>6, <1>7, <1>8, <1>9, <1>10 DEF HoleAt
  <1>12. QED
    BY <1>1, <1>5, <1>6, <1>10, <1>11 DEF RemovesAt, Removing

(* A new root is reached from the old one.                                  *)
LEMMA VanishedArrives ==
  ASSUME NEW h, NEW r, NEW lev, NEW K, Proper(h, r, lev, K), NEW g, NEW s, NEW k,
         Vanished(h, g, r, s, lev)
  PROVE  (\E G : RemovesAt(g, s, s, k, NoHole, lev, G)) /\ lev[s] < lev[r] /\ Unmoved(h, g)
  <1>1. PICK G : Tree(g, s, lev, G)
    BY DEF Vanished
  <1>2. Sized(g, s) /\ Unmoved(h, g) /\ lev[s] \in Nat /\ lev[s] + 1 = lev[r]
    BY DEF Vanished, Unmoved
  <1>3. Stocked(g)
    BY <1>2, UnmovedSays DEF Proper
  <1>4. Proper(g, s, lev, G)
    BY <1>1, <1>2, <1>3 DEF Proper
  <1>5. lev[s] < lev[r]
    BY <1>2
  <1>6. RemovesAt(g, s, s, k, NoHole, lev, G)
    BY <1>4, RemoveStarts
  <1>7. QED
    BY <1>2, <1>5, <1>6

(* remove merges the children beside the key and follows it down.           *)
LEMMA RemoveMerges ==
  ASSUME NEW h, NEW r, NEW x, NEW k, NEW lev, NEW K, RemovesAt(h, r, x, k, NoHole, lev, K),
         ~h[x].leaf, NEW i \in 1 .. Len(h[x].key), h[x].key[i] = k,
         Len(h[h[x].child[i]].key) < MinDegree, Len(h[h[x].child[i + 1]].key) < MinDegree,
         NEW m, m = MergeChildren(h, r, x, i), NEW y, y = h[x].child[i]
  PROVE  (\E G : RemovesAt(m.node, m.root, y, k, NoHole, lev, G)) /\ lev[y] < lev[x] /\ Unmoved(h, m.node)
  <1>1. PICK u : u = h[x].child[i + 1]
    OBVIOUS
  <1>2. Proper(h, r, lev, K) /\ x \in DOMAIN h /\ (x = r \/ Len(h[x].key) >= MinDegree)
    BY DEF RemovesAt, Removing
  <1>3. Tree(h, r, lev, K) /\ Frame(h, r, lev) /\ Sized(h, r) /\ Stocked(h)
    BY <1>2, ProperSays
  <1>4. Losable(h, r, x)
    BY <1>2, <1>3 DEF Losable
  <1>5. Siblings(h, x, i, y, u)
    BY <1>1, <1>2 DEF Siblings
  <1>6. /\ lev[y] \in Nat /\ lev[x] \in Nat /\ lev[y] + 1 = lev[x] /\ y \in DOMAIN h \ {r}
    BY <1>3, <1>5, SiblingsAre
  <1>7. lev[y] < lev[x]
    BY <1>6
  <1>8. i \in {i, i + 1} /\ Len(h[y].key) < MinDegree /\ Len(h[u].key) < MinDegree
    BY <1>1
  <1>9. /\ Len(h[x].key) > 1 => m.root = r /\ Kept(h, m.node, r, lev, x, i) /\ m.node = Melt(h, x, i)
        /\ Len(h[x].key) = 1 => x = r /\ m.root = y /\ Vanished(h, m.node, r, y, lev)
        /\ Len(h[x].key) > 1 \/ Len(h[x].key) = 1
    BY <1>3, <1>4, <1>5, <1>8, MergeEffect
  <1>10. CASE Len(h[x].key) = 1
    <2>1. m.root = y /\ Vanished(h, m.node, r, y, lev)
      BY <1>9, <1>10
    <2>2. (\E G : RemovesAt(m.node, y, y, k, NoHole, lev, G)) /\ Unmoved(h, m.node)
      BY <1>2, <2>1, VanishedArrives
    <2>3. QED
      BY <1>7, <2>1, <2>2
  <1>11. CASE Len(h[x].key) > 1
    <2>1. PICK g : g = Melt(h, x, i)
      OBVIOUS
    <2>2. m.root = r /\ m.node = g
      BY <1>9, <1>11, <2>1
    <2>3. /\ Reshaped(h, Melt(h, x, i), r, lev, x) /\ Sized(Melt(h, x, i), r)
          /\ Fixed(h, Melt(h, x, i), x, i, i)
          /\ Melt(h, x, i)[x].child[i] = y
      BY <1>3, <1>4, <1>5, <1>8, <1>11, MeltFixed
    <2>4. Reshaped(h, g, r, lev, x) /\ Sized(g, r) /\ Fixed(h, g, x, i, i) /\ g[x].child[i] = y
      BY <2>1, <2>3
    <2>5. PICK G : Tree(g, r, lev, G)
      BY <2>4 DEF Reshaped
    <2>6. Unmoved(h, g)
      BY <2>4 DEF Reshaped, Unmoved
    <2>7. Stocked(g)
      BY <1>3, <2>6, UnmovedSays
    <2>8. Len(g[y].key) >= MinDegree /\ x \in DOMAIN g /\ i \in 1 .. Len(g[x].child)
      BY <2>4 DEF Fixed, KidSize
    <2>9. y \in DOMAIN g \ {r}
      <3>1. Frame(g, r, lev)
        BY <2>5 DEF Tree
      <3>2. QED
        BY <2>4, <2>8, <3>1, ChildIs
    <2>10. KeyAt(g[y], k)
      <3>1. Divided(Melt(h, x, i), h, x, y, u, i)
        BY <1>3, <1>5, MeltIs
      <3>2. Divided(g, h, x, y, u, i)
        BY <2>1, <3>1
      <3>3. /\ Joined(g[y].key, h[y].key, h[x].key[i], h[u].key) /\ HeapType(h)
            /\ y \in DOMAIN h /\ u \in DOMAIN h
        BY <1>3, <1>5, <3>2, SiblingsAre DEF Divided
      <3>4. PICK a \in Nat, b \in Nat : a = Len(h[y].key) /\ b = Len(h[u].key)
        BY <3>3, NodeTypes
      <3>5. /\ Len(g[y].key) = a + 1 + b
            /\ \A q \in 1 .. a + 1 + b :
                 g[y].key[q] = IF q <= a THEN h[y].key[q]
                               ELSE IF q = a + 1 THEN h[x].key[i] ELSE h[u].key[q - a - 1]
        BY <3>3, <3>4 DEF Joined
      <3>6. a + 1 \in 1 .. a + 1 + b /\ ~(a + 1 <= a)
        OBVIOUS
      <3>7. g[y].key[a + 1] = k
        BY <3>5, <3>6
      <3>8. QED
        BY <3>5, <3>6, <3>7 DEF KeyAt
    <2>11. Under(g, y, k)
      BY <2>9, <2>10, UnderKey
    <2>12. RemovesAt(g, r, y, k, NoHole, lev, G)
      BY <2>4, <2>5, <2>7, <2>8, <2>9, <2>11 DEF RemovesAt, Removing, Proper
    <2>13. QED
      BY <1>7, <2>2, <2>6, <2>12
  <1>12. QED
    BY <1>9, <1>10, <1>11

(* The child to go on with, after fixChildSize has kept the root.           *)
LEMMA KeptChild ==
  ASSUME NEW h, NEW r, NEW lev, NEW K, Proper(h, r, lev, K), NEW x \in DOMAIN h, NEW i, NEW g, NEW q,
         Reshaped(h, g, r, lev, x), Sized(g, r), Fixed(h, g, x, i, q), NEW y, y = g[x].child[q]
  PROVE  /\ \E G : Proper(g, r, lev, G)
         /\ Unmoved(h, g) /\ x \in DOMAIN g /\ ~g[x].leaf /\ q \in 1 .. Len(g[x].child)
         /\ y \in DOMAIN g \ {r} /\ lev[y] \in Nat /\ lev[x] \in Nat /\ lev[y] + 1 = lev[x]
         /\ y \in KidSet(g[x]) /\ Len(g[y].key) >= MinDegree
         /\ \A v : Under(g, x, v) <=> Under(h, x, v)
  <1>1. PICK G : Tree(g, r, lev, G)
    BY DEF Reshaped
  <1>2. Unmoved(h, g)
    BY DEF Reshaped, Unmoved
  <1>3. Stocked(g)
    BY <1>2, UnmovedSays DEF Proper
  <1>4. x \in DOMAIN g /\ ~g[x].leaf /\ q \in 1 .. Len(g[x].child) /\ Len(g[y].key) >= MinDegree
    BY DEF Fixed, KidSize
  <1>5. Frame(g, r, lev)
    BY <1>1 DEF Tree
  <1>6. /\ y \in DOMAIN g \ {r} /\ y \in KidSet(g[x]) /\ lev[y] \in Nat /\ lev[x] \in Nat /\ lev[y] + 1 = lev[x]
    BY <1>4, <1>5, ChildIs
  <1>7. lev[x] >= lev[x]
    BY <1>6
  <1>8. \A v : Under(g, x, v) <=> Under(h, x, v)
    BY <1>7 DEF Reshaped
  <1>9. Proper(g, r, lev, G)
    BY <1>1, <1>3 DEF Proper
  <1>10. QED
    BY <1>2, <1>4, <1>6, <1>8, <1>9

(* remove fixes the child it goes to; the root may vanish on the way.       *)
LEMMA RemoveFixes ==
  ASSUME NEW h, NEW r, NEW x, NEW k \in Keys, NEW lev, NEW K, RemovesAt(h, r, x, k, NoHole, lev, K),
         ~h[x].leaf, NEW i, i = FindIndex(h[x], k), ~HasAt(h[x], i, k),
         NEW f, f = FixChildSize(h, r, x, i),
         NEW y, y = IF f.root # r THEN f.root ELSE f.node[x].child[FindIndex(f.node[x], k)]
  PROVE  (\E G : RemovesAt(f.node, f.root, y, k, NoHole, lev, G)) /\ lev[y] < lev[x] /\ Unmoved(h, f.node)
  <1>1. /\ Proper(h, r, lev, K) /\ x \in DOMAIN h /\ (x = r \/ Len(h[x].key) >= MinDegree)
        /\ (Occurs(h, k) => Under(h, x, k)) /\ k \in Int
    BY BTreeAssumption DEF RemovesAt, Removing
  <1>2. /\ Tree(h, r, lev, K) /\ Frame(h, r, lev) /\ Sized(h, r) /\ Fenced(h, K) /\ HeapType(h) /\ Shaped(h)
    BY <1>1, ProperSays
  <1>3. Losable(h, r, x)
    BY <1>1, <1>2 DEF Losable
  <1>4. Len(h[x].key) \in Nat /\ Ints(h[x].key, Len(h[x].key)) /\ Rising(h[x])
    BY <1>1, <1>2, NodeFence
  <1>5. i \in 1 .. Len(h[x].key) + 1 /\ Between(h[x], i, k)
    BY <1>1, <1>4, FoundAt
  <1>6. i \in 1 .. Len(h[x].child)
    BY <1>1, <1>2, <1>5, KidsCount
  <1>7. \/ f.root = r /\ Kept(h, f.node, r, lev, x, i)
        \/ x = r /\ f.root # r /\ Vanished(h, f.node, r, f.root, lev)
    BY <1>2, <1>3, <1>6, FixIs
  <1>8. CASE x = r /\ f.root # r /\ Vanished(h, f.node, r, f.root, lev)
    <2>1. y = f.root
      BY <1>8
    <2>2. /\ (\E G : RemovesAt(f.node, f.root, f.root, k, NoHole, lev, G)) /\ lev[f.root] < lev[r]
          /\ Unmoved(h, f.node)
      BY <1>1, <1>8, VanishedArrives
    <2>3. QED
      BY <1>8, <2>1, <2>2
  <1>9. CASE f.root = r /\ Kept(h, f.node, r, lev, x, i)
    <2> PICK g : g = f.node
      OBVIOUS
    <2>1. PICK q : Fixed(h, g, x, i, q)
      BY <1>9 DEF Kept
    <2>2. Reshaped(h, g, r, lev, x) /\ Sized(g, r)
      BY <1>9 DEF Kept
    <2> PICK c : c = g[x].child[q]
      OBVIOUS
    <2>3. /\ \E G : Proper(g, r, lev, G)
          /\ Unmoved(h, g) /\ x \in DOMAIN g /\ ~g[x].leaf /\ q \in 1 .. Len(g[x].child)
          /\ c \in DOMAIN g \ {r} /\ lev[c] \in Nat /\ lev[x] \in Nat /\ lev[c] + 1 = lev[x]
          /\ c \in KidSet(g[x]) /\ Len(g[c].key) >= MinDegree
          /\ \A v : Under(g, x, v) <=> Under(h, x, v)
      BY <1>1, <2>1, <2>2, KeptChild
    <2>4. PICK G : Proper(g, r, lev, G)
      BY <2>3
    <2>5. Tree(g, r, lev, G) /\ HeapType(g) /\ Shaped(g) /\ Fenced(g, G)
      BY <2>4, ProperSays
    <2>6. Len(g[x].key) \in Nat /\ Ints(g[x].key, Len(g[x].key)) /\ Rising(g[x])
      BY <2>3, <2>5, NodeFence
    <2>7. q \in 1 .. Len(g[x].key) + 1
      BY <2>3, <2>5, KidsCount
    <2>8. Between(g[x], q, k)
      BY <1>1, <1>5, <2>1 DEF Fixed
    <2>9. FindIndex(g[x], k) = q
      BY <1>1, <2>6, <2>7, <2>8, FoundBetween
    <2>10. y = c
      BY <1>9, <2>9
    <2>11. Occurs(g, k) => Under(g, c, k)
      <3>1. SUFFICES ASSUME Occurs(g, k) PROVE Under(g, c, k)
        OBVIOUS
      <3>2. Occurs(h, k)
        BY <1>2, <2>3, <2>5, <3>1, UnmovedOccurs
      <3>3. Under(g, x, k)
        BY <1>1, <2>3, <3>2
      <3>4. Under(g, g[x].child[q], k)
        BY <1>1, <2>3, <2>5, <2>8, <3>3, UnderFound
      <3>5. QED
        BY <3>4
    <2>12. RemovesAt(g, r, c, k, NoHole, lev, G)
      BY <2>3, <2>4, <2>11 DEF RemovesAt, Removing
    <2>13. lev[c] < lev[x]
      BY <2>3
    <2>14. QED
      BY <1>9, <2>3, <2>10, <2>12, <2>13
  <1>10. QED
    BY <1>7, <1>8, <1>9

(* The outermost child of a node on the way to a replacing key is on it.    *)
LEMMA LastIsHindmost ==
  ASSUME NEW h, NEW r, NEW lev, NEW K, Tree(h, r, lev, K), NEW x \in DOMAIN h, ~h[x].leaf,
         NEW c, Hindmost(h, c, x), NEW y, y = h[x].child[Len(h[x].child)]
  PROVE  Hindmost(h, c, y)
  <1>1. HeapType(h) /\ Fenced(h, K) /\ Shaped(h) /\ Frame(h, r, lev)
    BY DEF Tree, Frame
  <1>2. /\ Fenced(h, Core(h, K))
        /\ \A n \in Nodes : \A v : v \in Core(h, K)[n] <=> Under(h, n, v)
    BY <1>1, CoreFences
  <1>3. Len(h[x].key) \in Nat /\ Ints(h[x].key, Len(h[x].key)) /\ Beside(h[x], Core(h, K))
    BY <1>1, <1>2, NodeFence
  <1>4. Len(h[x].child) = Len(h[x].key) + 1
    BY <1>1, KidsCount
  <1> PICK n \in Nat : n = Len(h[x].key)
    BY <1>3
  <1>5. y = h[x].child[n + 1] /\ y \in DOMAIN h /\ y \in KidSet(h[x]) /\ y \in Nodes
    <2>1. n + 1 \in 1 .. Len(h[x].child)
      BY <1>4
    <2>2. h[x].child[n + 1] \in DOMAIN h \ {r} /\ h[x].child[n + 1] \in KidSet(h[x])
      BY <1>1, <2>1, ChildIs
    <2>3. QED
      BY <1>1, <1>4, <2>2 DEF HeapType
  <1>6. \A u : Under(h, y, u) => Under(h, x, u)
    BY <1>5, UnderKid
  <1>7. \A a \in 1 .. n, j \in 1 .. n + 1 : \A v : Under(h, h[x].child[j], v) =>
          IF j <= a THEN v <= h[x].key[a] ELSE h[x].key[a] <= v
    <2>1. ASSUME NEW a \in 1 .. n, NEW j \in 1 .. n + 1, NEW v, Under(h, h[x].child[j], v)
          PROVE  IF j <= a THEN v <= h[x].key[a] ELSE h[x].key[a] <= v
      <3>1. h[x].child[j] \in Nodes
        BY <1>1, <1>4, ChildIs DEF HeapType
      <3>2. v \in Core(h, K)[h[x].child[j]]
        BY <1>2, <2>1, <3>1
      <3>3. QED
        BY <1>3, <1>4, <3>2 DEF Beside, Apart
    <2>2. QED
      BY <2>1
  <1>8. ASSUME NEW v, Under(h, x, v), ~Under(h, y, v), NEW u, Under(h, y, u) PROVE v <= u
    <2>1. u \in Int /\ v \in Int
      BY <1>1, <1>5, <1>8, UnderOccurs
    <2>2. CASE KeyAt(h[x], v)
      <3>1. PICK a \in 1 .. n : h[x].key[a] = v
        BY <2>2 DEF KeyAt
      <3>2. ~(n + 1 <= a) /\ n + 1 \in 1 .. n + 1
        OBVIOUS
      <3>3. h[x].key[a] <= u
        BY <1>5, <1>7, <1>8, <3>2
      <3>4. QED
        BY <3>1, <3>3
    <2>3. CASE ~KeyAt(h[x], v)
      <3>1. PICK c2 \in KidSet(h[x]) : Under(h, c2, v)
        BY <1>1, <1>8, <2>3, UnderDown
      <3>2. PICK j \in 1 .. n + 1 : c2 = h[x].child[j]
        BY <1>4 DEF KidSet, Elements
      <3>3. j # n + 1
        BY <1>5, <1>8, <3>1, <3>2
      <3>4. j \in 1 .. n /\ j <= j /\ ~(n + 1 <= j) /\ n + 1 \in 1 .. n + 1
        BY <3>3
      <3>5. v <= h[x].key[j] /\ h[x].key[j] <= u
        BY <1>5, <1>7, <1>8, <3>1, <3>2, <3>4
      <3>6. h[x].key[j] \in Int
        BY <1>3, <3>4 DEF Ints
      <3>7. QED
        BY <2>1, <3>5, <3>6
    <2>4. QED
      BY <2>2, <2>3
  <1>9. \A u : Under(h, y, u) => Under(h, c, u)
    BY <1>6 DEF Hindmost
  <1>10. ASSUME NEW v, Under(h, c, v) PROVE Under(h, y, v) \/ \A u : Under(h, y, u) => v <= u
    BY <1>6, <1>8, <1>10 DEF Hindmost
  <1>11. QED
    BY <1>9, <1>10 DEF Hindmost

LEMMA FirstIsForemost ==
  ASSUME NEW h, NEW r, NEW lev, NEW K, Tree(h, r, lev, K), NEW x \in DOMAIN h, ~h[x].leaf,
         NEW c, Foremost(h, c, x), NEW y, y = h[x].child[1]
  PROVE  Foremost(h, c, y)
  <1>1. HeapType(h) /\ Fenced(h, K) /\ Shaped(h) /\ Frame(h, r, lev)
    BY DEF Tree, Frame
  <1>2. /\ Fenced(h, Core(h, K))
        /\ \A n \in Nodes : \A v : v \in Core(h, K)[n] <=> Under(h, n, v)
    BY <1>1, CoreFences
  <1>3. Len(h[x].key) \in Nat /\ Ints(h[x].key, Len(h[x].key)) /\ Beside(h[x], Core(h, K))
    BY <1>1, <1>2, NodeFence
  <1>4. Len(h[x].child) = Len(h[x].key) + 1
    BY <1>1, KidsCount
  <1> PICK n \in Nat : n = Len(h[x].key)
    BY <1>3
  <1>5. y = h[x].child[1] /\ y \in DOMAIN h /\ y \in KidSet(h[x]) /\ y \in Nodes
    <2>1. 1 \in 1 .. Len(h[x].child)
      BY <1>4
    <2>2. h[x].child[1] \in DOMAIN h \ {r} /\ h[x].child[1] \in KidSet(h[x])
      BY <1>1, <2>1, ChildIs
    <2>3. QED
      BY <1>1, <2>2 DEF HeapType
  <1>6. \A u : Under(h, y, u) => Under(h, x, u)
    BY <1>5, UnderKid
  <1>7. \A a \in 1 .. n, j \in 1 .. n + 1 : \A v : Under(h, h[x].child[j], v) =>
          IF j <= a THEN v <= h[x].key[a] ELSE h[x].key[a] <= v
    <2>1. ASSUME NEW a \in 1 .. n, NEW j \in 1 .. n + 1, NEW v, Under(h, h[x].child[j], v)
          PROVE  IF j <= a THEN v <= h[x].key[a] ELSE h[x].key[a] <= v
      <3>1. h[x].child[j] \in Nodes
        BY <1>1, <1>4, ChildIs DEF HeapType
      <3>2. v \in Core(h, K)[h[x].child[j]]
        BY <1>2, <2>1, <3>1
      <3>3. QED
        BY <1>3, <1>4, <3>2 DEF Beside, Apart
    <2>2. QED
      BY <2>1
  <1>8. ASSUME NEW v, Under(h, x, v), ~Under(h, y, v), NEW u, Under(h, y, u) PROVE u <= v
    <2>1. u \in Int /\ v \in Int
      BY <1>1, <1>5, <1>8, UnderOccurs
    <2>2. CASE KeyAt(h[x], v)
      <3>1. PICK a \in 1 .. n : h[x].key[a] = v
        BY <2>2 DEF KeyAt
      <3>2. 1 <= a /\ 1 \in 1 .. n + 1
        OBVIOUS
      <3>3. u <= h[x].key[a]
        BY <1>5, <1>7, <1>8, <3>2
      <3>4. QED
        BY <3>1, <3>3
    <2>3. CASE ~KeyAt(h[x], v)
      <3>1. PICK c2 \in KidSet(h[x]) : Under(h, c2, v)
        BY <1>1, <1>8, <2>3, UnderDown
      <3>2. PICK j \in 1 .. n + 1 : c2 = h[x].child[j]
        BY <1>4 DEF KidSet, Elements
      <3>3. j # 1
        BY <1>5, <1>8, <3>1, <3>2
      <3>4. j - 1 \in 1 .. n /\ ~(j <= j - 1) /\ 1 <= j - 1 /\ 1 \in 1 .. n + 1
        BY <3>3
      <3>5. h[x].key[j - 1] <= v /\ u <= h[x].key[j - 1]
        BY <1>5, <1>7, <1>8, <3>1, <3>2, <3>4
      <3>6. h[x].key[j - 1] \in Int
        BY <1>3, <3>4 DEF Ints
      <3>7. QED
        BY <2>1, <3>5, <3>6
    <2>4. QED
      BY <2>2, <2>3
  <1>9. \A u : Under(h, y, u) => Under(h, c, u)
    BY <1>6 DEF Foremost
  <1>10. ASSUME NEW v, Under(h, c, v) PROVE Under(h, y, v) \/ \A u : Under(h, y, u) => u <= v
    BY <1>6, <1>8, <1>10 DEF Foremost
  <1>11. QED
    BY <1>9, <1>10 DEF Foremost

Outermost(x, side) == x.child[IF side = "left" THEN Len(x.child) ELSE 1]

(* The way to the replacing key goes on.                                    *)
LEMMA HoleFixes ==
  ASSUME NEW h, NEW r, NEW x, NEW k, NEW o, o # NoHole, NEW lev, NEW K, RemovesAt(h, r, x, k, o, lev, K),
         ~h[x].leaf, NEW i, i = IF o.side = "left" THEN Len(h[x].key) + 1 ELSE 1,
         NEW f, f = FixChildSize(h, r, x, i),
         NEW y, y = Outermost(f.node[x], o.side)
  PROVE  /\ (\E G : RemovesAt(f.node, r, y, k, o, lev, G)) /\ lev[y] < lev[x]
         /\ Unmoved(h, f.node) /\ f.root = r
  <1>1. /\ Proper(h, r, lev, K) /\ x \in DOMAIN h /\ (x = r \/ Len(h[x].key) >= MinDegree)
        /\ HoleAt(h, r, lev, x, k, o)
    BY DEF RemovesAt, Removing
  <1>2. /\ x # r /\ o.side \in {"left", "right"}
        /\ o.node \in DOMAIN h /\ ~h[o.node].leaf /\ lev[x] < lev[o.node]
        /\ o.key \in 1 .. Len(h[o.node].key) /\ h[o.node].key[o.key] = k
        /\ o.side = "left" => Hindmost(h, h[o.node].child[o.key], x)
        /\ o.side = "right" => Foremost(h, h[o.node].child[o.key + 1], x)
    BY <1>1 DEF HoleAt
  <1>3. Tree(h, r, lev, K) /\ Frame(h, r, lev) /\ Sized(h, r) /\ HeapType(h) /\ Shaped(h) /\ Levelled(h, lev)
    BY <1>1, ProperSays
  <1>4. Losable(h, r, x)
    BY <1>1, <1>3 DEF Losable
  <1>5. Len(h[x].child) = Len(h[x].key) + 1 /\ Len(h[x].key) \in Nat
    BY <1>1, <1>3, KidsCount
  <1>6. i \in 1 .. Len(h[x].child)
    BY <1>5
  <1>7. f.root = r /\ Kept(h, f.node, r, lev, x, i)
    BY <1>2, <1>3, <1>4, <1>6, FixIs
  <1> PICK g : g = f.node
    OBVIOUS
  <1>8. Reshaped(h, g, r, lev, x) /\ Sized(g, r)
    BY <1>7 DEF Kept
  <1>9. PICK q : Fixed(h, g, x, i, q)
    BY <1>7 DEF Kept
  <1> PICK c : c = g[x].child[q]
    OBVIOUS
  <1>10. /\ \E G : Proper(g, r, lev, G)
         /\ Unmoved(h, g) /\ x \in DOMAIN g /\ ~g[x].leaf /\ q \in 1 .. Len(g[x].child)
         /\ c \in DOMAIN g \ {r} /\ lev[c] \in Nat /\ lev[x] \in Nat /\ lev[c] + 1 = lev[x]
         /\ c \in KidSet(g[x]) /\ Len(g[c].key) >= MinDegree
         /\ \A v : Under(g, x, v) <=> Under(h, x, v)
    <2>1. Proper(h, r, lev, K) /\ x \in DOMAIN h
      BY <1>1
    <2>2. Reshaped(h, g, r, lev, x) /\ Sized(g, r)
      BY <1>8
    <2>3. Fixed(h, g, x, i, q)
      BY <1>9
    <2>4. QED
      BY <2>1, <2>2, <2>3, KeptChild, SMTT(40)
  <1>11. PICK G : Proper(g, r, lev, G)
    BY <1>10
  <1>12. Tree(g, r, lev, G)
    BY <1>11, ProperSays
  <1>13. q = IF o.side = "left" THEN Len(g[x].child) ELSE 1
    BY <1>5, <1>9 DEF Fixed
  <1>14. y = c
    BY <1>13 DEF Outermost
  <1>15. \A n \in DOMAIN h : lev[n] >= lev[x] =>
           /\ n \in DOMAIN g /\ (n # x => g[n] = h[n])
           /\ \A v : Under(g, n, v) <=> Under(h, n, v)
    BY <1>8 DEF Reshaped
  <1>16. \A n \in DOMAIN h : lev[n] \in Nat
    BY <1>3 DEF Levelled, HeapType
  <1>16a. lev[x] \in Nat /\ lev[o.node] \in Nat /\ lev[x] < lev[o.node]
    BY <1>1, <1>2, <1>16
  <1>17. o.node \in DOMAIN g /\ g[o.node] = h[o.node]
    <2>1. lev[o.node] >= lev[x] /\ o.node # x
      BY <1>16a
    <2>2. QED
      BY <1>2, <1>15, <2>1
  (* The child on the way to x is at least as high as x.                    *)
  <1>18. ASSUME NEW j \in 1 .. Len(h[o.node].child), NEW d, d = h[o.node].child[j]
         PROVE  \A v : Under(g, d, v) <=> Under(h, d, v)
    <2>1. d \in DOMAIN h /\ lev[d] \in Nat /\ lev[o.node] \in Nat /\ lev[d] + 1 = lev[o.node]
      BY <1>2, <1>3, <1>18, ChildIs
    <2>2. lev[d] >= lev[x]
      BY <1>16a, <2>1
    <2>3. QED
      BY <1>15, <2>1, <2>2
  <1>19. Len(h[o.node].child) = Len(h[o.node].key) + 1 /\ Len(h[o.node].key) \in Nat
    BY <1>2, <1>3, KidsCount
  <1>20. ASSUME o.side = "left" PROVE Hindmost(g, g[o.node].child[o.key], y)
    <2>1. PICK d : d = h[o.node].child[o.key]
      OBVIOUS
    <2>2. \A v : Under(g, d, v) <=> Under(h, d, v)
      <3>1. o.key \in 1 .. Len(h[o.node].child)
        BY <1>2, <1>19
      <3>2. QED
        BY <1>18, <2>1, <3>1
    <2>3. Hindmost(h, d, x)
      BY <1>2, <1>20, <2>1
    <2>4. Hindmost(g, d, x)
      BY <1>10, <2>2, <2>3 DEF Hindmost
    <2>5. y = g[x].child[Len(g[x].child)]
      BY <1>20 DEF Outermost
    <2>6. Hindmost(g, d, y)
      BY <1>10, <1>12, <2>4, <2>5, LastIsHindmost
    <2>7. QED
      BY <1>17, <2>1, <2>6
  <1>21. ASSUME o.side = "right" PROVE Foremost(g, g[o.node].child[o.key + 1], y)
    <2>1. PICK d : d = h[o.node].child[o.key + 1]
      OBVIOUS
    <2>2. \A v : Under(g, d, v) <=> Under(h, d, v)
      <3>1. o.key + 1 \in 1 .. Len(h[o.node].child)
        BY <1>2, <1>19
      <3>2. QED
        BY <1>18, <2>1, <3>1
    <2>3. Foremost(h, d, x)
      BY <1>2, <1>21, <2>1
    <2>4. Foremost(g, d, x)
      BY <1>10, <2>2, <2>3 DEF Foremost
    <2>5. y = g[x].child[1]
      BY <1>21 DEF Outermost
    <2>6. Foremost(g, d, y)
      BY <1>10, <1>12, <2>4, <2>5, FirstIsForemost
    <2>7. QED
      BY <1>17, <2>1, <2>6
  <1>22. lev[y] < lev[x] /\ lev[y] < lev[o.node] /\ y # r
    <2>1. lev[c] < lev[x]
      <3>1. lev[c] \in Nat /\ lev[x] \in Nat /\ lev[c] + 1 = lev[x]
        BY <1>10
      <3>2. QED
        BY <3>1
    <2>2. lev[c] < lev[o.node]
      <3>1. lev[c] \in Nat /\ lev[x] \in Nat
        BY <1>10
      <3>2. QED
        BY <2>1, <3>1, <1>16a
    <2>3. c # r
      BY <1>10
    <2>4. QED
      BY <2>1, <2>2, <2>3, <1>14
  <1>23. HoleAt(g, r, lev, y, k, o)
    BY <1>2, <1>17, <1>20, <1>21, <1>22 DEF HoleAt
  <1>24. RemovesAt(g, r, y, k, o, lev, G)
    BY <1>10, <1>11, <1>14, <1>23 DEF RemovesAt, Removing
  <1>25. QED
    BY <1>7, <1>10, <1>22, <1>24

(* The key of the leaf that replaces k in a node above it.                  *)
LEMMA Replaceable ==
  ASSUME NEW h, NEW r, NEW x, NEW k, NEW o, NEW lev, NEW K, Proper(h, r, lev, K), x \in DOMAIN h,
         HoleAt(h, r, lev, x, k, o), h[x].leaf, Len(h[x].key) >= 1,
         NEW i, i = IF o.side = "left" THEN Len(h[x].key) ELSE 1,
         NEW u, u = h[x].key[i]
  PROVE  Under(h, o.node, u) /\ Exchangeable(h[o.node], o.key, u, Core(h, K))
  <1>1. /\ o.side \in {"left", "right"}
        /\ o.node \in DOMAIN h /\ ~h[o.node].leaf
        /\ o.key \in 1 .. Len(h[o.node].key)
        /\ o.side = "left" => Hindmost(h, h[o.node].child[o.key], x)
        /\ o.side = "right" => Foremost(h, h[o.node].child[o.key + 1], x)
    BY DEF HoleAt
  <1>2. HeapType(h) /\ Fenced(h, K) /\ Shaped(h) /\ Frame(h, r, lev)
    BY ProperSays
  <1>3. /\ Fenced(h, Core(h, K))
        /\ \A n \in Nodes : \A v : v \in Core(h, K)[n] <=> Under(h, n, v)
    BY <1>2, CoreFences
  <1>4. Len(h[x].key) \in Nat /\ Ints(h[x].key, Len(h[x].key)) /\ Rising(h[x])
    BY <1>2, NodeFence
  <1>5. i \in 1 .. Len(h[x].key)
    BY <1>4
  <1>6. KeyAt(h[x], u) /\ Under(h, x, u)
    BY <1>5, UnderKey DEF KeyAt
  <1>7. /\ Len(h[o.node].child) = Len(h[o.node].key) + 1 /\ Len(h[o.node].key) \in Nat
        /\ Core(h, K)[o.node] \subseteq Int /\ FencedNode(h[o.node], Core(h, K)[o.node], Core(h, K))
    BY <1>1, <1>2, <1>3, KidsCount, NodeFence DEF Fenced
  <1>8. ASSUME NEW v, Under(h, x, v) PROVE IF o.side = "left" THEN v <= u ELSE u <= v
    <2>1. PICK a \in 1 .. Len(h[x].key) : h[x].key[a] = v
      BY <1>2, <1>8, LeafHolds DEF KeyAt
    <2>2. CASE o.side = "left"
      <3>1. a <= i
        BY <2>2, <1>4
      <3>2. h[x].key[a] <= h[x].key[i]
        BY <1>4, <1>5, <3>1 DEF Rising, Up
      <3>3. QED
        BY <2>1, <2>2, <3>2
    <2>3. CASE o.side # "left"
      <3>1. i <= a
        BY <2>3, <1>4
      <3>2. h[x].key[i] <= h[x].key[a]
        BY <1>4, <1>5, <3>1 DEF Rising, Up
      <3>3. QED
        BY <2>1, <2>3, <3>2
    <2>4. QED
      BY <2>2, <2>3
  <1>9. CASE o.side = "left"
    <2>1. PICK c : c = h[o.node].child[o.key]
      OBVIOUS
    <2>2. Hindmost(h, c, x)
      BY <1>1, <1>9, <2>1
    <2>3. c \in KidSet(h[o.node]) /\ c \in Nodes
      <3>1. o.key \in 1 .. Len(h[o.node].child)
        BY <1>1, <1>7
      <3>2. QED
        BY <1>1, <1>2, <2>1, <3>1, ChildIs DEF HeapType
    <2>4. Under(h, c, u)
      BY <1>6, <2>2 DEF Hindmost
    <2>5. Under(h, o.node, u)
      BY <1>1, <2>3, <2>4, UnderKid
    <2>6. \A v \in Core(h, K)[c] : v <= u
      <3>1. ASSUME NEW v \in Core(h, K)[c] PROVE v <= u
        <4>1. Under(h, c, v)
          BY <1>3, <2>3, <3>1
        <4>2. Under(h, x, v) \/ \A w : Under(h, x, w) => v <= w
          BY <2>2, <4>1 DEF Hindmost
        <4>3. QED
          BY <1>6, <1>8, <1>9, <4>2
      <3>2. QED
        BY <3>1
    <2>7. u \in Core(h, K)[c]
      BY <1>3, <2>3, <2>4
    <2>8. Exchangeable(h[o.node], o.key, u, Core(h, K))
      BY <1>1, <1>7, <2>1, <2>6, <2>7, ExchangeableLeft
    <2>9. QED
      BY <2>5, <2>8
  <1>10. CASE o.side = "right"
    <2>1. PICK c : c = h[o.node].child[o.key + 1]
      OBVIOUS
    <2>2. Foremost(h, c, x)
      BY <1>1, <1>10, <2>1
    <2>3. c \in KidSet(h[o.node]) /\ c \in Nodes
      <3>1. o.key + 1 \in 1 .. Len(h[o.node].child)
        BY <1>1, <1>7
      <3>2. QED
        BY <1>1, <1>2, <2>1, <3>1, ChildIs DEF HeapType
    <2>4. Under(h, c, u)
      BY <1>6, <2>2 DEF Foremost
    <2>5. Under(h, o.node, u)
      BY <1>1, <2>3, <2>4, UnderKid
    <2>6. \A v \in Core(h, K)[c] : u <= v
      <3>1. ASSUME NEW v \in Core(h, K)[c] PROVE u <= v
        <4>1. Under(h, c, v)
          BY <1>3, <2>3, <3>1
        <4>2. Under(h, x, v) \/ \A w : Under(h, x, w) => w <= v
          BY <2>2, <4>1 DEF Foremost
        <4>3. QED
          BY <1>6, <1>8, <1>10, <4>2
      <3>2. QED
        BY <3>1
    <2>7. u \in Core(h, K)[c]
      BY <1>3, <2>3, <2>4
    <2>8. Exchangeable(h[o.node], o.key, u, Core(h, K))
      BY <1>1, <1>7, <2>1, <2>6, <2>7, ExchangeableRight
    <2>9. QED
      BY <2>5, <2>8
  <1>11. QED
    BY <1>1, <1>9, <1>10

LEMMA TradedLost ==
  ASSUME NEW h, HeapType(h), NEW e, NEW g, NEW k, NEW u, Traded(h, e, k, u), Lost(e, g, u)
  PROVE  Lost(h, g, k)
  <1>1. ASSUME NEW V PROVE Total(KeysOf(g), V) = Total(KeysOf(h), V) - One(k, V)
    <2>1. Total(KeysOf(e), V) = Total(KeysOf(h), V) - One(k, V) + One(u, V)
      BY DEF Traded
    <2>2. Total(KeysOf(g), V) = Total(KeysOf(e), V) - One(u, V)
      BY DEF Lost
    <2>3. Total(KeysOf(h), V) \in Int
      BY HeapLists, TotalType
    <2>4. One(k, V) \in Int /\ One(u, V) \in Int
      BY DEF One
    <2>5. QED
      BY <2>1, <2>2, <2>3, <2>4
  <1>2. QED
    BY <1>1 DEF Lost

(* The key of the leaf takes the place of k, and leaves the leaf.           *)
LEMMA HoleEnds ==
  ASSUME NEW h, NEW r, NEW x, NEW k \in Keys, NEW o, o # NoHole, NEW lev, NEW K,
         RemovesAt(h, r, x, k, o, lev, K), h[x].leaf,
         NEW i, i = IF o.side = "left" THEN Len(h[x].key) ELSE 1,
         NEW g, g = Shrunk(Swapped(h, o.node, o.key, h[x].key[i]), x, i)
  PROVE  Proper(g, r, lev, Core(h, K)) /\ Lost(h, g, k) /\ Occurs(h, k)
  <1> PICK u : u = h[x].key[i]
    OBVIOUS
  <1> PICK e : e = Swapped(h, o.node, o.key, u)
    OBVIOUS
  <1>1. /\ Proper(h, r, lev, K) /\ x \in DOMAIN h /\ (x = r \/ Len(h[x].key) >= MinDegree)
        /\ HoleAt(h, r, lev, x, k, o)
    BY DEF RemovesAt, Removing
  <1>2. /\ x # r /\ o.node \in DOMAIN h /\ ~h[o.node].leaf
        /\ o.key \in 1 .. Len(h[o.node].key) /\ h[o.node].key[o.key] = k
    BY <1>1 DEF HoleAt
  <1>3. /\ Tree(h, r, lev, K) /\ HeapType(h) /\ Fenced(h, K) /\ Frame(h, r, lev)
        /\ Sized(h, r) /\ Stocked(h)
    BY <1>1, ProperSays
  <1>4. Len(h[x].key) \in Nat /\ Len(h[x].key) >= MinDegree /\ Len(h[x].key) >= 1
    BY <1>1, <1>2, <1>3, NodeTypes, BTreeAssumption
  <1>5. i \in 1 .. Len(h[x].key)
    BY <1>4
  <1>6. u \in Keys
    BY <1>1, <1>3, <1>5, NodeTypes
  <1>7. Under(h, o.node, u) /\ Exchangeable(h[o.node], o.key, u, Core(h, K))
    BY <1>1, <1>4, Replaceable
  <1>8. Tree(h, r, lev, Core(h, K)) /\ u \in Core(h, K)[o.node]
    <2>1. o.node \in Nodes
      BY <1>2, <1>3 DEF HeapType
    <2>2. QED
      BY <1>3, <1>7, <2>1, CoreFences DEF Tree
  <1>9. /\ Tree(e, r, lev, Core(h, K)) /\ Traded(h, e, h[o.node].key[o.key], u)
        /\ DOMAIN e = DOMAIN h /\ SameOn(h, e, DOMAIN h \ {o.node})
        /\ e[o.node].leaf = h[o.node].leaf /\ Len(e[o.node].key) = Len(h[o.node].key)
    <2>1. Tree(e, r, lev, Core(h, K)) /\ SwapEffect(h, e, o.node, o.key, u)
      BY <1>2, <1>6, <1>7, <1>8, KeyTraded
    <2>2. QED
      BY <2>1 DEF SwapEffect
  <1>10. Sized(e, r)
    <2>1. ASSUME NEW n \in DOMAIN e PROVE SizedNode(e[n], n = r)
      <3>1. SizedNode(h[n], n = r)
        BY <1>3, <1>9 DEF Sized
      <3>2. CASE n # o.node
        BY <1>9, <3>1, <3>2 DEF SameOn
      <3>3. CASE n = o.node
        BY <1>9, <3>1, <3>3 DEF SizedNode
      <3>4. QED
        BY <3>2, <3>3
    <2>2. QED
      BY <2>1 DEF Sized
  <1>11. e[x] = h[x] /\ x \in DOMAIN e
    BY <1>1, <1>2, <1>9 DEF SameOn
  <1>12. g = Shrunk(e, x, i)
    OBVIOUS
  <1>13. Tree(g, r, lev, Core(h, K)) /\ Sized(g, r) /\ Lost(e, g, e[x].key[i])
    BY <1>4, <1>5, <1>9, <1>10, <1>11, <1>12, LeafLoses
  <1>14. Lost(h, g, k)
    <2>1. Traded(h, e, k, u) /\ Lost(e, g, u)
      BY <1>2, <1>9, <1>11, <1>13
    <2>2. QED
      BY <1>3, <2>1, TradedLost
  <1>15. Stocked(g)
    BY <1>3, <1>14, LostStock
  <1>16. Occurs(h, k)
    BY <1>2 DEF Occurs
  <1>17. QED
    BY <1>13, <1>14, <1>15, <1>16 DEF Proper

----------------------------------------------------------------------------
(* The invariant and the calls                                              *)

(* A call of insert, and a call of remove, on its way.                      *)
LEMMA InsertCall ==
  ASSUME NEW h, NEW r, NEW x, NEW k \in Keys, NEW lev, NEW K, InsertsAt(h, r, x, k, lev, K),
         NEW c, c = [do |-> "insert", key |-> k]
  PROVE  Sound(h, r, c, x, NoHole, lev, K)
  <1>1. c.do = "insert" /\ c.key = k /\ c \in Calls
    BY DEF Calls
  <1>2. "insert" # "remove"
    OBVIOUS
  <1>3. c # NoCall
    <2>1. "insert" # "none" /\ NoCall.do = "none"
      BY DEF NoCall
    <2>2. QED
      BY <1>1, <2>1
  <1>4. QED
    BY <1>1, <1>2, <1>3 DEF InsertsAt, Sound, Calling

LEMMA RemoveCall ==
  ASSUME NEW h, NEW r, NEW x, NEW k \in Keys, NEW o, NEW lev, NEW K, RemovesAt(h, r, x, k, o, lev, K),
         NEW c, c = [do |-> "remove", key |-> k]
  PROVE  Sound(h, r, c, x, o, lev, K)
  <1>1. c.do = "remove" /\ c.key = k /\ c \in Calls
    BY DEF Calls
  <1>2. "insert" # "remove"
    OBVIOUS
  <1>3. c # NoCall
    <2>1. "remove" # "none" /\ NoCall.do = "none"
      BY DEF NoCall
    <2>2. QED
      BY <1>1, <2>1
  <1>4. QED
    BY <1>1, <1>2, <1>3 DEF RemovesAt, Sound, Calling

LEMMA NoCallSound ==
  ASSUME NEW h, NEW r, NEW x, NEW lev, NEW K, Proper(h, r, lev, K)
  PROVE  Sound(h, r, NoCall, x, NoHole, lev, K)
  BY DEF Sound, Calling

(* What the invariant says of a call.                                       *)
LEMMA SoundSays ==
  ASSUME NEW h, NEW r, NEW c, NEW x, NEW o, NEW lev, NEW K, Sound(h, r, c, x, o, lev, K)
  PROVE  /\ Proper(h, r, lev, K)
         /\ c = NoCall => o = NoHole
         /\ c # NoCall => /\ c.key \in Keys /\ c.do \in {"insert", "remove"} /\ c \in Calls
                          /\ c = [do |-> c.do, key |-> c.key]
         /\ c # NoCall /\ c.do = "insert" => o = NoHole /\ InsertsAt(h, r, x, c.key, lev, K)
         /\ c # NoCall /\ c.do = "remove" => RemovesAt(h, r, x, c.key, o, lev, K)
  <1>1. Proper(h, r, lev, K) /\ Calling(h, r, c, x, o, lev, K)
    BY DEF Sound
  <1>2. c # NoCall => c \in Calls
    BY <1>1 DEF Calling
  <1>3. c # NoCall => /\ c.key \in Keys /\ c.do \in {"insert", "remove"}
                      /\ c = [do |-> c.do, key |-> c.key]
    BY <1>2 DEF Calls
  <1>4. QED
    BY <1>1, <1>2, <1>3 DEF Calling, InsertsAt, RemovesAt

----------------------------------------------------------------------------
(* The bag of keys                                                          *)

PlacesOf(h) == {p \in (DOMAIN h) \X (1 .. Full) : p[2] <= Len(h[p[1]].key)}
BagOf(h) == [k \in Keys |-> Cardinality({p \in PlacesOf(h) : h[p[1]].key[p[2]] = k})]

(* The bag of the module is the count of each key.                          *)
LEMMA BagIs ==
  ASSUME NEW h, NEW r, NEW lev, NEW K, Proper(h, r, lev, K)
  PROVE  /\ \A k \in Keys : BagOf(h)[k] = Copies(h, k)
         /\ Cardinality(PlacesOf(h)) = Number(h)
  <1>1. HeapType(h) /\ Sized(h, r) /\ Full \in Nat
    BY ProperSays, BTreeAssumption DEF Full
  <1>2. /\ Lists(KeysOf(h)) /\ DOMAIN KeysOf(h) = DOMAIN h
        /\ \A n \in DOMAIN h : KeysOf(h)[n] = h[n].key
    BY <1>1, HeapLists
  <1>3. \A n \in DOMAIN h : Len(h[n].key) <= Full
    BY <1>1 DEF Sized, SizedNode
  <1>4. \A V : Cardinality(PlacesIn(KeysOf(h), DOMAIN h, Full, V)) = Total(KeysOf(h), V)
    <2>1. \A n \in DOMAIN KeysOf(h) : Len(KeysOf(h)[n]) <= Full
      BY <1>2, <1>3
    <2>2. ASSUME NEW V
          PROVE  Cardinality(PlacesIn(KeysOf(h), DOMAIN KeysOf(h), Full, V)) = Total(KeysOf(h), V)
      BY <1>1, <1>2, <2>1, PlacesCount
    <2>3. QED
      BY <1>2, <2>2
  <1>5. ASSUME NEW V
        PROVE  {p \in PlacesOf(h) : h[p[1]].key[p[2]] \in V} = PlacesIn(KeysOf(h), DOMAIN h, Full, V)
    <2>1. \A p \in (DOMAIN h) \X (1 .. Full) : KeysOf(h)[p[1]] = h[p[1]].key
      BY <1>2
    <2>2. QED
      BY <2>1 DEF PlacesOf, PlacesIn
  <1>6. ASSUME NEW k \in Keys PROVE BagOf(h)[k] = Copies(h, k)
    <2>1. {p \in PlacesOf(h) : h[p[1]].key[p[2]] = k} = {p \in PlacesOf(h) : h[p[1]].key[p[2]] \in {k}}
      OBVIOUS
    <2>2. BagOf(h)[k] = Cardinality(PlacesIn(KeysOf(h), DOMAIN h, Full, {k}))
      BY <1>5, <2>1 DEF BagOf
    <2>3. QED
      BY <1>4, <2>2 DEF Copies
  <1>7. Cardinality(PlacesOf(h)) = Number(h)
    <2>1. \A p \in PlacesOf(h) : h[p[1]].key[p[2]] \in Keys
      <3>1. ASSUME NEW p \in PlacesOf(h) PROVE h[p[1]].key[p[2]] \in Keys
        <4>1. p[1] \in DOMAIN h /\ p[2] \in 1 .. Full /\ p[2] <= Len(h[p[1]].key)
          BY <3>1 DEF PlacesOf
        <4>2. p[2] \in 1 .. Len(h[p[1]].key)
          BY <1>1, <4>1, NodeTypes
        <4>3. QED
          BY <1>1, <4>1, <4>2, NodeTypes
      <3>2. QED
        BY <3>1
    <2>2. PlacesOf(h) = PlacesIn(KeysOf(h), DOMAIN h, Full, Keys)
      BY <1>5, <2>1
    <2>3. QED
      BY <1>4, <2>2 DEF Number
  <1>8. QED
    BY <1>6, <1>7

LEMMA RoomIs ==
  ASSUME NEW lev, NEW K, Proper(node, root, lev, K), NEW k \in Keys, Room(k)
  PROVE  Roomy(node, k)
  <1>1. Bag = BagOf(node) /\ Held = Cardinality(PlacesOf(node))
    BY DEF Bag, BagOf, Held, Places, PlacesOf, Size
  <1>2. QED
    BY <1>1, BagIs DEF Room, Roomy

(* The bag changes as the counts do.                                        *)
LEMMA UnmovedBag ==
  ASSUME NEW h, NEW r, NEW lev, NEW K, Proper(h, r, lev, K),
         NEW g, NEW s, NEW m, NEW G, Proper(g, s, m, G), Unmoved(h, g)
  PROVE  BagOf(g) = BagOf(h)
  <1>1. ASSUME NEW k \in Keys PROVE BagOf(g)[k] = BagOf(h)[k]
    <2>1. BagOf(h)[k] = Copies(h, k) /\ BagOf(g)[k] = Copies(g, k)
      BY BagIs
    <2>2. QED
      BY <2>1, UnmovedSays
  <1>2. QED
    BY <1>1 DEF BagOf

LEMMA GainedBag ==
  ASSUME NEW h, NEW r, NEW lev, NEW K, Proper(h, r, lev, K),
         NEW g, NEW s, NEW m, NEW G, Proper(g, s, m, G), NEW k \in Keys, Roomy(h, k), Gained(h, g, k)
  PROVE  BagOf(g) = [BagOf(h) EXCEPT ![k] = @ + 1]
  <1>1. HeapType(h) /\ Stocked(h)
    BY ProperSays
  <1>2. \A v \in Keys : Copies(g, v) = Copies(h, v) + (IF v = k THEN 1 ELSE 0)
    BY <1>1, GainedStock
  <1>3. \A v \in Keys : BagOf(h)[v] = Copies(h, v)
    BY BagIs
  <1>4. \A v \in Keys : BagOf(g)[v] = Copies(g, v)
    BY BagIs
  <1>5. \A v \in Keys : Copies(h, v) \in Int
    BY <1>1, StockType
  <1>6. \A v \in Keys : BagOf(g)[v] = IF v = k THEN BagOf(h)[v] + 1 ELSE BagOf(h)[v]
    BY <1>2, <1>3, <1>4, <1>5
  <1>7. BagOf(g) = [v \in Keys |-> BagOf(g)[v]] /\ BagOf(h) = [v \in Keys |-> BagOf(h)[v]]
    BY DEF BagOf
  <1>8. QED
    BY <1>6, <1>7

LEMMA LostBag ==
  ASSUME NEW h, NEW r, NEW lev, NEW K, Proper(h, r, lev, K),
         NEW g, NEW s, NEW m, NEW G, Proper(g, s, m, G), NEW k \in Keys, Occurs(h, k), Lost(h, g, k)
  PROVE  BagOf(h)[k] > 0 /\ BagOf(g) = [BagOf(h) EXCEPT ![k] = @ - 1]
  <1>1. HeapType(h) /\ Stocked(h)
    BY ProperSays
  <1>2. \A v \in Keys : Copies(g, v) = Copies(h, v) - (IF v = k THEN 1 ELSE 0)
    BY <1>1, LostStock
  <1>3. \A v \in Keys : BagOf(h)[v] = Copies(h, v)
    BY BagIs
  <1>4. \A v \in Keys : BagOf(g)[v] = Copies(g, v)
    BY BagIs
  <1>5. \A v \in Keys : Copies(h, v) \in Int
    BY <1>1, StockType
  <1>6. \A v \in Keys : BagOf(g)[v] = IF v = k THEN BagOf(h)[v] - 1 ELSE BagOf(h)[v]
    BY <1>2, <1>3, <1>4, <1>5
  <1>7. BagOf(g) = [v \in Keys |-> BagOf(g)[v]] /\ BagOf(h) = [v \in Keys |-> BagOf(h)[v]]
    BY DEF BagOf
  <1>8. BagOf(h)[k] > 0
    <2>1. Copies(h, k) # 0
      BY <1>1, OccursCounted
    <2>2. Copies(h, k) \in Nat
      <3>1. Copies(h, k) = Total(KeysOf(h), {k}) /\ Lists(KeysOf(h))
        BY <1>1, HeapLists DEF Copies
      <3>2. \A n \in DOMAIN KeysOf(h) : Counts(KeysOf(h), {k})[n] \in Nat
        BY <3>1, CountType DEF Counts, Lists
      <3>3. IsFiniteSet(DOMAIN KeysOf(h))
        BY <3>1 DEF Lists
      <3>4. QED
        BY <3>1, <3>2, <3>3, SumNonnegative DEF Total
    <2>3. QED
      BY <1>3, <2>1, <2>2
  <1>9. QED
    BY <1>6, <1>7, <1>8

----------------------------------------------------------------------------
(* The steps                                                                *)

Nearer(h, r, x, g, s, y) ==
  \E l, m : /\ Frame(h, r, l) /\ Frame(g, s, m) /\ x \in DOMAIN h /\ y \in DOMAIN g
            /\ m[y] < l[x]

(* What a round of a loop does; what the end of a call does.                *)
Progress ==
  /\ IInv' /\ Bag' = Bag /\ call' = call /\ answer' = answer
  /\ Nearer(node, root, curr, node', root', curr')
Ending == IInv' /\ call' = NoCall /\ Promised!Finish

(* The bag now and after a step.                                            *)
LEMMA BagPrime == Bag = BagOf(node) /\ Bag' = BagOf(node')
  BY DEF Bag, BagOf, Places, PlacesOf, Size

(* A round that moves no key and goes down.                                 *)
LEMMA Progressed ==
  ASSUME NEW lev, NEW K, Sound(node, root, call, curr, hole, lev, K), call # NoCall,
         NEW m, NEW G, Sound(node', root', call', curr', hole', m, G),
         call' = call, answer' = answer, m[curr'] < lev[curr], Unmoved(node, node')
  PROVE  Progress
  <1>1. Proper(node, root, lev, K) /\ Proper(node', root', m, G)
    BY DEF Sound
  <1>2. IInv'
    BY DEF IInv
  <1>3. Bag' = Bag
    BY <1>1, BagPrime, UnmovedBag
  <1>4. curr \in DOMAIN node /\ curr' \in DOMAIN node'
    BY DEF Sound, Calling
  <1>5. Frame(node, root, lev) /\ Frame(node', root', m)
    BY <1>1, ProperSays
  <1>6. Nearer(node, root, curr, node', root', curr')
    BY <1>4, <1>5 DEF Nearer
  <1>7. QED
    BY <1>2, <1>3, <1>6 DEF Progress

(* Each action in turn, first those that begin a call.                      *)
LEMMA StepInsertBegin ==
  ASSUME IInv, FewCopies, NEW k \in Keys, InsertBegin(k)
  PROVE  IInv' /\ Bag' = Bag /\ \E c \in Calls : Promised!Begin(c)
  <1> PICK lev, K : Sound(node, root, call, curr, hole, lev, K)
    BY DEF IInv
  <1> PICK c : c = [do |-> "insert", key |-> k]
    OBVIOUS
  <1>1. Room(k) /\ call = NoCall /\ call' = c /\ answer' = "none" /\ hole' = hole
    BY DEF InsertBegin, Begin
  <1>2. Proper(node, root, lev, K) /\ hole = NoHole
    BY <1>1, SoundSays
  <1>3. Roomy(node, k)
    BY <1>1, <1>2, RoomIs
  <1>4. c \in Calls
    BY DEF Calls
  <1>5. \E m, G : InsertsAt(node', root', curr', k, m, G) /\ Unmoved(node, node')
    <2>1. CASE Size(root) = Full
      <3>1. PICK top : top = NewNode(node)
        OBVIOUS
      <3>2. root' = top /\ curr' = top /\ node' = SplitChild(Topped(node, root, top), top, 1)
        BY <2>1, <3>1 DEF InsertBegin, Begin, Topped
      <3>3. Len(node[root].key) = Full
        BY <2>1 DEF Size
      <3>4. (\E m, G : InsertsAt(node', top, top, k, m, G)) /\ Unmoved(node, node')
        BY <1>2, <1>3, <3>1, <3>2, <3>3, InsertGrows
      <3>5. QED
        BY <3>2, <3>4
    <2>2. CASE Size(root) # Full
      <3>1. node' = node /\ root' = root /\ curr' = root
        BY <2>2 DEF InsertBegin, Begin
      <3>2. \E G : InsertsAt(node, root, root, k, lev, G)
        BY <1>2, <1>3, <2>2, InsertStarts DEF Size
      <3>3. QED
        BY <3>1, <3>2 DEF Unmoved
    <2>3. QED
      BY <2>1, <2>2
  <1>6. PICK m, G : InsertsAt(node', root', curr', k, m, G) /\ Unmoved(node, node')
    BY <1>5
  <1>7. Sound(node', root', call', curr', hole', m, G)
    BY <1>1, <1>2, <1>6, InsertCall
  <1>8. IInv'
    BY <1>7 DEF IInv
  <1>9. Bag' = Bag
    BY <1>2, <1>6, <1>7, BagPrime, UnmovedBag DEF Sound
  <1>10. Promised!Begin(c)
    BY <1>1, <1>9 DEF Promised!Begin
  <1>11. QED
    BY <1>4, <1>8, <1>9, <1>10

LEMMA StepRemoveBegin ==
  ASSUME IInv, NEW k \in Keys, RemoveBegin(k)
  PROVE  IInv' /\ Bag' = Bag /\ \E c \in Calls : Promised!Begin(c)
  <1> PICK lev, K : Sound(node, root, call, curr, hole, lev, K)
    BY DEF IInv
  <1> PICK c : c = [do |-> "remove", key |-> k]
    OBVIOUS
  <1>1. /\ call = NoCall /\ call' = c /\ answer' = "none" /\ hole' = hole
        /\ node' = node /\ root' = root /\ curr' = root
    BY DEF RemoveBegin, Begin
  <1>2. Proper(node, root, lev, K) /\ hole = NoHole
    BY <1>1, SoundSays
  <1>3. c \in Calls
    BY DEF Calls
  <1>4. RemovesAt(node, root, root, k, NoHole, lev, K)
    BY <1>2, RemoveStarts
  <1>5. Sound(node', root', call', curr', hole', lev, K)
    BY <1>1, <1>2, <1>4, RemoveCall
  <1>6. IInv'
    BY <1>5 DEF IInv
  <1>7. Bag' = Bag
    BY <1>1, BagPrime
  <1>8. Promised!Begin(c)
    BY <1>1, <1>7 DEF Promised!Begin
  <1>9. QED
    BY <1>3, <1>6, <1>7, <1>8

(* The rounds of a loop.                                                    *)
LEMMA StepInsertDown ==
  ASSUME IInv, FewCopies, InsertDown
  PROVE  Progress
  <1> PICK lev, K : Sound(node, root, call, curr, hole, lev, K)
    BY DEF IInv
  <1> PICK k : k = call.key
    OBVIOUS
  <1> PICK i : i = Behind(node[curr], k)
    OBVIOUS
  <1> PICK y : y = node[curr].child[i]
    OBVIOUS
  <1>1. /\ call # NoCall /\ call.do = "insert" /\ hole = NoHole /\ ~node[curr].leaf
        /\ root' = root /\ hole' = hole
    BY DEF InsertDown, At
  <1>2. k \in Keys /\ call = [do |-> "insert", key |-> k] /\ InsertsAt(node, root, curr, k, lev, K)
    BY <1>1, SoundSays
  <1>3. CASE Size(y) = Full
    <2>1. /\ node' = SplitChild(node, curr, i) /\ call' = call /\ answer' = answer
          /\ curr' = node'[curr].child[IF node'[curr].key[i] < k THEN i + 1 ELSE i]
      BY <1>3 DEF InsertDown, Walk
    <2>2. Len(node[y].key) = Full
      BY <1>3 DEF Size
    <2>3. /\ (\E m, G : InsertsAt(node', root, curr', k, m, G) /\ m[curr'] < lev[curr])
          /\ Unmoved(node, node')
      <3>1. k \in Keys /\ ~node[curr].leaf /\ InsertsAt(node, root, curr, k, lev, K)
        BY <1>1, <1>2
      <3>2. node' = SplitChild(node, curr, i)
        BY <2>1
      <3>3. root' = root /\ curr' = node'[curr].child[IF node'[curr].key[i] < k THEN i + 1 ELSE i]
        BY <1>1, <2>1
      <3>4. QED
        BY <2>2, <3>1, <3>2, <3>3, InsertSplits, SMTT(40)
    <2>4. PICK m, G : InsertsAt(node', root, curr', k, m, G) /\ m[curr'] < lev[curr]
      BY <2>3
    <2>5. Sound(node', root', call', curr', hole', m, G)
      BY <1>1, <1>2, <2>1, <2>4, InsertCall
    <2>6. QED
      BY <1>1, <2>1, <2>3, <2>4, <2>5, Progressed
  <1>4. CASE Size(y) # Full
    <2>1. node' = node /\ call' = call /\ answer' = answer /\ curr' = y
      BY <1>4 DEF InsertDown, Walk
    <2>2. PICK G : InsertsAt(node, root, y, k, lev, G) /\ lev[y] < lev[curr]
      BY <1>1, <1>2, <1>4, InsertWalks DEF Size
    <2>3. Sound(node', root', call', curr', hole', lev, G)
      BY <1>1, <1>2, <2>1, <2>2, InsertCall
    <2>4. Unmoved(node, node')
      BY <2>1 DEF Unmoved
    <2>5. QED
      BY <1>1, <2>1, <2>2, <2>3, <2>4, Progressed
  <1>5. QED
    BY <1>3, <1>4

(* What a removal stands on.                                                *)
LEMMA RemovalSays ==
  ASSUME NEW lev, NEW K, Sound(node, root, call, curr, hole, lev, K), call # NoCall, call.do = "remove"
  PROVE  /\ call.key \in Keys /\ call = [do |-> "remove", key |-> call.key]
         /\ RemovesAt(node, root, curr, call.key, hole, lev, K)
         /\ Proper(node, root, lev, K) /\ curr \in DOMAIN node
         /\ Place \in 1 .. Len(node[curr].key) + 1
         /\ Found => Place \in 1 .. Len(node[curr].key) /\ node[curr].key[Place] = call.key
         /\ ~Found => ~KeyAt(node[curr], call.key)
  <1>1. /\ call.key \in Keys /\ call = [do |-> "remove", key |-> call.key]
        /\ RemovesAt(node, root, curr, call.key, hole, lev, K)
    BY SoundSays
  <1>2. Proper(node, root, lev, K) /\ curr \in DOMAIN node
    BY <1>1 DEF RemovesAt
  <1>3. Len(node[curr].key) \in Nat /\ Ints(node[curr].key, Len(node[curr].key)) /\ Rising(node[curr])
    BY <1>2, ProperSays, NodeFence
  <1>4. call.key \in Int
    BY <1>1, BTreeAssumption
  <1>5. /\ Place \in 1 .. Len(node[curr].key) + 1
        /\ ~Found => ~KeyAt(node[curr], call.key)
    BY <1>3, <1>4, FoundAt DEF Place, Found
  <1>6. Found => Place \in 1 .. Len(node[curr].key) /\ node[curr].key[Place] = call.key
    BY <1>3, <1>5 DEF Found, HasAt
  <1>7. QED
    BY <1>1, <1>2, <1>5, <1>6

LEMMA StepSeek ==
  ASSUME IInv, SeekLeft \/ SeekRight
  PROVE  Progress
  <1> PICK lev, K : Sound(node, root, call, curr, hole, lev, K)
    BY DEF IInv
  <1>1. PICK side \in {"left", "right"} :
          /\ At("remove") /\ Found /\ ~node[curr].leaf
          /\ Size(Kid(IF side = "left" THEN Place ELSE Place + 1)) >= MinDegree
          /\ hole' = [side |-> side, node |-> curr, key |-> Place]
          /\ Walk(Kid(IF side = "left" THEN Place ELSE Place + 1)) /\ UNCHANGED <<node, root>>
    BY DEF SeekLeft, SeekRight
  <1> PICK i : i = Place
    OBVIOUS
  <1> PICK k : k = call.key
    OBVIOUS
  <1>2. call # NoCall /\ call.do = "remove" /\ hole = NoHole
    BY <1>1 DEF At
  <1>3. /\ node' = node /\ root' = root /\ call' = call /\ answer' = answer
        /\ curr' = node[curr].child[IF side = "left" THEN i ELSE i + 1]
        /\ Len(node[curr'].key) >= MinDegree
        /\ hole' = [side |-> side, node |-> curr, key |-> i]
    BY <1>1 DEF Walk, Kid, Size
  <1>4. /\ k \in Keys /\ call = [do |-> "remove", key |-> k]
        /\ RemovesAt(node, root, curr, k, hole, lev, K)
        /\ i \in 1 .. Len(node[curr].key) /\ node[curr].key[i] = k
    BY <1>1, <1>2, RemovalSays
  <1>5. RemovesAt(node, root, curr', k, hole', lev, K) /\ lev[curr'] < lev[curr]
    BY <1>1, <1>2, <1>3, <1>4, RemoveSeeks
  <1>6. Sound(node', root', call', curr', hole', lev, K)
    BY <1>3, <1>4, <1>5, RemoveCall
  <1>7. Unmoved(node, node')
    BY <1>3 DEF Unmoved
  <1>8. QED
    BY <1>2, <1>3, <1>5, <1>6, <1>7, Progressed

LEMMA StepRemoveMerge ==
  ASSUME IInv, RemoveMerge
  PROVE  Progress
  <1> PICK lev, K : Sound(node, root, call, curr, hole, lev, K)
    BY DEF IInv
  <1> PICK i : i = Place
    OBVIOUS
  <1> PICK k : k = call.key
    OBVIOUS
  <1> PICK m : m = MergeChildren(node, root, curr, i)
    OBVIOUS
  <1>1. /\ call # NoCall /\ call.do = "remove" /\ hole = NoHole /\ Found /\ ~node[curr].leaf
        /\ Len(node[node[curr].child[i]].key) < MinDegree
        /\ Len(node[node[curr].child[i + 1]].key) < MinDegree
        /\ node' = m.node /\ root' = m.root /\ hole' = hole
        /\ curr' = node[curr].child[i] /\ call' = call /\ answer' = answer
    BY DEF RemoveMerge, At, Walk, Kid, Size
  <1>2. /\ k \in Keys /\ call = [do |-> "remove", key |-> k]
        /\ RemovesAt(node, root, curr, k, NoHole, lev, K)
        /\ i \in 1 .. Len(node[curr].key) /\ node[curr].key[i] = k
    BY <1>1, RemovalSays
  <1>3. /\ (\E G : RemovesAt(m.node, m.root, curr', k, NoHole, lev, G)) /\ lev[curr'] < lev[curr]
        /\ Unmoved(node, m.node)
    BY <1>1, <1>2, RemoveMerges
  <1>4. PICK G : RemovesAt(node', root', curr', k, NoHole, lev, G)
    BY <1>1, <1>3
  <1>5. Sound(node', root', call', curr', hole', lev, G)
    BY <1>1, <1>2, <1>4, RemoveCall
  <1>6. Unmoved(node, node')
    BY <1>1, <1>3
  <1>7. QED
    BY <1>1, <1>3, <1>5, <1>6, Progressed

LEMMA StepRemoveDown ==
  ASSUME IInv, RemoveDown
  PROVE  Progress
  <1> PICK lev, K : Sound(node, root, call, curr, hole, lev, K)
    BY DEF IInv
  <1> PICK i : i = Place
    OBVIOUS
  <1> PICK k : k = call.key
    OBVIOUS
  <1> PICK f : f = FixChildSize(node, root, curr, i)
    OBVIOUS
  <1>1. /\ call # NoCall /\ call.do = "remove" /\ hole = NoHole /\ ~Found /\ ~node[curr].leaf
        /\ node' = f.node /\ root' = f.root /\ hole' = hole /\ call' = call /\ answer' = answer
        /\ curr' = IF f.root # root THEN f.root ELSE f.node[curr].child[FindIndex(f.node[curr], k)]
    BY DEF RemoveDown, At, Walk
  <1>2. /\ k \in Keys /\ call = [do |-> "remove", key |-> k]
        /\ RemovesAt(node, root, curr, k, NoHole, lev, K)
    BY <1>1, RemovalSays
  <1>3. i = FindIndex(node[curr], k) /\ ~HasAt(node[curr], i, k)
    BY <1>1 DEF Place, Found
  <1>4. /\ (\E G : RemovesAt(f.node, f.root, curr', k, NoHole, lev, G)) /\ lev[curr'] < lev[curr]
        /\ Unmoved(node, f.node)
    BY <1>1, <1>2, <1>3, RemoveFixes
  <1>5. PICK G : RemovesAt(node', root', curr', k, NoHole, lev, G)
    BY <1>1, <1>4
  <1>6. Sound(node', root', call', curr', hole', lev, G)
    BY <1>1, <1>2, <1>5, RemoveCall
  <1>7. Unmoved(node, node')
    BY <1>1, <1>4
  <1>8. QED
    BY <1>1, <1>4, <1>6, <1>7, Progressed

(* A hole belongs to a removal.                                             *)
LEMMA HoleSays ==
  ASSUME NEW lev, NEW K, Sound(node, root, call, curr, hole, lev, K), hole # NoHole
  PROVE  call # NoCall /\ call.do = "remove"
  BY SoundSays

LEMMA StepHoleDown ==
  ASSUME IInv, HoleDown
  PROVE  Progress
  <1> PICK lev, K : Sound(node, root, call, curr, hole, lev, K)
    BY DEF IInv
  <1> PICK k : k = call.key
    OBVIOUS
  <1> PICK i : i = IF hole.side = "left" THEN Len(node[curr].key) + 1 ELSE 1
    OBVIOUS
  <1> PICK f : f = FixChildSize(node, root, curr, i)
    OBVIOUS
  <1>1. /\ hole # NoHole /\ ~node[curr].leaf
        /\ node' = f.node /\ root' = f.root /\ hole' = hole /\ call' = call /\ answer' = answer
        /\ curr' = IF hole.side = "left" THEN LastChild(node'[curr]) ELSE node'[curr].child[1]
    BY DEF HoleDown, Walk, Size
  <1>2. curr' = Outermost(f.node[curr], hole.side)
    BY <1>1 DEF Outermost, LastChild
  <1>3. call # NoCall /\ call.do = "remove"
    BY <1>1, HoleSays
  <1>4. /\ k \in Keys /\ call = [do |-> "remove", key |-> k]
        /\ RemovesAt(node, root, curr, k, hole, lev, K)
    BY <1>3, RemovalSays
  <1>5. /\ (\E G : RemovesAt(f.node, root, curr', k, hole, lev, G)) /\ lev[curr'] < lev[curr]
        /\ Unmoved(node, f.node) /\ f.root = root
    BY <1>1, <1>2, <1>4, HoleFixes
  <1>6. PICK G : RemovesAt(node', root', curr', k, hole', lev, G)
    BY <1>1, <1>5
  <1>7. Sound(node', root', call', curr', hole', lev, G)
    BY <1>1, <1>4, <1>6, RemoveCall
  <1>8. Unmoved(node, node')
    BY <1>1, <1>5
  <1>9. QED
    BY <1>1, <1>3, <1>5, <1>7, <1>8, Progressed

(* The end of a call.                                                       *)
LEMMA CallEnds ==
  ASSUME NEW lev, NEW K, Proper(node, root, lev, K), NEW m, NEW G, Proper(node', root', m, G),
         call # NoCall, call.key \in Keys, call' = NoCall, hole' = NoHole,
         \/ /\ call.do = "insert" /\ answer' = "done" /\ Roomy(node, call.key)
            /\ Gained(node, node', call.key)
         \/ /\ call.do = "remove" /\ answer' = "done" /\ Occurs(node, call.key)
            /\ Lost(node, node', call.key)
         \/ call.do = "remove" /\ answer' = "missing" /\ ~Occurs(node, call.key) /\ node' = node
  PROVE  Ending
  <1> PICK k \in Keys : k = call.key
    OBVIOUS
  <1>1. Sound(node', root', call', curr', hole', m, G)
    BY NoCallSound
  <1>2. IInv'
    BY <1>1 DEF IInv
  <1>3. CASE /\ call.do = "insert" /\ answer' = "done" /\ Roomy(node, call.key)
             /\ Gained(node, node', call.key)
    <2>1. Bag' = [Bag EXCEPT ![k] = @ + 1]
      BY <1>3, BagPrime, GainedBag
    <2>2. Promised!Insert(k)
      BY <1>3, <2>1 DEF Promised!Insert, Promised!Return
    <2>3. QED
      BY <1>2, <2>2 DEF Ending, Promised!Finish
  <1>4. CASE /\ call.do = "remove" /\ answer' = "done" /\ Occurs(node, call.key)
             /\ Lost(node, node', call.key)
    <2>1. Bag[k] > 0 /\ Bag' = [Bag EXCEPT ![k] = @ - 1]
      BY <1>4, BagPrime, LostBag
    <2>2. Promised!Remove(k)
      BY <1>4, <2>1 DEF Promised!Remove, Promised!Return
    <2>3. QED
      BY <1>2, <2>2 DEF Ending, Promised!Finish
  <1>5. CASE call.do = "remove" /\ answer' = "missing" /\ ~Occurs(node, call.key) /\ node' = node
    <2>1. Bag' = Bag
      BY <1>5, BagPrime
    <2>2. Bag[k] = 0
      <3>1. Copies(node, k) = 0
        BY <1>5, ProperSays, OccursCounted
      <3>2. QED
        BY <3>1, BagPrime, BagIs
    <2>3. Promised!Missing(k)
      BY <1>5, <2>1, <2>2 DEF Promised!Missing, Promised!Return
    <2>4. QED
      BY <1>2, <2>3 DEF Ending, Promised!Finish
  <1>6. QED
    BY <1>3, <1>4, <1>5

LEMMA StepInsertLeaf ==
  ASSUME IInv, InsertLeaf
  PROVE  Ending
  <1> PICK lev, K : Sound(node, root, call, curr, hole, lev, K)
    BY DEF IInv
  <1> PICK k : k = call.key
    OBVIOUS
  <1>1. /\ call # NoCall /\ call.do = "insert" /\ node[curr].leaf /\ root' = root
        /\ node' = Grown(node, curr, k) /\ call' = NoCall /\ answer' = "done" /\ hole' = NoHole
    BY DEF InsertLeaf, At, Return, Grown
  <1>2. k \in Keys /\ InsertsAt(node, root, curr, k, lev, K) /\ Proper(node, root, lev, K)
    BY <1>1, SoundSays
  <1>3. Proper(node', root', lev, K) /\ Gained(node, node', k) /\ Roomy(node, k)
    BY <1>1, <1>2, InsertEnds
  <1>4. QED
    BY <1>1, <1>2, <1>3, CallEnds

LEMMA StepRemoveLeaf ==
  ASSUME IInv, RemoveLeaf
  PROVE  Ending
  <1> PICK lev, K : Sound(node, root, call, curr, hole, lev, K)
    BY DEF IInv
  <1> PICK k : k = call.key
    OBVIOUS
  <1>1. /\ call # NoCall /\ call.do = "remove" /\ hole = NoHole /\ Found /\ node[curr].leaf
        /\ root' = root /\ node' = Shrunk(node, curr, Place)
        /\ call' = NoCall /\ answer' = "done" /\ hole' = NoHole
    BY DEF RemoveLeaf, At, Return, Shrunk
  <1>2. /\ k \in Keys /\ RemovesAt(node, root, curr, k, NoHole, lev, K) /\ Proper(node, root, lev, K)
        /\ Place \in 1 .. Len(node[curr].key) /\ node[curr].key[Place] = k
    BY <1>1, RemovalSays
  <1>3. Proper(node', root', lev, K) /\ Lost(node, node', k) /\ Occurs(node, k)
    BY <1>1, <1>2, RemoveEnds
  <1>4. QED
    BY <1>1, <1>2, <1>3, CallEnds

LEMMA StepRemoveMissing ==
  ASSUME IInv, RemoveMissing
  PROVE  Ending
  <1> PICK lev, K : Sound(node, root, call, curr, hole, lev, K)
    BY DEF IInv
  <1> PICK k : k = call.key
    OBVIOUS
  <1>1. /\ call # NoCall /\ call.do = "remove" /\ hole = NoHole /\ ~Found /\ node[curr].leaf
        /\ root' = root /\ node' = node
        /\ call' = NoCall /\ answer' = "missing" /\ hole' = NoHole
    BY DEF RemoveMissing, At, Return
  <1>2. /\ k \in Keys /\ RemovesAt(node, root, curr, k, NoHole, lev, K) /\ Proper(node, root, lev, K)
        /\ ~KeyAt(node[curr], k)
    BY <1>1, RemovalSays
  <1>3. ~Occurs(node, k)
    BY <1>1, <1>2, RemoveMisses
  <1>4. QED
    BY <1>1, <1>2, <1>3, CallEnds

LEMMA StepHoleFilled ==
  ASSUME IInv, HoleFilled
  PROVE  Ending
  <1> PICK lev, K : Sound(node, root, call, curr, hole, lev, K)
    BY DEF IInv
  <1> PICK k : k = call.key
    OBVIOUS
  <1> PICK i : i = IF hole.side = "left" THEN Len(node[curr].key) ELSE 1
    OBVIOUS
  <1>1. /\ hole # NoHole /\ node[curr].leaf /\ root' = root
        /\ call' = NoCall /\ answer' = "done" /\ hole' = NoHole
    BY DEF HoleFilled, Return
  <1>2. node' = [node EXCEPT ![hole.node].key[hole.key] = node[curr].key[i],
                             ![curr] = NodeDelete(@, i)]
    BY DEF HoleFilled, Size
  <1>4. call # NoCall /\ call.do = "remove"
    BY <1>1, HoleSays
  <1>5. k \in Keys /\ RemovesAt(node, root, curr, k, hole, lev, K) /\ Proper(node, root, lev, K)
    BY <1>4, RemovalSays
  <1>3. node' = Shrunk(Swapped(node, hole.node, hole.key, node[curr].key[i]), curr, i)
    <2>1. hole.node \in DOMAIN node /\ curr \in DOMAIN node /\ hole.node # curr
      BY <1>1, <1>5 DEF RemovesAt, Removing, HoleAt
    <2>2. Swapped(node, hole.node, hole.key, node[curr].key[i])[curr] = node[curr]
      BY <2>1 DEF Swapped
    <2>3. node' = [Swapped(node, hole.node, hole.key, node[curr].key[i])
                     EXCEPT ![curr] = NodeDelete(node[curr], i)]
      BY <1>2, <2>1 DEF Swapped
    <2>4. QED
      BY <2>2, <2>3 DEF Shrunk
  <1>6. Proper(node', root', lev, Core(node, K)) /\ Lost(node, node', k) /\ Occurs(node, k)
    BY <1>1, <1>3, <1>5, HoleEnds
  <1>7. QED
    BY <1>1, <1>4, <1>5, <1>6, CallEnds

----------------------------------------------------------------------------
(* The beginning                                                            *)

FirstHeap(r) == [n \in {r} |-> [leaf |-> TRUE, key |-> << >>, child |-> << >>]]

(* A tree of one empty leaf.                                                *)
LEMMA FirstProper ==
  ASSUME NEW r \in Nodes, NEW h, h = FirstHeap(r)
  PROVE  \E lev, K : Proper(h, r, lev, K) /\ BagOf(h) = [k \in Keys |-> 0]
  <1> DEFINE x == [leaf |-> TRUE, key |-> << >>, child |-> << >>]
             lev == [n \in Nodes |-> 0]
             K == [n \in Nodes |-> Int]
  <1>1. x.leaf = TRUE /\ x.key = << >> /\ x.child = << >>
    OBVIOUS
  <1>2. DOMAIN h = {r} /\ h[r] = x /\ h = [n \in DOMAIN h |-> h[n]]
    BY DEF FirstHeap
  <1>3. x \in NodeType /\ Len(x.key) = 0 /\ Len(x.child) = 0
    <2>1. << >> \in Seq(Keys) /\ << >> \in Seq(Nodes) /\ Len(<< >>) = 0
      OBVIOUS
    <2>2. QED
      BY <1>1, <2>1 DEF NodeType
  <1> HIDE DEF x
  <1>4. HeapType(h)
    <2>1. h \in [{r} -> NodeType]
      BY <1>2, <1>3
    <2>2. QED
      BY <1>2, <2>1 DEF HeapType
  <1>5. Shaped(h)
    BY <1>1, <1>2 DEF Shaped, ShapedNode
  <1>6. /\ Lists(KeysOf(h)) /\ DOMAIN KeysOf(h) = {r} /\ KeysOf(h)[r] = x.key
        /\ Lists(KidsOf(h)) /\ DOMAIN KidsOf(h) = {r} /\ KidsOf(h)[r] = x.child
    BY <1>2, <1>4, HeapLists
  <1>7. ASSUME NEW f, DOMAIN f = {r}, Len(f[r]) = 0, NEW V PROVE Total(f, V) = 0
    <2>1. CountIn(f[r], V) = 0
      BY <1>7, CountNothing
    <2>2. \A n \in {r} : Counts(f, V)[n] = 0
      BY <1>7, <2>1 DEF Counts
    <2>3. IsFiniteSet({r}) /\ Cardinality({r}) = 1
      BY FS_Singleton
    <2>4. SumFunctionOnSet(Counts(f, V), {r}) = Cardinality({r}) * 0
      BY <2>2, <2>3, SumConstant
    <2>5. QED
      BY <1>7, <2>3, <2>4 DEF Total
  <1>8. Wired(h, r)
    <2>1. \A v \in Nodes : Total(KidsOf(h), {v}) = 0
      BY <1>3, <1>6, <1>7
    <2>2. QED
      BY <1>2, <2>1 DEF Wired
  <1>9. KidSet(h[r]) = {}
    BY <1>2, <1>3 DEF KidSet, Elements
  <1>10. Levelled(h, lev)
    <2>1. lev \in [Nodes -> Nat] /\ lev[r] = 0
      OBVIOUS
    <2>2. LevelledNode(h[r], r, DOMAIN h, lev)
      BY <1>1, <1>2, <1>9, <2>1 DEF LevelledNode
    <2>3. QED
      BY <1>2, <2>1, <2>2 DEF Levelled
  <1>11. Fenced(h, K)
    <2>1. K \in [Nodes -> SUBSET Int]
      OBVIOUS
    <2>2. Holds(h[r], K[r], K)
      BY <1>2, <1>3, <1>9 DEF Holds
    <2>3. Rising(h[r])
      BY <1>2, <1>3 DEF Rising, Up
    <2>4. Beside(h[r], K)
      BY <1>2, <1>3 DEF Beside, Apart
    <2>5. QED
      BY <1>2, <2>1, <2>2, <2>3, <2>4 DEF Fenced, FencedNode
  <1>12. Tree(h, r, lev, K)
    BY <1>4, <1>5, <1>8, <1>10, <1>11 DEF Tree, Frame
  <1>13. Sized(h, r)
    <2>1. SizedNode(h[r], TRUE)
      BY <1>1, <1>2, <1>3, BTreeAssumption DEF SizedNode, Full
    <2>2. QED
      BY <1>2, <2>1 DEF Sized
  <1>14. Number(h) = 0 /\ \A k : Copies(h, k) = 0
    BY <1>3, <1>6, <1>7 DEF Number, Copies
  <1>15. Stocked(h)
    BY <1>14, BTreeAssumption DEF Stocked
  <1>16. Proper(h, r, lev, K)
    BY <1>12, <1>13, <1>15 DEF Proper
  <1>17. \A k \in Keys : BagOf(h)[k] = 0
    BY <1>14, <1>16, BagIs
  <1>18. BagOf(h) = [k \in Keys |-> 0]
    BY <1>17 DEF BagOf
  <1>19. QED
    BY <1>16, <1>18

(* The invariant holds at first,                                            *)
LEMMA InitSound == Init => IInv /\ Bag = [k \in Keys |-> 0]
  <1> SUFFICES ASSUME Init PROVE IInv /\ Bag = [k \in Keys |-> 0]
    OBVIOUS
  <1>1. root \in Nodes
    <2>1. Nodes \in SUBSET Int /\ IsFiniteSet(Nodes)
      BY BTreeAssumption
    <2>2. Nodes # {}
      <3>1. Cardinality({}) = 0
        BY FS_EmptySet
      <3>2. MaxKeys \in Nat /\ Cardinality(Nodes) > MaxKeys + 1
        BY BTreeAssumption
      <3>3. QED
        BY <3>1, <3>2
    <2>3. Min(Nodes) \in Nodes
      BY <2>1, <2>2, MinIs
    <2>4. QED
      BY <2>3 DEF Init
  <1>2. node = FirstHeap(root) /\ call = NoCall /\ hole = NoHole
    BY DEF Init, FirstHeap
  <1>3. PICK lev, K : Proper(node, root, lev, K) /\ BagOf(node) = [k \in Keys |-> 0]
    BY <1>1, <1>2, FirstProper
  <1>4. Sound(node, root, call, curr, hole, lev, K)
    BY <1>2, <1>3, NoCallSound
  <1>5. Bag = BagOf(node)
    BY BagPrime
  <1>6. QED
    BY <1>3, <1>4, <1>5 DEF IInv

(* What a step does: it begins a call, goes on in one, or ends it.          *)
Beginning == IInv' /\ Bag' = Bag /\ \E c \in Calls : Promised!Begin(c)

(* and every step keeps it.                                                 *)
LEMMA NextDoes ==
  ASSUME IInv, FewCopies, Next
  PROVE  Beginning \/ Progress \/ Ending
  <1>1. ASSUME NEW k \in Keys, InsertBegin(k) PROVE Beginning
    BY <1>1, StepInsertBegin DEF Beginning
  <1>2. ASSUME NEW k \in Keys, RemoveBegin(k) PROVE Beginning
    BY <1>2, StepRemoveBegin DEF Beginning
  <1>3. CASE InsertDown
    BY <1>3, StepInsertDown
  <1>4. CASE InsertLeaf
    BY <1>4, StepInsertLeaf
  <1>5. CASE RemoveLeaf
    BY <1>5, StepRemoveLeaf
  <1>6. CASE RemoveMissing
    BY <1>6, StepRemoveMissing
  <1>7. CASE SeekLeft \/ SeekRight
    BY <1>7, StepSeek
  <1>8. CASE RemoveMerge
    BY <1>8, StepRemoveMerge
  <1>9. CASE RemoveDown
    BY <1>9, StepRemoveDown
  <1>10. CASE HoleDown
    BY <1>10, StepHoleDown
  <1>11. CASE HoleFilled
    BY <1>11, StepHoleFilled
  <1>12. QED
    BY <1>1, <1>2, <1>3, <1>4, <1>5, <1>6, <1>7, <1>8, <1>9, <1>10, <1>11
       DEF Next, Continue, Insertion, Removal

(* A step that changes nothing keeps everything.                            *)
LEMMA StutterKeeps == IInv /\ UNCHANGED vars => IInv' /\ Bag' = Bag
  <1> SUFFICES ASSUME IInv, UNCHANGED vars PROVE IInv' /\ Bag' = Bag
    OBVIOUS
  <1>1. node' = node /\ root' = root /\ call' = call /\ answer' = answer /\ curr' = curr /\ hole' = hole
    BY DEF vars
  <1>2. PICK lev, K : Sound(node, root, call, curr, hole, lev, K)
    BY DEF IInv
  <1>3. Sound(node', root', call', curr', hole', lev, K)
    BY <1>1, <1>2
  <1>4. QED
    BY <1>1, <1>3, BagPrime DEF IInv

(* The trees and calls of the B-tree are sound after every round of every   *)
(* call: there are heights and fences for them as the invariant asks.       *)
THEOREM Invariance ==
  ASSUME FewCopies
  PROVE  Spec => []IInv
  <1>1. Init => IInv
    BY InitSound
  <1>2. IInv /\ [Next]_vars => IInv'
    BY NextDoes, StutterKeeps DEF Beginning, Progress, Ending
  <1>3. QED
    BY <1>1, <1>2, PTL DEF Spec

(* A call on the B-tree adds its key, or takes one copy of it, or says that *)
(* it is missing, and changes nothing else.                                 *)
THEOREM BagKept ==
  ASSUME FewCopies
  PROVE  Spec => IsBag
  <1>1. Init => Promised!Init
    BY InitSound DEF Init, Promised!Init
  <1>2. IInv /\ [Next]_vars => [Promised!Next]_(Promised!vars)
    <2> SUFFICES ASSUME IInv, [Next]_vars PROVE Promised!Next \/ UNCHANGED Promised!vars
      OBVIOUS
    <2>1. CASE UNCHANGED vars
      BY <2>1, StutterKeeps DEF vars, Promised!vars
    <2>2. CASE Beginning
      BY <2>2 DEF Beginning, Promised!Next
    <2>3. CASE Progress
      BY <2>3 DEF Progress, Promised!vars
    <2>4. CASE Ending
      BY <2>4 DEF Ending, Promised!Next
    <2>5. QED
      BY <2>1, <2>2, <2>3, <2>4, NextDoes
  <1>3. QED
    BY <1>1, <1>2, Invariance, PTL DEF Spec, IsBag, Promised!Spec

----------------------------------------------------------------------------
(* The levels of a tree                                                     *)

(* The root is higher than any other node.                                  *)
LEMMA RootHighest ==
  ASSUME NEW h, NEW r, NEW lev, Frame(h, r, lev)
  PROVE  \A n \in DOMAIN h : lev[n] \in Nat /\ (n # r => lev[n] < lev[r])
  <1>1. HeapType(h) /\ Wired(h, r) /\ Levelled(h, lev) /\ r \in DOMAIN h
    BY DEF Frame, Wired
  <1>2. \A n \in DOMAIN h : lev[n] \in Nat
    BY <1>1 DEF Levelled, HeapType
  <1>3. IsFiniteSet(DOMAIN h) /\ DOMAIN h # {}
    BY <1>1, HeapLists
  <1>4. PICK m \in DOMAIN h : \A n \in DOMAIN h : lev[n] <= lev[m]
    <2>1. \A n \in DOMAIN h : lev[n] \in Int
      BY <1>2
    <2>2. QED
      BY <1>3, <2>1, Greatest
  <1>5. ASSUME NEW n \in DOMAIN h, n # r PROVE \E p \in DOMAIN h : lev[n] + 1 = lev[p]
    <2>1. PICK p \in DOMAIN h : n \in KidSet(h[p])
      BY <1>1, <1>5, WiredKids DEF OneParent
    <2>2. lev[n] + 1 = lev[p]
      BY <1>1, <2>1 DEF Levelled, LevelledNode
    <2>3. QED
      BY <2>2
  <1>6. m = r
    <2>1. SUFFICES ASSUME m # r PROVE FALSE
      OBVIOUS
    <2>2. PICK p \in DOMAIN h : lev[m] + 1 = lev[p]
      BY <1>5, <2>1
    <2>3. QED
      BY <1>2, <1>4, <2>2
  <1>7. ASSUME NEW n \in DOMAIN h, n # r PROVE lev[n] < lev[r]
    <2>1. PICK p \in DOMAIN h : lev[n] + 1 = lev[p]
      BY <1>5, <1>7
    <2>2. QED
      BY <1>1, <1>2, <1>4, <1>6, <2>1
  <1>8. QED
    BY <1>2, <1>7

(* A node above the leaves has a child.                                     *)
LEMMA HasKid ==
  ASSUME NEW h, NEW r, NEW lev, Frame(h, r, lev), NEW n \in DOMAIN h, lev[n] # 0
  PROVE  \E c \in KidSet(h[n]) : c \in DOMAIN h /\ lev[c] \in Nat /\ lev[n] \in Nat /\ lev[c] + 1 = lev[n]
  <1>1. HeapType(h) /\ Shaped(h) /\ Levelled(h, lev)
    BY DEF Frame
  <1>2. ~h[n].leaf
    BY <1>1 DEF Levelled, LevelledNode
  <1>3. Len(h[n].child) = Len(h[n].key) + 1 /\ Len(h[n].key) \in Nat
    BY <1>1, <1>2, KidsCount
  <1>4. 1 \in 1 .. Len(h[n].child)
    BY <1>3
  <1>5. QED
    BY <1>4, ChildIs

(* A function has no more values than arguments.                            *)
LEMMA ImageSmall ==
  ASSUME NEW f, NEW S, IsFiniteSet(S)
  PROVE  IsFiniteSet({f[m] : m \in S}) /\ Cardinality({f[m] : m \in S}) <= Cardinality(S)
  <1> DEFINE T == {f[m] : m \in S}
             g == [m \in S |-> f[m]]
  <1>1. g \in Surjection(S, T)
    BY DEF Surjection
  <1>2. QED
    BY <1>1, FS_Surjection

(* A tree is not higher than it has nodes.                                  *)
LEMMA Lower ==
  ASSUME NEW h, NEW r, NEW lev, Frame(h, r, lev), NEW n \in DOMAIN h
  PROVE  lev[n] \in Nat /\ Cardinality(DOMAIN h) \in Nat /\ lev[n] < Cardinality(DOMAIN h)
  <1>1. IsFiniteSet(DOMAIN h)
    BY HeapLists DEF Frame
  <1>2. lev[n] \in Nat /\ Cardinality(DOMAIN h) \in Nat
    BY <1>1, RootHighest, FS_CardinalityType
  <1> PICK N \in Nat : N = lev[n]
    BY <1>2
  <1> DEFINE A == {j \in 0 .. N : \E m \in DOMAIN h : lev[m] + j = N}
  <1>3. 0 .. N \subseteq A
    <2>1. 0 \in A
      BY <1>2
    <2>2. ASSUME NEW j \in 0 .. N - 1, j \in A PROVE j + 1 \in A
      <3>1. PICK m \in DOMAIN h : lev[m] + j = N
        BY <2>2
      <3>2. lev[m] \in Nat
        BY RootHighest
      <3>3. lev[m] # 0
        BY <3>1, <3>2
      <3>4. PICK c \in DOMAIN h : lev[c] \in Nat /\ lev[c] + 1 = lev[m]
        BY <3>3, HasKid
      <3>5. lev[c] + (j + 1) = N /\ j + 1 \in 0 .. N
        BY <3>1, <3>2, <3>4
      <3>6. QED
        BY <3>5
    <2>3. QED
      BY <2>1, <2>2, BoundedInduction
  <1> DEFINE I == {lev[m] : m \in DOMAIN h}
  <1>4. 0 .. N \subseteq I
    <2>1. ASSUME NEW v \in 0 .. N PROVE v \in I
      <3>1. N - v \in 0 .. N
        OBVIOUS
      <3>2. PICK m \in DOMAIN h : lev[m] + (N - v) = N
        BY <1>3, <3>1
      <3>3. lev[m] \in Nat
        BY RootHighest
      <3>4. lev[m] = v
        BY <3>2, <3>3
      <3>5. QED
        BY <3>4
    <2>2. QED
      BY <2>1
  <1>5. IsFiniteSet(I) /\ Cardinality(I) <= Cardinality(DOMAIN h)
    BY <1>1, ImageSmall
  <1>6. IsFiniteSet(0 .. N) /\ Cardinality(0 .. N) = N + 1
    <2>1. 0 \in Int /\ N \in Int
      OBVIOUS
    <2>2. IsFiniteSet(0 .. N) /\ Cardinality(0 .. N) = IF 0 > N THEN 0 ELSE N - 0 + 1
      BY <2>1, FS_Interval
    <2>3. QED
      BY <2>2
  <1>7. Cardinality(0 .. N) <= Cardinality(I)
    BY <1>4, <1>5, FS_Subset
  <1>8. Cardinality(I) \in Nat
    BY <1>5, FS_CardinalityType
  <1>9. QED
    BY <1>2, <1>5, <1>6, <1>7, <1>8

(* The nodes d levels below n, and the recursion they are defined by.       *)
Descent(f, h, n) ==
  [d \in 0 .. Cardinality(DOMAIN h) |-> IF d = 0 THEN {n} ELSE UNION {Kids(h, m) : m \in f[d - 1]}]
LevelOf(h, n) == CHOOSE f : f = Descent(f, h, n)

(* The levels of the module are those of this recursion.                    *)
LEMMA LevelIs == \A n : Level(n) = LevelOf(node, n)
  BY DEF Level, LevelOf, Descent, Heights

LEMMA KidsAre ==
  ASSUME NEW h, HeapType(h), NEW n \in DOMAIN h
  PROVE  Kids(h, n) = KidSet(h[n])
  <1>1. h[n].child \in Seq(Nodes)
    BY NodeTypes
  <1>2. \A s \in Seq(Nodes) : ToSet(s) = Elements(s)
    BY DEF ToSet, Elements
  <1>3. QED
    BY <1>1, <1>2 DEF Kids, KidSet

Descending(f, h, n, N) ==
  /\ f \in [0 .. N -> SUBSET DOMAIN h]
  /\ f[0] = {n}
  /\ \A d \in 1 .. N : f[d] = UNION {KidSet(h[m]) : m \in f[d - 1]}

(* The recursion has a solution: the levels exist.                          *)
LEMMA LevelDescends ==
  ASSUME NEW h, NEW r, NEW lev, Frame(h, r, lev), NEW n \in DOMAIN h
  PROVE  Descending(LevelOf(h, n), h, n, Cardinality(DOMAIN h))
  <1> PICK N \in Nat : N = Cardinality(DOMAIN h)
    BY Lower
  <1> DEFINE S == SUBSET DOMAIN h
             down == [T \in S |-> UNION {KidSet(h[m]) : m \in T}]
             step == [d \in 1 .. N |-> down]
  <1>1. HeapType(h) /\ Wired(h, r)
    BY DEF Frame
  <1>2. \A m \in DOMAIN h : KidSet(h[m]) \subseteq DOMAIN h
    BY <1>1, WiredKids DEF OneParent
  <1>3. down \in [S -> S]
    <2>1. ASSUME NEW T \in S PROVE UNION {KidSet(h[m]) : m \in T} \in S
      BY <1>2
    <2>2. QED
      BY <2>1
  <1>4. {n} \in S
    OBVIOUS
  <1>5. Steps(step, N, S)
    BY <1>3 DEF Steps
  <1>6. PICK f : Run(f, N, S, {n}, step)
    BY <1>4, <1>5, Recursion
  <1>7. f \in [0 .. N -> S] /\ f[0] = {n} /\ \A d \in 1 .. N : f[d] = step[d][f[d - 1]]
    BY <1>6 DEF Run
  <1>8. ASSUME NEW d \in 1 .. N PROVE f[d] = UNION {KidSet(h[m]) : m \in f[d - 1]}
    <2>1. f[d - 1] \in S /\ d - 1 \in 0 .. N
      BY <1>7
    <2>2. f[d] = down[f[d - 1]]
      BY <1>7
    <2>3. QED
      BY <2>1, <2>2
  <1>9. \A T \in S : UNION {Kids(h, m) : m \in T} = UNION {KidSet(h[m]) : m \in T}
    <2>1. ASSUME NEW T \in S PROVE UNION {Kids(h, m) : m \in T} = UNION {KidSet(h[m]) : m \in T}
      <3>1. \A m \in T : Kids(h, m) = KidSet(h[m])
        BY <1>1, KidsAre
      <3>2. QED
        BY <3>1
    <2>2. QED
      BY <2>1
  <1>10. f = Descent(f, h, n)
    <2>1. \A d \in 0 .. N : f[d] = IF d = 0 THEN {n} ELSE UNION {Kids(h, m) : m \in f[d - 1]}
      <3>1. ASSUME NEW d \in 1 .. N PROVE f[d] = UNION {Kids(h, m) : m \in f[d - 1]}
        <4>1. d - 1 \in 0 .. N
          OBVIOUS
        <4>2. f[d - 1] \in S
          BY <1>7, <4>1
        <4>3. QED
          BY <1>8, <1>9, <4>2
      <3>2. QED
        BY <1>7, <3>1
    <2>2. f = [d \in 0 .. N |-> f[d]]
      BY <1>7
    <2>3. QED
      BY <2>1, <2>2 DEF Descent
  <1> DEFINE g == LevelOf(h, n)
  <1>11. g = Descent(g, h, n)
    BY <1>10 DEF LevelOf
  <1> HIDE DEF g
  <1>12. /\ DOMAIN g = 0 .. N
         /\ \A d \in 0 .. N : g[d] = IF d = 0 THEN {n} ELSE UNION {Kids(h, m) : m \in g[d - 1]}
    BY <1>11 DEF Descent
  <1>13. \A d \in 0 .. N : g[d] = f[d]
    <2> DEFINE A == {d \in 0 .. N : g[d] = f[d]}
    <2>1. 0 \in A
      <3>1. 0 \in 0 .. N
        OBVIOUS
      <3>2. g[0] = {n}
        BY <1>12, <3>1
      <3>3. f[0] = {n}
        BY <1>7
      <3>4. QED
        BY <3>1, <3>2, <3>3
    <2>2. ASSUME NEW d \in 0 .. N - 1, d \in A PROVE d + 1 \in A
      <3>1. d + 1 \in 0 .. N /\ d + 1 # 0 /\ d + 1 \in 1 .. N /\ d + 1 - 1 = d
        OBVIOUS
      <3>2. g[d + 1] = UNION {Kids(h, m) : m \in g[d]}
        BY <1>12, <3>1
      <3>3. f[d + 1] = UNION {KidSet(h[m]) : m \in f[d]}
        BY <1>8, <3>1
      <3>4. f[d] \in S /\ g[d] = f[d]
        BY <1>7, <2>2
      <3>5. QED
        BY <1>9, <3>1, <3>2, <3>3, <3>4
    <2>3. 0 .. N \subseteq A
      BY <2>1, <2>2, BoundedInduction
    <2>4. QED
      BY <2>3
  <1>14. g = [d \in 0 .. N |-> g[d]]
    BY <1>11, <1>12 DEF Descent
  <1>15. g = f
    BY <1>7, <1>13, <1>14
  <1>16. QED
    BY <1>7, <1>8, <1>15 DEF Descending, g

(* The nodes d levels below n are d lower than it.                          *)
LEMMA LevelHeight ==
  ASSUME NEW h, NEW r, NEW lev, Frame(h, r, lev), NEW n \in DOMAIN h, NEW N \in Nat, NEW f,
         Descending(f, h, n, N)
  PROVE  \A d \in 0 .. N : \A m \in f[d] : m \in DOMAIN h /\ lev[m] \in Nat /\ lev[m] + d = lev[n]
  <1>1. f \in [0 .. N -> SUBSET DOMAIN h] /\ f[0] = {n}
    BY DEF Descending
  <1>2. \A m \in DOMAIN h : lev[m] \in Nat
    BY RootHighest
  <1> DEFINE A == {d \in 0 .. N : \A m \in f[d] : lev[m] + d = lev[n]}
  <1>3. 0 \in A
    BY <1>1, <1>2
  <1>4. ASSUME NEW d \in 0 .. N - 1, d \in A PROVE d + 1 \in A
    <2>1. ASSUME NEW m \in f[d + 1] PROVE lev[m] + (d + 1) = lev[n]
      <3>1. d + 1 \in 1 .. N /\ d + 1 - 1 = d
        OBVIOUS
      <3>2. f[d + 1] = UNION {KidSet(h[p]) : p \in f[d]}
        BY <3>1 DEF Descending
      <3>3. PICK p \in f[d] : m \in KidSet(h[p])
        BY <2>1, <3>2
      <3>4. p \in DOMAIN h /\ m \in DOMAIN h
        BY <1>1, <2>1, <3>1, <3>3
      <3>5. lev[m] + 1 = lev[p]
        BY <3>3, <3>4 DEF Frame, Levelled, LevelledNode
      <3>6. lev[p] + d = lev[n]
        BY <1>4, <3>3
      <3>7. QED
        BY <1>2, <3>4, <3>5, <3>6
    <2>2. QED
      BY <2>1
  <1>5. 0 .. N \subseteq A
    BY <1>3, <1>4, BoundedInduction
  <1>6. QED
    BY <1>1, <1>2, <1>5

(* There are leaves as far below n as its height says.                      *)
LEMMA LevelFilled ==
  ASSUME NEW h, NEW r, NEW lev, Frame(h, r, lev), NEW n \in DOMAIN h, NEW N \in Nat, NEW f,
         Descending(f, h, n, N), lev[n] <= N
  PROVE  \E m \in f[lev[n]] : h[m].leaf
  <1> PICK a \in Nat : a = lev[n]
    BY RootHighest
  <1>1. \A d \in 0 .. N : \A m \in f[d] : m \in DOMAIN h /\ lev[m] \in Nat /\ lev[m] + d = a
    BY LevelHeight
  <1> DEFINE A == {d \in 0 .. a : f[d] # {}}
  <1>2. 0 \in A
    BY DEF Descending
  <1>3. ASSUME NEW d \in 0 .. a - 1, d \in A PROVE d + 1 \in A
    <2>1. PICK m : m \in f[d]
      BY <1>3
    <2>2. d \in 0 .. N /\ d + 1 \in 1 .. N /\ d + 1 - 1 = d
      OBVIOUS
    <2>3. m \in DOMAIN h /\ lev[m] \in Nat /\ lev[m] + d = a
      BY <1>1, <2>1, <2>2
    <2>4. lev[m] # 0
      BY <2>3
    <2>5. PICK c : c \in KidSet(h[m])
      BY <2>3, <2>4, HasKid
    <2>6. f[d + 1] = UNION {KidSet(h[p]) : p \in f[d]}
      BY <2>2 DEF Descending
    <2>7. QED
      BY <2>1, <2>2, <2>5, <2>6
  <1>4. 0 .. a \subseteq A
    BY <1>2, <1>3, BoundedInduction
  <1>5. PICK m : m \in f[a]
    BY <1>4
  <1>6. m \in DOMAIN h /\ lev[m] = 0
    BY <1>1, <1>5
  <1>7. h[m].leaf
    BY <1>6 DEF Frame, Levelled, LevelledNode
  <1>8. QED
    BY <1>5, <1>7

AboveLeafOf(h, n) ==
  CHOOSE d \in 0 .. Cardinality(DOMAIN h) : \E m \in LevelOf(h, n)[d] : h[m].leaf

(* AboveLeaf is the height of a node.                                       *)
LEMMA AboveLeafIs ==
  ASSUME NEW h, NEW r, NEW lev, Frame(h, r, lev), NEW n \in DOMAIN h
  PROVE  AboveLeafOf(h, n) = lev[n]
  <1> PICK N \in Nat : N = Cardinality(DOMAIN h) /\ lev[n] \in Nat /\ lev[n] < N
    BY Lower
  <1> PICK f : f = LevelOf(h, n)
    OBVIOUS
  <1>1. Descending(f, h, n, N)
    BY LevelDescends
  <1>2. \E m \in f[lev[n]] : h[m].leaf
    BY <1>1, LevelFilled
  <1>3. lev[n] \in 0 .. N
    OBVIOUS
  <1>4. ASSUME NEW d \in 0 .. N, NEW m \in f[d], h[m].leaf PROVE d = lev[n]
    <2>1. m \in DOMAIN h /\ lev[m] \in Nat /\ lev[m] + d = lev[n]
      BY <1>1, <1>4, LevelHeight
    <2>2. lev[m] = 0
      BY <1>4, <2>1 DEF Frame, Levelled, LevelledNode
    <2>3. QED
      BY <2>1, <2>2
  <1>5. QED
    BY <1>2, <1>3, <1>4 DEF AboveLeafOf

----------------------------------------------------------------------------
(* What the invariant says of the whole tree                                *)

AllLevels(f, N) == UNION {f[d] : d \in 0 .. N}

(* The levels below the root have all nodes.                                *)
LEMMA LevelsCover ==
  ASSUME NEW h, NEW r, NEW lev, Frame(h, r, lev), NEW N \in Nat, NEW f, Descending(f, h, r, N),
         lev[r] <= N
  PROVE  AllLevels(f, N) = DOMAIN h
  <1>1. r \in DOMAIN h /\ Wired(h, r) /\ HeapType(h)
    BY DEF Frame, Wired
  <1> PICK a \in Nat : a = lev[r]
    BY <1>1, RootHighest
  <1>2. f \in [0 .. N -> SUBSET DOMAIN h] /\ f[0] = {r}
    BY DEF Descending
  <1>3. \A m \in DOMAIN h : lev[m] \in Nat /\ (m # r => lev[m] < a)
    BY RootHighest
  <1> DEFINE A == {d \in 0 .. a : \A m \in DOMAIN h : lev[m] + d = a => m \in f[d]}
  <1>4. 0 \in A
    <2>1. ASSUME NEW m \in DOMAIN h, lev[m] + 0 = a PROVE m \in f[0]
      BY <1>2, <1>3, <2>1
    <2>2. QED
      BY <2>1
  <1>5. ASSUME NEW d \in 0 .. a - 1, d \in A PROVE d + 1 \in A
    <2>1. d + 1 \in 1 .. N /\ d + 1 - 1 = d /\ d + 1 \in 0 .. a
      OBVIOUS
    <2>2. f[d + 1] = UNION {KidSet(h[p]) : p \in f[d]}
      BY <2>1 DEF Descending
    <2>3. ASSUME NEW m \in DOMAIN h, lev[m] + (d + 1) = a PROVE m \in f[d + 1]
      <3>1. m # r
        BY <1>3, <2>3
      <3>2. PICK p \in DOMAIN h : m \in KidSet(h[p])
        BY <1>1, <3>1, WiredKids DEF OneParent
      <3>3. lev[m] + 1 = lev[p]
        BY <3>2 DEF Frame, Levelled, LevelledNode
      <3>4. lev[p] + d = a
        BY <1>3, <2>3, <3>3
      <3>5. p \in f[d]
        BY <1>5, <3>4
      <3>6. QED
        BY <2>2, <3>2, <3>5
    <2>4. QED
      BY <2>1, <2>3
  <1>6. 0 .. a \subseteq A
    BY <1>4, <1>5, BoundedInduction
  <1>7. ASSUME NEW m \in DOMAIN h PROVE m \in UNION {f[d] : d \in 0 .. N}
    <2>1. PICK v \in Nat : v = lev[m]
      BY <1>3
    <2>2. v <= a
      BY <1>3, <2>1
    <2>3. a - v \in 0 .. a /\ a - v \in 0 .. N /\ v + (a - v) = a
      BY <2>2
    <2>4. m \in f[a - v]
      BY <1>6, <2>1, <2>3
    <2>5. QED
      BY <2>3, <2>4
  <1>8. UNION {f[d] : d \in 0 .. N} \subseteq DOMAIN h
    BY <1>2
  <1>9. QED
    BY <1>7, <1>8 DEF AllLevels

ParentsOf(h, n) ==
  {p \in (DOMAIN h) \X (1 .. Full + 1) : p[2] <= Len(h[p[1]].child) /\ h[p[1]].child[p[2]] = n}

(* The root is no child, and every other node one at one place.             *)
LEMMA ParentsAre ==
  ASSUME NEW h, NEW r, NEW lev, Frame(h, r, lev), Sized(h, r)
  PROVE  ParentsOf(h, r) = {} /\ \A n \in DOMAIN h \ {r} : Cardinality(ParentsOf(h, n)) = 1
  <1>1. HeapType(h) /\ Shaped(h) /\ Inside(h, r) /\ Once(h) /\ Hangs(h, r)
    BY WiredSays DEF Frame
  <1>2. Full \in Nat
    BY BTreeAssumption DEF Full
  <1>3. ASSUME NEW n \in DOMAIN h
        PROVE  Len(h[n].child) \in Nat /\ Len(h[n].child) <= Full + 1
    <2>1. Len(h[n].key) \in Nat /\ Len(h[n].key) <= Full /\ Len(h[n].child) \in Nat
      BY <1>1, NodeTypes DEF Sized, SizedNode
    <2>2. CASE h[n].leaf
      <3>1. h[n].child = << >>
        BY <1>1, <2>2 DEF Shaped, ShapedNode
      <3>2. QED
        BY <1>2, <2>1, <3>1
    <2>3. CASE ~h[n].leaf
      BY <1>1, <1>2, <2>1, <2>3, KidsCount
    <2>4. QED
      BY <2>2, <2>3
  <1>4. ParentsOf(h, r) = {}
    <2>1. SUFFICES ASSUME NEW p \in ParentsOf(h, r) PROVE FALSE
      OBVIOUS
    <2>2. p[1] \in DOMAIN h /\ p[2] \in 1 .. Full + 1 /\ p[2] <= Len(h[p[1]].child) /\ h[p[1]].child[p[2]] = r
      BY <2>1 DEF ParentsOf
    <2>3. p[2] \in 1 .. Len(h[p[1]].child)
      BY <1>2, <1>3, <2>2
    <2>4. h[p[1]].child[p[2]] \in DOMAIN h \ {r}
      BY <1>1, <2>2, <2>3 DEF Inside
    <2>5. QED
      BY <2>2, <2>4
  <1>5. ASSUME NEW n \in DOMAIN h \ {r} PROVE Cardinality(ParentsOf(h, n)) = 1
    <2>1. PICK m \in DOMAIN h : \E i \in 1 .. Len(h[m].child) : h[m].child[i] = n
      BY <1>1 DEF Hangs
    <2>2. PICK i \in 1 .. Len(h[m].child) : h[m].child[i] = n
      BY <2>1
    <2>3. i \in 1 .. Full + 1 /\ i <= Len(h[m].child)
      BY <1>2, <1>3
    <2>4. <<m, i>> \in ParentsOf(h, n)
      BY <2>2, <2>3 DEF ParentsOf
    <2>5. ASSUME NEW p \in ParentsOf(h, n) PROVE p = <<m, i>>
      <3>1. /\ p = <<p[1], p[2]>> /\ p[1] \in DOMAIN h /\ p[2] \in 1 .. Full + 1
            /\ p[2] <= Len(h[p[1]].child) /\ h[p[1]].child[p[2]] = n
        BY <2>5 DEF ParentsOf
      <3>2. p[2] \in 1 .. Len(h[p[1]].child)
        BY <1>2, <1>3, <3>1
      <3>3. p[1] = m /\ p[2] = i
        BY <1>1, <2>2, <3>1, <3>2 DEF Once
      <3>4. QED
        BY <3>1, <3>3
    <2>6. ParentsOf(h, n) = {<<m, i>>}
      BY <2>4, <2>5
    <2>7. QED
      BY <2>6, FS_Singleton
  <1>6. QED
    BY <1>4, <1>5

(* The keys in the nodes below n are among those that K has for it.         *)
LEMMA BelowHeld ==
  ASSUME NEW h, HeapType(h), NEW K, Fenced(h, K), NEW n \in DOMAIN h, NEW N \in Nat, NEW f,
         Descending(f, h, n, N)
  PROVE  \A d \in 0 .. N : \A m \in f[d] : m \in DOMAIN h /\ K[m] \subseteq K[n]
  <1>1. f \in [0 .. N -> SUBSET DOMAIN h] /\ f[0] = {n}
    BY DEF Descending
  <1> DEFINE A == {d \in 0 .. N : \A m \in f[d] : K[m] \subseteq K[n]}
  <1>2. 0 \in A
    BY <1>1
  <1>3. ASSUME NEW d \in 0 .. N - 1, d \in A PROVE d + 1 \in A
    <2>1. d + 1 \in 1 .. N /\ d + 1 - 1 = d /\ d \in 0 .. N
      OBVIOUS
    <2>2. f[d + 1] = UNION {KidSet(h[p]) : p \in f[d]}
      BY <2>1 DEF Descending
    <2>3. ASSUME NEW m \in f[d + 1] PROVE K[m] \subseteq K[n]
      <3>1. PICK p \in f[d] : m \in KidSet(h[p])
        BY <2>2, <2>3
      <3>2. p \in DOMAIN h
        BY <1>1, <2>1, <3>1
      <3>3. K[m] \subseteq K[p]
        BY <3>1, <3>2 DEF Fenced, FencedNode, Holds
      <3>4. K[p] \subseteq K[n]
        BY <1>3, <3>1
      <3>5. QED
        BY <3>3, <3>4
    <2>4. QED
      BY <2>1, <2>3
  <1>4. 0 .. N \subseteq A
    BY <1>2, <1>3, BoundedInduction
  <1>5. QED
    BY <1>1, <1>4

(* The same for the tree of the module.                                     *)
LEMMA LevelsAre ==
  ASSUME NEW lev, Frame(node, root, lev), NEW n \in DOMAIN node, NEW N, N = Cardinality(DOMAIN node)
  PROVE  N \in Nat /\ Heights = 0 .. N /\ lev[n] \in Nat /\ lev[n] < N /\ Descending(Level(n), node, n, N)
  <1>1. N \in Nat /\ lev[n] \in Nat /\ lev[n] < N
    BY Lower
  <1>2. Descending(LevelOf(node, n), node, n, N)
    BY LevelDescends
  <1>3. Level(n) = LevelOf(node, n)
    BY LevelIs
  <1>4. QED
    BY <1>1, <1>2, <1>3 DEF Heights

(* The properties of the module follow from the invariant.                  *)
LEMMA TreeShape ==
  ASSUME IInv
  PROVE  IsTree
  <1>1. PICK lev, K : Sound(node, root, call, curr, hole, lev, K)
    BY DEF IInv
  <1>2. Proper(node, root, lev, K)
    BY <1>1, SoundSays
  <1>3. Frame(node, root, lev) /\ Sized(node, root) /\ root \in DOMAIN node
    BY <1>2, ProperSays
  <1> PICK N : N = Cardinality(DOMAIN node)
    OBVIOUS
  <1>4. /\ N \in Nat /\ Heights = 0 .. N /\ lev[root] \in Nat /\ lev[root] < N
        /\ Descending(Level(root), node, root, N)
    BY <1>3, LevelsAre
  <1>5. lev[root] <= N
    BY <1>4
  <1>6. AllLevels(Level(root), N) = DOMAIN node
    BY <1>3, <1>4, <1>5, LevelsCover
  <1>7. Below(root) = DOMAIN node
    BY <1>4, <1>6 DEF Below, AllLevels
  <1>8. ParentsOf(node, root) = {} /\ \A n \in DOMAIN node \ {root} : Cardinality(ParentsOf(node, n)) = 1
    BY <1>3, ParentsAre
  <1>9. \A n : Parents(n) = ParentsOf(node, n)
    BY DEF Parents, ParentsOf
  <1>10. QED
    BY <1>7, <1>8, <1>9 DEF IsTree

LEMMA TreeFilled ==
  ASSUME IInv
  PROVE  Filled
  <1>1. PICK lev, K : Sound(node, root, call, curr, hole, lev, K)
    BY DEF IInv
  <1>2. Proper(node, root, lev, K)
    BY <1>1, SoundSays
  <1>3. /\ Frame(node, root, lev) /\ Sized(node, root) /\ root \in DOMAIN node
        /\ HeapType(node) /\ Shaped(node) /\ Levelled(node, lev)
    BY <1>2, ProperSays
  <1> PICK N : N = Cardinality(DOMAIN node)
    OBVIOUS
  <1>4. /\ N \in Nat /\ Heights = 0 .. N /\ lev[root] \in Nat /\ lev[root] < N
        /\ Descending(Level(root), node, root, N)
    BY <1>3, LevelsAre
  <1>5. ASSUME NEW n \in DOMAIN node
        PROVE  /\ Size(n) <= Full
               /\ n # root => Size(n) >= MinDegree - 1
               /\ ~node[n].leaf => Len(node[n].child) = Size(n) + 1 /\ Size(n) > 0
    <2>1. Len(node[n].key) \in Nat
      BY <1>3, NodeTypes
    <2>2. SizedNode(node[n], n = root)
      BY <1>3 DEF Sized
    <2>3. ~node[n].leaf => Len(node[n].child) = Len(node[n].key) + 1
      BY <1>3, KidsCount
    <2>4. QED
      BY <2>1, <2>2, <2>3 DEF SizedNode, Size
  <1>6. lev[root] \in Heights /\ \E m \in Level(root)[lev[root]] : node[m].leaf
    <2>1. lev[root] <= N
      BY <1>4
    <2>2. \E m \in Level(root)[lev[root]] : node[m].leaf
      BY <1>3, <1>4, <2>1, LevelFilled
    <2>3. QED
      BY <1>4, <2>1, <2>2
  <1>7. ASSUME NEW d \in Heights, NEW m \in Level(root)[d], node[m].leaf PROVE d = lev[root]
    <2>1. \A e \in 0 .. N : \A q \in Level(root)[e] : q \in DOMAIN node /\ lev[q] \in Nat /\ lev[q] + e = lev[root]
      BY <1>3, <1>4, LevelHeight
    <2>2. m \in DOMAIN node /\ lev[m] \in Nat /\ lev[m] + d = lev[root]
      BY <1>4, <1>7, <2>1
    <2>3. lev[m] = 0
      BY <1>3, <1>7, <2>2 DEF Levelled, LevelledNode
    <2>4. QED
      BY <1>4, <1>7, <2>2, <2>3
  <1>8. LeafDepths = {lev[root]}
    BY <1>6, <1>7 DEF LeafDepths
  <1>9. Cardinality(LeafDepths) = 1
    BY <1>8, FS_Singleton
  <1>10. QED
    BY <1>5, <1>9 DEF Filled

LEMMA TreeOrdered ==
  ASSUME IInv
  PROVE  Ordered
  <1>1. PICK lev, K : Sound(node, root, call, curr, hole, lev, K)
    BY DEF IInv
  <1>2. Proper(node, root, lev, K)
    BY <1>1, SoundSays
  <1>3. Frame(node, root, lev) /\ Fenced(node, K) /\ HeapType(node) /\ Shaped(node)
    BY <1>2, ProperSays
  <1>4. ASSUME NEW c \in DOMAIN node PROVE KeysBelow(c) \subseteq K[c]
    <2> PICK N : N = Cardinality(DOMAIN node)
      OBVIOUS
    <2>1. N \in Nat /\ Heights = 0 .. N /\ Descending(Level(c), node, c, N)
      BY <1>3, LevelsAre
    <2>2. \A d \in 0 .. N : \A m \in Level(c)[d] : m \in DOMAIN node /\ K[m] \subseteq K[c]
      BY <1>3, <2>1, BelowHeld
    <2>3. ASSUME NEW m \in Below(c) PROVE ToSet(node[m].key) \subseteq K[c]
      <3>1. m \in DOMAIN node /\ K[m] \subseteq K[c]
        BY <2>1, <2>2, <2>3 DEF Below
      <3>2. node[m].key \in Seq(Keys)
        BY <1>3, <3>1, NodeTypes
      <3>3. \A i \in 1 .. Len(node[m].key) : node[m].key[i] \in K[m]
        BY <1>3, <3>1 DEF Fenced, FencedNode, Holds
      <3>4. ToSet(node[m].key) \subseteq K[m]
        BY <3>2, <3>3 DEF ToSet
      <3>5. QED
        BY <3>1, <3>4
    <2>4. QED
      BY <2>3 DEF KeysBelow
  <1>5. ASSUME NEW n \in DOMAIN node, NEW i \in 1 .. Size(n), i > 1
        PROVE  node[n].key[i - 1] <= node[n].key[i]
    <2>1. Len(node[n].key) \in Nat /\ Rising(node[n])
      BY <1>3, NodeFence
    <2>2. i \in 1 .. Len(node[n].key) /\ i - 1 \in 1 .. Len(node[n].key) /\ i - 1 <= i
      BY <1>5, <2>1 DEF Size
    <2>3. QED
      BY <2>1, <2>2 DEF Rising, Up
  <1>6. ASSUME NEW n \in DOMAIN node, NEW i \in 1 .. Size(n), ~node[n].leaf
        PROVE  /\ \A k \in KeysBelow(node[n].child[i]) : k <= node[n].key[i]
               /\ \A k \in KeysBelow(node[n].child[i + 1]) : node[n].key[i] <= k
    <2>1. Beside(node[n], K)
      BY <1>3, NodeFence
    <2>2. Len(node[n].child) = Len(node[n].key) + 1 /\ Len(node[n].key) \in Nat
      BY <1>3, <1>6, KidsCount
    <2>3. i \in 1 .. Len(node[n].key) /\ i \in 1 .. Len(node[n].child) /\ i + 1 \in 1 .. Len(node[n].child)
      BY <2>2 DEF Size
    <2>4. node[n].child[i] \in DOMAIN node /\ node[n].child[i + 1] \in DOMAIN node
      BY <1>3, <2>3, ChildIs
    <2>5. \A v \in K[node[n].child[i]] : v <= node[n].key[i]
      <3>1. i <= i
        BY <2>3
      <3>2. QED
        BY <2>1, <2>3, <3>1 DEF Beside, Apart
    <2>6. \A v \in K[node[n].child[i + 1]] : node[n].key[i] <= v
      <3>1. ~(i + 1 <= i)
        BY <2>3
      <3>2. QED
        BY <2>1, <2>3, <3>1 DEF Beside, Apart
    <2>7. QED
      BY <1>4, <2>4, <2>5, <2>6
  <1>7. QED
    BY <1>5, <1>6 DEF Ordered

----------------------------------------------------------------------------
(* Searching                                                                *)

Stopped(n, k) == HasAt(node[n], FindIndex(node[n], k), k) \/ node[n].leaf

(* A round of search keeps on the way to the key, and comes nearer.         *)
LEMMA StepSeeks ==
  ASSUME NEW lev, NEW K, Proper(node, root, lev, K), NEW k \in Keys, NEW n \in DOMAIN node
  PROVE  /\ Step(n, k) \in DOMAIN node
         /\ Under(node, n, k) => Under(node, Step(n, k), k)
         /\ Stopped(n, k) => Step(n, k) = n
         /\ ~Stopped(n, k) => /\ lev[Step(n, k)] \in Nat /\ lev[n] \in Nat
                              /\ lev[Step(n, k)] + 1 = lev[n]
  <1> PICK i : i = FindIndex(node[n], k)
    OBVIOUS
  <1>1. /\ Tree(node, root, lev, K) /\ Frame(node, root, lev) /\ Fenced(node, K)
        /\ HeapType(node) /\ Shaped(node)
    BY ProperSays
  <1>2. Len(node[n].key) \in Nat /\ Ints(node[n].key, Len(node[n].key)) /\ Rising(node[n])
    BY <1>1, NodeFence
  <1>3. k \in Int
    BY BTreeAssumption
  <1>4. /\ i \in 1 .. Len(node[n].key) + 1
        /\ ~HasAt(node[n], i, k) => Between(node[n], i, k)
    BY <1>2, <1>3, FoundAt
  <1>5. CASE Stopped(n, k)
    <2>1. Step(n, k) = n
      BY <1>5 DEF Stopped, Step
    <2>2. QED
      BY <1>5, <2>1
  <1>6. CASE ~Stopped(n, k)
    <2>1. ~HasAt(node[n], i, k) /\ ~node[n].leaf
      BY <1>6 DEF Stopped
    <2>2. Step(n, k) = node[n].child[i]
      BY <2>1 DEF Step
    <2>3. Len(node[n].child) = Len(node[n].key) + 1
      BY <1>1, <2>1, KidsCount
    <2>4. i \in 1 .. Len(node[n].child)
      BY <1>4, <2>3
    <2>5. /\ node[n].child[i] \in DOMAIN node /\ lev[node[n].child[i]] \in Nat /\ lev[n] \in Nat
          /\ lev[node[n].child[i]] + 1 = lev[n]
      BY <1>1, <2>4, ChildIs
    <2>6. Under(node, n, k) => Under(node, node[n].child[i], k)
      BY <1>1, <1>3, <1>4, <2>1, <2>4, UnderFound
    <2>7. QED
      BY <1>6, <2>2, <2>5, <2>6
  <1>7. QED
    BY <1>5, <1>6

Walking(w, k) == [d \in Heights |-> IF d = 0 THEN root ELSE Step(w[d - 1], k)]
WalkOf(k) == CHOOSE w : w = Walking(w, k)

(* The walk of the module is this one.                                      *)
LEMMA SearchEndIs == \A k : SearchEnd(k) = WalkOf(k)[Cardinality(DOMAIN node)]
  BY DEF SearchEnd, WalkOf, Walking

Walks(w, k, N) ==
  /\ w \in [0 .. N -> DOMAIN node]
  /\ w[0] = root
  /\ \A d \in 1 .. N : w[d] = Step(w[d - 1], k)

(* It exists.                                                               *)
LEMMA WalkExists ==
  ASSUME NEW lev, NEW K, Proper(node, root, lev, K), NEW k \in Keys
  PROVE  Walks(WalkOf(k), k, Cardinality(DOMAIN node))
  <1>1. Frame(node, root, lev) /\ root \in DOMAIN node
    BY ProperSays
  <1> PICK N : N = Cardinality(DOMAIN node)
    OBVIOUS
  <1>2. N \in Nat /\ Heights = 0 .. N
    BY <1>1, LevelsAre
  <1> DEFINE next == [n \in DOMAIN node |-> Step(n, k)]
             step == [d \in 1 .. N |-> next]
  <1>3. next \in [DOMAIN node -> DOMAIN node]
    <2>1. \A n \in DOMAIN node : Step(n, k) \in DOMAIN node
      BY StepSeeks
    <2>2. QED
      BY <2>1
  <1>4. Steps(step, N, DOMAIN node)
    BY <1>3 DEF Steps
  <1>5. PICK f : Run(f, N, DOMAIN node, root, step)
    BY <1>1, <1>2, <1>4, Recursion
  <1>6. f \in [0 .. N -> DOMAIN node] /\ f[0] = root /\ \A d \in 1 .. N : f[d] = step[d][f[d - 1]]
    BY <1>5 DEF Run
  <1>7. \A d \in 1 .. N : f[d] = Step(f[d - 1], k)
    <2>1. ASSUME NEW d \in 1 .. N PROVE f[d] = Step(f[d - 1], k)
      <3>1. d - 1 \in 0 .. N
        BY <1>2
      <3>2. f[d - 1] \in DOMAIN node
        BY <1>6, <3>1
      <3>3. QED
        BY <1>6, <3>2
    <2>2. QED
      BY <2>1
  <1>8. f = Walking(f, k)
    <2>1. \A d \in 0 .. N : f[d] = IF d = 0 THEN root ELSE Step(f[d - 1], k)
      BY <1>2, <1>6, <1>7
    <2>2. f = [d \in 0 .. N |-> f[d]]
      BY <1>6
    <2>3. QED
      BY <1>2, <2>1, <2>2 DEF Walking
  <1> DEFINE g == WalkOf(k)
  <1>9. g = Walking(g, k)
    BY <1>8 DEF WalkOf
  <1> HIDE DEF g
  <1>10. /\ DOMAIN g = 0 .. N
         /\ \A d \in 0 .. N : g[d] = IF d = 0 THEN root ELSE Step(g[d - 1], k)
    BY <1>2, <1>9 DEF Walking
  <1>11. \A d \in 0 .. N : g[d] = f[d]
    <2> DEFINE A == {d \in 0 .. N : g[d] = f[d]}
    <2>1. 0 \in A
      <3>1. 0 \in 0 .. N
        BY <1>2
      <3>2. g[0] = root
        BY <1>10, <3>1
      <3>3. QED
        BY <1>6, <3>1, <3>2
    <2>2. ASSUME NEW d \in 0 .. N - 1, d \in A PROVE d + 1 \in A
      <3>1. d + 1 \in 0 .. N /\ d + 1 # 0 /\ d + 1 \in 1 .. N /\ d + 1 - 1 = d
        BY <1>2
      <3>2. g[d + 1] = Step(g[d], k)
        BY <1>10, <3>1
      <3>3. f[d + 1] = Step(f[d], k)
        BY <1>7, <3>1
      <3>4. g[d] = f[d]
        BY <2>2
      <3>5. QED
        BY <3>1, <3>2, <3>3, <3>4
    <2>3. 0 .. N \subseteq A
      BY <1>2, <2>1, <2>2, BoundedInduction
    <2>4. QED
      BY <2>3
  <1>12. g = [d \in 0 .. N |-> g[d]]
    BY <1>2, <1>9, <1>10 DEF Walking
  <1>13. g = f
    BY <1>6, <1>11, <1>12
  <1>14. QED
    BY <1>6, <1>7, <1>13 DEF Walks, g

(* It ends where the key is, if it is anywhere.                             *)
LEMMA WalkEnds ==
  ASSUME NEW lev, NEW K, Proper(node, root, lev, K), NEW k \in Keys,
         NEW N, N = Cardinality(DOMAIN node), NEW w, Walks(w, k, N)
  PROVE  /\ w[N] \in DOMAIN node /\ Stopped(w[N], k)
         /\ Occurs(node, k) => Under(node, w[N], k)
  <1>1. Frame(node, root, lev) /\ root \in DOMAIN node
    BY ProperSays
  <1>2. N \in Nat /\ lev[root] \in Nat /\ lev[root] < N
    BY <1>1, LevelsAre
  <1>3. w \in [0 .. N -> DOMAIN node] /\ w[0] = root
    BY DEF Walks
  <1> DEFINE A == {d \in 0 .. N : /\ Occurs(node, k) => Under(node, w[d], k)
                                  /\ Stopped(w[d], k) \/ lev[w[d]] + d = lev[root]}
  <1>4. 0 \in A
    <2>1. 0 \in 0 .. N /\ lev[root] + 0 = lev[root]
      BY <1>2
    <2>2. Occurs(node, k) => Under(node, root, k)
      BY <1>1, UnderRoot
    <2>3. QED
      BY <1>3, <2>1, <2>2
  <1>5. ASSUME NEW d \in 0 .. N - 1, d \in A PROVE d + 1 \in A
    <2>1. d + 1 \in 0 .. N /\ d + 1 \in 1 .. N /\ d + 1 - 1 = d /\ d \in 0 .. N
      BY <1>2
    <2>2. w[d + 1] = Step(w[d], k) /\ w[d] \in DOMAIN node
      BY <1>3, <2>1 DEF Walks
    <2>3. /\ Under(node, w[d], k) => Under(node, Step(w[d], k), k)
          /\ Stopped(w[d], k) => Step(w[d], k) = w[d]
          /\ ~Stopped(w[d], k) => /\ lev[Step(w[d], k)] \in Nat /\ lev[w[d]] \in Nat
                                  /\ lev[Step(w[d], k)] + 1 = lev[w[d]]
      BY <2>2, StepSeeks
    <2>4. Occurs(node, k) => Under(node, w[d + 1], k)
      BY <1>5, <2>2, <2>3
    <2>5. CASE Stopped(w[d], k)
      <3>1. Stopped(w[d + 1], k)
        BY <2>2, <2>3, <2>5
      <3>2. QED
        BY <2>1, <2>4, <3>1
    <2>6. CASE ~Stopped(w[d], k)
      <3>1. lev[w[d]] + d = lev[root]
        BY <1>5, <2>6
      <3>2. lev[w[d + 1]] \in Nat /\ lev[w[d]] \in Nat /\ lev[w[d + 1]] + 1 = lev[w[d]]
        BY <2>2, <2>3, <2>6
      <3>3. lev[w[d + 1]] + (d + 1) = lev[root]
        BY <1>2, <2>1, <3>1, <3>2
      <3>4. QED
        BY <2>1, <2>4, <3>3
    <2>7. QED
      BY <2>5, <2>6
  <1>6. 0 .. N \subseteq A
    BY <1>2, <1>4, <1>5, BoundedInduction
  <1>7. N \in A /\ w[N] \in DOMAIN node
    BY <1>2, <1>3, <1>6
  <1>8. lev[w[N]] \in Nat
    BY <1>1, <1>7, LevelsAre
  <1>9. lev[w[N]] + N # lev[root]
    BY <1>2, <1>8
  <1>10. QED
    BY <1>7, <1>9

(* searchKey finds a key exactly if it occurs.                              *)
LEMMA SearchFinds ==
  ASSUME NEW lev, NEW K, Proper(node, root, lev, K), NEW k \in Keys
  PROVE  searchKey(k) = "found" <=> Occurs(node, k)
  <1> PICK N : N = Cardinality(DOMAIN node)
    OBVIOUS
  <1> PICK w : w = WalkOf(k)
    OBVIOUS
  <1> PICK m : m = w[N]
    OBVIOUS
  <1>1. Walks(w, k, N)
    BY WalkExists
  <1>2. m \in DOMAIN node /\ Stopped(m, k) /\ (Occurs(node, k) => Under(node, m, k))
    BY <1>1, WalkEnds
  <1>3. SearchEnd(k) = m
    BY SearchEndIs
  <1>4. HeapType(node) /\ Shaped(node) /\ Fenced(node, K)
    BY ProperSays
  <1>5. Len(node[m].key) \in Nat /\ Ints(node[m].key, Len(node[m].key)) /\ Rising(node[m])
    BY <1>2, <1>4, NodeFence
  <1>6. k \in Int
    BY BTreeAssumption
  <1>7. /\ FindIndex(node[m], k) \in 1 .. Len(node[m].key) + 1
        /\ ~HasAt(node[m], FindIndex(node[m], k), k) => ~KeyAt(node[m], k)
    BY <1>5, <1>6, FoundAt
  <1>8. searchKey(k) = "found" <=> HasAt(node[m], FindIndex(node[m], k), k)
    BY <1>3 DEF searchKey
  <1>9. ASSUME HasAt(node[m], FindIndex(node[m], k), k) PROVE Occurs(node, k)
    <2>1. FindIndex(node[m], k) \in 1 .. Len(node[m].key) /\ node[m].key[FindIndex(node[m], k)] = k
      BY <1>5, <1>7, <1>9 DEF HasAt
    <2>2. QED
      BY <1>2, <2>1 DEF Occurs
  <1>10. ASSUME Occurs(node, k) PROVE HasAt(node[m], FindIndex(node[m], k), k)
    <2>1. CASE node[m].leaf
      <3>1. KeyAt(node[m], k)
        BY <1>2, <1>4, <1>10, <2>1, LeafHolds
      <3>2. QED
        BY <1>7, <3>1
    <2>2. CASE ~node[m].leaf
      BY <1>2, <2>2 DEF Stopped
    <2>3. QED
      BY <2>1, <2>2
  <1>11. QED
    BY <1>8, <1>9, <1>10

(* There are no fewer than no copies.                                       *)
LEMMA CopiesNat ==
  ASSUME NEW h, HeapType(h), NEW k
  PROVE  Copies(h, k) \in Nat
  <1>1. Copies(h, k) = Total(KeysOf(h), {k}) /\ Lists(KeysOf(h))
    BY HeapLists DEF Copies
  <1>2. \A n \in DOMAIN KeysOf(h) : Counts(KeysOf(h), {k})[n] \in Nat
    BY <1>1, CountType DEF Counts, Lists
  <1>3. IsFiniteSet(DOMAIN KeysOf(h))
    BY <1>1 DEF Lists
  <1>4. QED
    BY <1>1, <1>2, <1>3, SumNonnegative DEF Total

LEMMA TreeSearched ==
  ASSUME IInv
  PROVE  SearchExact
  <1>1. PICK lev, K : Sound(node, root, call, curr, hole, lev, K)
    BY DEF IInv
  <1>2. Proper(node, root, lev, K)
    BY <1>1, SoundSays
  <1>3. ASSUME NEW k \in Keys PROVE searchKey(k) = "found" <=> Bag[k] > 0
    <2>1. searchKey(k) = "found" <=> Occurs(node, k)
      BY <1>2, SearchFinds
    <2>2. BagOf(node)[k] = Copies(node, k)
      BY <1>2, BagIs
    <2>3. HeapType(node)
      BY <1>2, ProperSays
    <2>4. Copies(node, k) = 0 <=> ~Occurs(node, k)
      BY <2>3, OccursCounted
    <2>5. Copies(node, k) \in Nat
      BY <2>3, CopiesNat
    <2>6. Bag = BagOf(node)
      BY BagPrime
    <2>7. QED
      BY <2>1, <2>2, <2>4, <2>5, <2>6
  <1>4. QED
    BY <1>3 DEF SearchExact

(* AboveLeaf before and after a step.                                       *)
LEMMA AboveLeafs ==
  /\ AboveLeaf(curr) = AboveLeafOf(node, curr)
  /\ AboveLeaf(curr)' = AboveLeafOf(node', curr')
  BY DEF AboveLeaf, AboveLeafOf, Level, LevelOf, Heights, Descent

(* Only the begin and the end of a call do not come nearer to the leaves.   *)
LEMMA StepDescends ==
  ASSUME IInv, FewCopies, Next, call # NoCall, call' # NoCall
  PROVE  AboveLeaf(curr)' < AboveLeaf(curr)
  <1>1. CASE Beginning
    BY <1>1 DEF Beginning, Promised!Begin
  <1>2. CASE Ending
    BY <1>2 DEF Ending
  <1>3. CASE Progress
    <2>1. Nearer(node, root, curr, node', root', curr')
      BY <1>3 DEF Progress
    <2>2. PICK l, m : /\ Frame(node, root, l) /\ Frame(node', root', m)
                      /\ curr \in DOMAIN node /\ curr' \in DOMAIN node' /\ m[curr'] < l[curr]
      BY <2>1 DEF Nearer
    <2>3. AboveLeafOf(node, curr) = l[curr]
      BY <2>2, AboveLeafIs
    <2>4. AboveLeafOf(node', curr') = m[curr']
      BY <2>2, AboveLeafIs
    <2>5. QED
      BY <2>2, <2>3, <2>4, AboveLeafs
  <1>4. QED
    BY <1>1, <1>2, <1>3, NextDoes

----------------------------------------------------------------------------
(* The theorems.  In each the tree may hold at most 2t equal keys, as the   *)
(* comparison of a key with the key split off requires.                     *)

(* The pointers form a tree after every round of insert and remove: every   *)
(* node that malloc gave is reached from the root on one path, so that none *)
(* leaks and none is freed twice.                                           *)
THEOREM AlwaysTree ==
  ASSUME FewCopies
  PROVE  Spec => []IsTree
  <1>1. IInv => IsTree
    BY TreeShape
  <1>2. QED
    BY <1>1, Invariance, PTL

(* Splitting, borrowing and merging keep every node but the root at t - 1   *)
(* keys or more and no node over 2t - 1, and all leaves equally deep.       *)
THEOREM AlwaysFilled ==
  ASSUME FewCopies
  PROVE  Spec => []Filled
  <1>1. IInv => Filled
    BY TreeFilled
  <1>2. QED
    BY <1>1, Invariance, PTL

(* The keys in a node and under its children are in order after every round.*)
THEOREM AlwaysOrdered ==
  ASSUME FewCopies
  PROVE  Spec => []Ordered
  <1>1. IInv => Ordered
    BY TreeOrdered
  <1>2. QED
    BY <1>1, Invariance, PTL

(* searchKey finds a key exactly if the tree has a copy of it.              *)
THEOREM AlwaysSearched ==
  ASSUME FewCopies
  PROVE  Spec => []SearchExact
  <1>1. IInv => SearchExact
    BY TreeSearched
  <1>2. QED
    BY <1>1, Invariance, PTL

(* Every round of the loop of insert or remove brings the call nearer to    *)
(* the leaves.                                                              *)
THEOREM AlwaysDescends ==
  ASSUME FewCopies
  PROVE  Spec => Descends
  <1>1. IInv /\ [Next]_vars =>
          [call # NoCall /\ call' # NoCall => AboveLeaf(curr)' < AboveLeaf(curr)]_vars
    BY StepDescends
  <1>2. QED
    BY <1>1, Invariance, PTL DEF Spec, Descends
=============================================================================

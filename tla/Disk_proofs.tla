----------------------------- MODULE Disk_proofs -----------------------------
(***************************************************************************)
(* Theorems about the store for any tables, schemas, rows, queries and     *)
(* crashes, in three parts.                                                *)
(*                                                                         *)
(* Catalogue: what the catalogue's operators return for every catalogue, a *)
(* function from integers to cells, however the cells are laid out; what   *)
(* the walks find when the records follow each other without a gap, and    *)
(* what adding and dropping a record make of it.                           *)
(*                                                                         *)
(* Store: types, that every reachable slot has a page, that the files hold *)
(* what memory holds when a reply is given, and that orderly clients never *)
(* make two tables share a page nor break the chain of the catalogue's     *)
(* records; that their queries end, without an endless walk and, when all  *)
(* tables have equally many columns, without an end of the process.        *)
(*                                                                         *)
(* Promise: Disk implements TableStore.  Under the mapping of Promise an   *)
(* insertion takes effect when the page of its table is written, a query   *)
(* is settled when the last page is, and all else up to the reply or the   *)
(* end of the process is a stutter.  The promise is read off the files,    *)
(* the operations work on memory.  What relates the two, at every step of  *)
(* a query: the catalogue in memory and the one in the file list the same  *)
(* tables with the same column types, and their pages are the same, except *)
(* for the table that is created or dropped and for the one row that is    *)
(* inserted.  ListsInv says so of the catalogues, EntriesInv and KeptInv   *)
(* of the pages and of what clients were told, AnswerInv of the reply      *)
(* under way.  With the invariants of the store they are inductive         *)
(* (RefStep); the lemmas that end in Maps take each action to a step of    *)
(* TableStore.                                                             *)
(***************************************************************************)
EXTENDS Disk, Induction, FiniteSetTheorems, TLAPS

----------------------------------------------------------------------------
(* Catalogue                                                                *)
----------------------------------------------------------------------------

LEMMA PutCatalog ==
  ASSUME NEW f, IsCatalog(f), NEW k \in Int, NEW v \in Cell
  PROVE  IsCatalog(Put(f, k, v))
  BY DEF IsCatalog, Put

LEMMA OverCatalog ==
  ASSUME NEW f, NEW g, IsCatalog(f), IsCatalog(g)
  PROVE  IsCatalog(Over(g, f))
  BY DEF IsCatalog, Over

LEMMA RestrictCatalog ==
  ASSUME NEW f, IsCatalog(f), NEW S \in SUBSET DOMAIN f
  PROVE  IsCatalog(Restrict(f, S))
  BY DEF IsCatalog, Restrict

LEMMA CellTypes ==
  /\ \A n \in Int : IntCell(n) \in Cell
  /\ \A s \in Text : StrCell(s) \in Cell
  BY DEF IntCell, StrCell, Cell

(* Reading any position as an integer gives an integer, and as a text a    *)
(* text, whatever kind of cell is there.                                   *)
LEMMA ReadTypes ==
  ASSUME NEW f, IsCatalog(f), NEW p
  PROVE  /\ IntAt(f, p) \in Int
         /\ TextAt(f, p) \in Text
  <1>1. CASE p \notin DOMAIN f
    BY <1>1, TextAssumption DEF IntAt, TextAt
  <1>2. CASE p \in DOMAIN f /\ f[p] \in [int : Int]
    <2>1. "int" \in DOMAIN f[p] /\ "str" \notin DOMAIN f[p] /\ f[p].int \in Int
      BY <1>2
    <2>2. QED
      BY <1>2, <2>1, TextAssumption DEF IntAt, TextAt
  <1>3. CASE p \in DOMAIN f /\ f[p] \in [str : Text]
    <2>1. "str" \in DOMAIN f[p] /\ "int" \notin DOMAIN f[p] /\ f[p].str \in Text
      BY <1>3
    <2>2. QED
      BY <1>3, <2>1, TextAssumption, SizeAssumption DEF IntAt, TextAt, Garbage
  <1>4. QED
    BY <1>1, <1>2, <1>3 DEF IsCatalog, Cell

LEMMA AddRecordType ==
  ASSUME NEW f, IsCatalog(f), NEW name \in Text, NEW types \in Seq(Text)
  PROVE  IsCatalog(AddRecord(f, name, types))
  <1> DEFINE x == Fin(f)
             D == {x + IntSize + StrSize * k : k \in 1 .. 2 * Len(types)}
             col(p) == (p - x - IntSize) \div StrSize
             cols == [p \in D |-> StrCell(IF col(p) % 2 = 1 THEN ColumnText
                                          ELSE Cstr[types[col(p) \div 2]])]
             named == Put(Over(cols, f), x + IntSize, StrCell(Cstr[name]))
             sized == Put(named, x, IntCell(RecordSize(types)))
  <1>1. x \in Int /\ RecordSize(types) \in Int
    BY ReadTypes DEF Fin, RecordSize, IntSize, StrSize
  <1>2. IsCatalog(cols)
    <2>1. SUFFICES ASSUME NEW p \in D PROVE p \in Int /\ cols[p] \in Cell
      BY <2>1 DEF IsCatalog
    <2>2. PICK k \in 1 .. 2 * Len(types) : p = x + IntSize + StrSize * k
      OBVIOUS
    <2>3. p \in Int /\ col(p) = k
      BY <1>1, <2>2 DEF IntSize, StrSize
    <2>4. k % 2 # 1 => types[k \div 2] \in Text
      <3>1. k % 2 # 1 => k \div 2 \in 1 .. Len(types)
        BY <2>2
      <3>2. QED
        BY <3>1
    <2>5. (IF k % 2 = 1 THEN ColumnText ELSE Cstr[types[k \div 2]]) \in Text
      BY <2>4, TextAssumption
    <2>6. QED
      BY <2>3, <2>5, CellTypes
  <1>3. IsCatalog(named)
    <2>1. Cstr[name] \in Text
      BY TextAssumption
    <2>2. x + IntSize \in Int
      BY <1>1 DEF IntSize
    <2>3. QED
      BY <1>2, <2>1, <2>2, OverCatalog, PutCatalog, CellTypes
  <1>4. IsCatalog(sized)
    BY <1>1, <1>3, PutCatalog, CellTypes
  <1>5. IsCatalog(Put(sized, 0, IntCell(x + RecordSize(types))))
    BY <1>1, <1>4, PutCatalog, CellTypes
  <1>6. QED
    BY <1>5 DEF AddRecord

LEMMA DropRecordType ==
  ASSUME NEW f, IsCatalog(f), NEW loc \in Int
  PROVE  IsCatalog(DropRecord(f, loc))
  <1> DEFINE l == IntAt(f, loc)
             p == NextSize(f, loc)
             D == {loc + IntSize + StrSize * i : i \in 0 .. (p \div StrSize) - 1}
             moved == [q \in D |-> StrCell(Cstr[TextAt(f, q + l)])]
             shifted == Put(Over(moved, f), loc, IntCell(p))
  <1>1. l \in Int /\ p \in Int /\ Fin(f) \in Int
    BY ReadTypes DEF NextSize, Fin
  <1>2. IsCatalog(moved)
    <2>1. \A q \in D : q \in Int
      BY DEF IntSize, StrSize
    <2>2. \A q \in D : Cstr[TextAt(f, q + l)] \in Text
      BY ReadTypes, TextAssumption
    <2>3. QED
      BY <2>1, <2>2, CellTypes DEF IsCatalog
  <1>3. IsCatalog(shifted)
    BY <1>1, <1>2, OverCatalog, PutCatalog, CellTypes
  <1>4. IsCatalog(Put(shifted, 0, IntCell(Fin(f) - l)))
    <2>1. Fin(f) - l \in Int
      BY <1>1
    <2>2. QED
      BY <1>3, <2>1, PutCatalog, CellTypes
  <1>5. QED
    BY <1>4 DEF DropRecord

(* The types found for any position are a sequence of texts.               *)
LEMMA ColumnTypesType ==
  ASSUME NEW f, IsCatalog(f), NEW loc
  PROVE  ColumnTypes(f, loc) \in Seq(Text)
  <1> DEFINE n == (IntAt(f, loc) - IntSize - StrSize) \div (2 * StrSize)
             g == [i \in 1 .. n |-> TextAt(f, loc + IntSize + 2 * StrSize * i)]
  <1>1. n \in Int
    BY ReadTypes DEF IntSize, StrSize
  <1>2. g \in Seq(Text)
    <2>1. g \in [1 .. n -> Text]
      BY ReadTypes
    <2>2. CASE n \in Nat
      BY <2>1, <2>2
    <2>3. CASE n < 0
      <3>1. 1 .. n = 1 .. 0
        BY <1>1, <2>3
      <3>2. g \in [1 .. 0 -> Text]
        BY <2>1, <3>1
      <3>3. \A h \in [1 .. 0 -> Text] : h \in Seq(Text)
        OBVIOUS
      <3>4. QED
        BY <3>2, <3>3
    <2>4. QED
      BY <1>1, <2>2, <2>3
  <1>3. QED
    BY <1>2 DEF ColumnTypes

(***************************************************************************)
(* Walks.  A walk is a recursive function of the position, so it is one    *)
(* only where each step is known to lead closer to the end; where every    *)
(* size reads as a natural number that is so.                              *)
(***************************************************************************)

Natural(f) == \A p : IntAt(f, p) \in Nat

(* What a walk over positions is worth at each: `last' where it stops, and *)
(* elsewhere `turn' of what it is worth where it goes next.                *)
Worth(w, V, Stop, last, size, turn) ==
  /\ w \in [Nat -> V]
  /\ \A loc \in Nat :
       w[loc] = IF loc \in Stop THEN last[loc] ELSE turn[loc][w[loc + size[loc]]]

Going(V, Stop, last, size, turn, limit) ==
  /\ limit \in Nat /\ V # {}
  /\ \A loc \in Nat : loc >= limit => loc \in Stop
  /\ \A loc \in Nat : loc \in Stop => last[loc] \in V
  /\ \A loc \in Nat \ Stop :
       /\ size[loc] \in Nat \ {0}
       /\ \A v \in V : turn[loc][v] \in V

LEMMA WalkExists ==
  ASSUME NEW V, NEW Stop, NEW last, NEW size, NEW turn, NEW limit,
         Going(V, Stop, last, size, turn, limit)
  PROVE  \E w : Worth(w, V, Stop, last, size, turn)
  <1> DEFINE Value(w, loc) == IF loc \in Stop THEN last[loc]
                              ELSE turn[loc][w[loc + size[loc]]]
             Good(w, n) == \A loc \in Nat : loc >= limit - n => w[loc] = Value(w, loc)
             A == {n \in Nat : \E w \in [Nat -> V] : Good(w, n)}
  <1>1. limit \in Nat
    BY DEF Going
  <1>2. \A w \in [Nat -> V], loc \in Nat : Value(w, loc) \in V
    BY DEF Going
  <1>3. 0 \in A
    <2>1. PICK v \in V : TRUE
      BY DEF Going
    <2> DEFINE w == [loc \in Nat |-> IF loc \in Stop THEN last[loc] ELSE v]
    <2>2. w \in [Nat -> V] /\ Good(w, 0)
      BY <1>1 DEF Going
    <2>3. QED
      BY <2>2
  <1>4. ASSUME NEW n \in A PROVE n + 1 \in A
    <2>1. n \in Nat /\ n + 1 \in Nat
      OBVIOUS
    <2>2. PICK w \in [Nat -> V] : Good(w, n)
      OBVIOUS
    <2> DEFINE here == limit - (n + 1)
               next == [w EXCEPT ![here] = Value(w, here)]
    <2>3. CASE here \in Nat
      <3>1. next \in [Nat -> V]
        BY <1>2, <2>3
      <3>2. ASSUME NEW loc \in Nat, loc >= here PROVE next[loc] = Value(next, loc)
        <4>1. Value(next, loc) = Value(w, loc)
          <5>1. loc \notin Stop =>
                  loc + size[loc] \in Nat /\ loc + size[loc] # here
            BY <1>1, <2>1, <2>3, <3>2 DEF Going
          <5>2. QED
            BY <5>1
        <4>2. CASE loc = here
          BY <2>3, <4>1, <4>2
        <4>3. CASE loc # here
          <5>1. loc >= limit - n /\ next[loc] = w[loc]
            BY <1>1, <2>1, <3>2, <4>3
          <5>2. QED
            BY <2>2, <4>1, <5>1
        <4>4. QED
          BY <4>2, <4>3
      <3>3. Good(next, n + 1)
        BY <3>2
      <3>4. QED
        <4> HIDE DEF next, Good
        <4>1. QED
          BY <2>1, <3>1, <3>3
    <2>4. CASE here \notin Nat
      <3>1. \A loc \in Nat : loc >= here => loc >= limit - n
        BY <1>1, <2>1, <2>4
      <3>2. Good(w, n + 1)
        BY <2>2, <3>1
      <3>3. QED
        BY <2>1, <3>2
    <2>5. QED
      BY <2>3, <2>4
  <1>5. A = Nat
    <2>1. A \in SUBSET Nat
      OBVIOUS
    <2> HIDE DEF A
    <2>2. QED
      BY <1>3, <1>4, <2>1, SetInduction
  <1>6. PICK w \in [Nat -> V] : Good(w, limit)
    BY <1>1, <1>5
  <1>7. \A loc \in Nat : w[loc] = Value(w, loc)
    BY <1>1, <1>6
  <1>8. QED
    BY <1>7 DEF Worth

(* FirstMatch and Chain are what their texts say.                          *)
LEMMA MatchUnfolds ==
  ASSUME NEW f, Natural(f), NEW name
  PROVE  \E w : /\ FirstMatch(f, name) = w[FirstRecord]
                /\ \A loc \in Nat :
                     w[loc] = IF loc >= Fin(f) THEN NotFound
                              ELSE IF TextAt(f, loc + IntSize) = name THEN loc
                              ELSE IF IntAt(f, loc) = 0 THEN Endless
                              ELSE w[loc + IntAt(f, loc)]
  <1> DEFINE body(w) == [loc \in Nat |->
                          IF loc >= Fin(f) THEN NotFound
                          ELSE IF TextAt(f, loc + IntSize) = name THEN loc
                          ELSE IF IntAt(f, loc) = 0 THEN Endless
                          ELSE w[loc + IntAt(f, loc)]]
             Stop == {loc \in Nat : \/ loc >= Fin(f) \/ IntAt(f, loc) = 0
                                    \/ TextAt(f, loc + IntSize) = name}
             last == [loc \in Nat |-> IF loc >= Fin(f) THEN NotFound
                                      ELSE IF TextAt(f, loc + IntSize) = name THEN loc
                                      ELSE Endless]
             size == [loc \in Nat |-> IntAt(f, loc)]
             turn == [loc \in Nat |-> [v \in Int |-> v]]
  <1>1. Fin(f) \in Nat /\ \A loc \in Nat : IntAt(f, loc) \in Nat
    BY DEF Natural, Fin
  <1>2. Going(Int, Stop, last, size, turn, Fin(f))
    BY <1>1 DEF Going, NotFound, Endless
  <1>3. PICK w : Worth(w, Int, Stop, last, size, turn)
    <2> HIDE DEF Stop, last, size, turn
    <2>1. QED
      BY <1>2, WalkExists
  <1>4. w = body(w)
    <2>1. w \in [Nat -> Int]
      BY <1>3 DEF Worth
    <2>2. \A loc \in Nat : w[loc] = IF loc \in Stop THEN last[loc]
                                    ELSE turn[loc][w[loc + size[loc]]]
      BY <1>3 DEF Worth
    <2>3. ASSUME NEW loc \in Nat PROVE w[loc] = body(w)[loc]
      <3>1. w[loc + size[loc]] \in Int
        BY <1>1, <2>1
      <3>2. turn[loc][w[loc + size[loc]]] = w[loc + IntAt(f, loc)]
        BY <3>1
      <3>3. QED
        BY <2>2, <3>2
    <2>4. QED
      BY <2>1, <2>3
  <1>5. PICK v : v = (CHOOSE g : g = body(g))
    OBVIOUS
  <1>6. v = body(v)
    <2>1. \E g : g = body(g)
      BY <1>4
    <2> HIDE DEF body
    <2>2. QED
      BY <1>5, <2>1
  <1>7. FirstMatch(f, name) = v[FirstRecord]
    BY <1>5 DEF FirstMatch
  <1>8. \A loc \in Nat : v[loc] = body(v)[loc]
    <2> HIDE DEF body
    <2>1. QED
      BY <1>6
  <1>9. QED
    BY <1>7, <1>8

LEMMA ChainUnfolds ==
  ASSUME NEW f, Natural(f)
  PROVE  \E w : /\ Chain(f) = w[FirstRecord]
                /\ \A loc \in Nat :
                     w[loc] = IF loc >= Fin(f) \/ IntAt(f, loc) = 0 THEN <<loc>>
                              ELSE <<loc>> \o w[loc + IntAt(f, loc)]
  <1> DEFINE V == Seq(Nat)
             body(w) == [loc \in Nat |->
                          IF loc >= Fin(f) \/ IntAt(f, loc) = 0 THEN <<loc>>
                          ELSE <<loc>> \o w[loc + IntAt(f, loc)]]
             Stop == {loc \in Nat : loc >= Fin(f) \/ IntAt(f, loc) = 0}
             last == [loc \in Nat |-> <<loc>>]
             size == [loc \in Nat |-> IntAt(f, loc)]
             turn == [loc \in Nat |-> [v \in V |-> <<loc>> \o v]]
  <1>1. Fin(f) \in Nat /\ \A loc \in Nat : IntAt(f, loc) \in Nat
    BY DEF Natural, Fin
  <1>2. Going(V, Stop, last, size, turn, Fin(f))
    <2>1. V # {} /\ \A loc \in Nat : <<loc>> \in V
      <3>1. \A loc \in Nat : <<loc>> \in V
        OBVIOUS
      <3>2. << >> \in V
        OBVIOUS
      <3>3. QED
        BY <3>1, <3>2
    <2>2. ASSUME NEW loc \in Nat, NEW v \in V PROVE turn[loc][v] \in V
      OBVIOUS
    <2>3. \A loc \in Nat \ Stop : size[loc] \in Nat \ {0}
      BY <1>1
    <2> HIDE DEF V
    <2>4. QED
      BY <1>1, <2>1, <2>2, <2>3 DEF Going
  <1>3. PICK w : Worth(w, V, Stop, last, size, turn)
    <2> HIDE DEF V, Stop, last, size, turn
    <2>1. QED
      BY <1>2, WalkExists
  <1>4. w = body(w)
    <2> HIDE DEF V
    <2>1. w \in [Nat -> V]
      BY <1>3 DEF Worth
    <2>2. \A loc \in Nat : w[loc] = IF loc \in Stop THEN last[loc]
                                    ELSE turn[loc][w[loc + size[loc]]]
      BY <1>3 DEF Worth
    <2>3. ASSUME NEW loc \in Nat PROVE w[loc] = body(w)[loc]
      <3>1. w[loc + size[loc]] \in V
        BY <1>1, <2>1
      <3>2. turn[loc][w[loc + size[loc]]] = <<loc>> \o w[loc + IntAt(f, loc)]
        BY <3>1
      <3>3. QED
        BY <2>2, <3>2
    <2>4. QED
      BY <2>1, <2>3
  <1>5. PICK v : v = (CHOOSE g : g = body(g))
    OBVIOUS
  <1>6. v = body(v)
    <2>1. \E g : g = body(g)
      BY <1>4
    <2> HIDE DEF body
    <2>2. QED
      BY <1>5, <2>1
  <1>7. Chain(f) = v[FirstRecord]
    BY <1>5 DEF Chain
  <1>8. \A loc \in Nat : v[loc] = body(v)[loc]
    <2> HIDE DEF body
    <2>1. QED
      BY <1>6
  <1>9. QED
    BY <1>7, <1>8

(***************************************************************************)
(* A catalogue that is whole: its records, here the set of their           *)
(* positions, follow each other up to `fin', each of the size of a record  *)
(* of some number of columns, under names that differ.                     *)
(***************************************************************************)

NameAt(f, r) == TextAt(f, r + IntSize)
After(f, r) == r + IntAt(f, r)
NamesOf(f, R) == {NameAt(f, r) : r \in R}

IsSize(k) == \E n \in Nat : k = 2 * StrSize * n + IntSize + StrSize

Follows(f, R) ==
  /\ R \subseteq Nat
  /\ FirstRecord \in R \cup {Fin(f)} /\ FirstRecord <= Fin(f)
  /\ \A r \in R :
       /\ FirstRecord <= r /\ IsSize(IntAt(f, r))
       /\ After(f, r) \in R \cup {Fin(f)} /\ After(f, r) <= Fin(f)
  /\ \A q, r \in R : q < r => After(f, q) <= r

Named(f, R) ==
  /\ \A r \in R : Cstr[NameAt(f, r)] = NameAt(f, r)
  /\ \A q, r \in R : NameAt(f, q) = NameAt(f, r) => q = r

Intact(f, R) == Natural(f) /\ Follows(f, R) /\ Named(f, R)

LEMMA SizeFacts ==
  /\ \A k : IsSize(k) => k \in Nat /\ k >= IntSize + StrSize
  /\ \A types : Len(types) \in Nat => IsSize(RecordSize(types))
  <1>1. \A k : IsSize(k) => k \in Nat /\ k >= IntSize + StrSize
    BY DEF IsSize, IntSize, StrSize
  <1>2. ASSUME NEW types, Len(types) \in Nat PROVE IsSize(RecordSize(types))
    BY <1>2 DEF IsSize, RecordSize
  <1>3. QED
    BY <1>1, <1>2

LEMMA RecordFacts ==
  ASSUME NEW f, NEW R, Intact(f, R)
  PROVE  /\ Fin(f) \in Nat /\ Fin(f) \notin R
         /\ \A r \in R : /\ r \in Nat /\ IntAt(f, r) \in Nat
                         /\ IntAt(f, r) >= IntSize + StrSize
                         /\ After(f, r) \in Nat /\ r < After(f, r) /\ r < Fin(f)
                         /\ r + IntSize < After(f, r)
  <1>1. Fin(f) \in Nat
    BY DEF Intact, Natural, Fin
  <1>2. ASSUME NEW r \in R
        PROVE  /\ r \in Nat /\ IntAt(f, r) \in Nat
               /\ IntAt(f, r) >= IntSize + StrSize
               /\ After(f, r) \in Nat /\ r < After(f, r) /\ r < Fin(f)
               /\ r + IntSize < After(f, r)
    <2>1. /\ r \in Nat /\ IsSize(IntAt(f, r)) /\ After(f, r) <= Fin(f)
      BY DEF Intact, Follows
    <2>2. IntAt(f, r) \in Nat /\ IntAt(f, r) >= IntSize + StrSize
      BY <2>1, SizeFacts
    <2>3. QED
      BY <1>1, <2>1, <2>2 DEF After, IntSize, StrSize
  <1>3. QED
    BY <1>1, <1>2

(* Where a walk can stand in a whole catalogue; every set of positions     *)
(* that contains the end, and a record when it contains the next position, *)
(* contains them all.                                                      *)
Positions(f, R) == R \cup {Fin(f)}

LEMMA RecordInduction ==
  ASSUME NEW f, NEW R, Intact(f, R), NEW A,
         Fin(f) \in A, \A r \in R : After(f, r) \in A => r \in A
  PROVE  Positions(f, R) \subseteq A
  <1> DEFINE B == {n \in Nat : \A loc \in Positions(f, R) : Fin(f) - loc <= n => loc \in A}
  <1>1. Fin(f) \in Nat /\ \A loc \in Positions(f, R) : loc \in Nat /\ loc <= Fin(f)
    BY RecordFacts DEF Positions
  <1>2. 0 \in B
    BY <1>1, RecordFacts DEF Positions
  <1>3. ASSUME NEW n \in B PROVE n + 1 \in B
    <2>1. SUFFICES ASSUME NEW loc \in Positions(f, R), Fin(f) - loc <= n + 1
                   PROVE  loc \in A
      OBVIOUS
    <2>2. CASE loc = Fin(f)
      BY <2>2
    <2>3. CASE loc \in R
      <3>1. /\ After(f, loc) \in Positions(f, R)
            /\ After(f, loc) \in Nat /\ loc < After(f, loc) /\ loc \in Nat
        BY <2>3, RecordFacts DEF Intact, Follows, Positions
      <3>2. Fin(f) - After(f, loc) <= n
        BY <1>1, <2>1, <3>1
      <3>3. QED
        BY <2>3, <3>1, <3>2
    <2>4. QED
      BY <2>2, <2>3 DEF Positions
  <1>4. B = Nat
    <2>1. B \in SUBSET Nat
      OBVIOUS
    <2> HIDE DEF B
    <2>2. QED
      BY <1>2, <1>3, <2>1, SetInduction
  <1>5. ASSUME NEW loc \in Positions(f, R) PROVE loc \in A
    <2>1. Fin(f) \in B /\ Fin(f) - loc <= Fin(f)
      BY <1>1, <1>4
    <2>2. QED
      BY <2>1
  <1>6. QED
    BY <1>5

(* A name is found where it stands, and a name no record has is not found. *)
LEMMA IntactMatch ==
  ASSUME NEW f, NEW R, Intact(f, R), NEW name
  PROVE  \/ FirstMatch(f, name) = NotFound /\ name \notin NamesOf(f, R)
         \/ FirstMatch(f, name) \in R /\ NameAt(f, FirstMatch(f, name)) = name
  <1>1. PICK w : /\ FirstMatch(f, name) = w[FirstRecord]
                 /\ \A loc \in Nat :
                      w[loc] = IF loc >= Fin(f) THEN NotFound
                               ELSE IF TextAt(f, loc + IntSize) = name THEN loc
                               ELSE IF IntAt(f, loc) = 0 THEN Endless
                               ELSE w[loc + IntAt(f, loc)]
    BY MatchUnfolds DEF Intact
  <1> DEFINE A == {loc \in Nat :
                     \/ w[loc] = NotFound /\ \A r \in R : r >= loc => NameAt(f, r) # name
                     \/ w[loc] \in R /\ NameAt(f, w[loc]) = name}
  <1>2. Fin(f) \in A
    BY <1>1, RecordFacts
  <1>3. ASSUME NEW r \in R, After(f, r) \in A PROVE r \in A
    <2>1. /\ r \in Nat /\ ~(r >= Fin(f)) /\ IntAt(f, r) # 0
          /\ After(f, r) \in Nat
      BY RecordFacts DEF IntSize, StrSize
    <2>2. w[r] = IF NameAt(f, r) = name THEN r ELSE w[After(f, r)]
      BY <1>1, <2>1 DEF NameAt, After
    <2>3. CASE NameAt(f, r) = name
      BY <2>1, <2>2, <2>3
    <2>4. CASE NameAt(f, r) # name
      <3>1. \A q \in R : q >= r => q = r \/ q >= After(f, r)
        BY <2>1, RecordFacts DEF Intact, Follows
      <3>2. QED
        BY <1>3, <2>1, <2>2, <2>4, <3>1
    <2>5. QED
      BY <2>3, <2>4
  <1>4. FirstRecord \in A
    <2>1. Positions(f, R) \subseteq A
      <3> HIDE DEF A
      <3>1. QED
        BY <1>2, <1>3, RecordInduction
    <2>2. QED
      BY <2>1 DEF Intact, Follows, Positions
  <1>5. \A r \in R : r >= FirstRecord
    BY DEF Intact, Follows
  <1>6. QED
    BY <1>1, <1>4, <1>5 DEF NamesOf

(* A sequence of rising positions that ends at `fin' and before it goes    *)
(* through exactly the records of a set.                                   *)
Through(c, f, S) ==
  /\ c \in Seq(Nat) /\ Len(c) >= 1 /\ c[Len(c)] = Fin(f)
  /\ \A i, j \in 1 .. Len(c) : i < j => c[i] < c[j]
  /\ {c[i] : i \in 1 .. Len(c) - 1} = S

LEMMA ThroughMore ==
  ASSUME NEW f, NEW c, NEW S \in SUBSET Nat, Fin(f) \in Nat, Through(c, f, S),
         NEW r \in Nat, \A q \in S : r < q, r < Fin(f)
  PROVE  Through(<<r>> \o c, f, S \cup {r})
  <1> DEFINE n == Len(c)
             d == <<r>> \o c
  <1>1. /\ c \in Seq(Nat) /\ n \in Nat /\ n >= 1 /\ c[n] = Fin(f)
        /\ \A i, j \in 1 .. n : i < j => c[i] < c[j]
        /\ {c[i] : i \in 1 .. n - 1} = S
    BY DEF Through
  <1>2. /\ d \in Seq(Nat) /\ Len(d) = n + 1 /\ d[1] = r
        /\ \A i \in 2 .. n + 1 : d[i] = c[i - 1]
    BY <1>1
  <1>3. \A i \in 1 .. n : c[i] \in Nat /\ r < c[i]
    <2>1. SUFFICES ASSUME NEW i \in 1 .. n PROVE c[i] \in Nat /\ r < c[i]
      OBVIOUS
    <2>2. CASE i = n
      BY <1>1, <2>2
    <2>3. CASE i # n
      <3>1. i \in 1 .. n - 1
        BY <1>1, <2>3
      <3>2. c[i] \in S
        BY <1>1, <3>1
      <3>3. QED
        BY <3>2
    <2>4. QED
      BY <2>2, <2>3
  <1>4. d[n + 1] = Fin(f)
    BY <1>1, <1>2
  <1>5. \A i, j \in 1 .. n + 1 : i < j => d[i] < d[j]
    <2>1. SUFFICES ASSUME NEW i \in 1 .. n + 1, NEW j \in 1 .. n + 1, i < j
                   PROVE  d[i] < d[j]
      OBVIOUS
    <2>2. j \in 2 .. n + 1 /\ j - 1 \in 1 .. n
      BY <1>1, <2>1
    <2>3. CASE i = 1
      BY <1>2, <1>3, <2>2, <2>3
    <2>4. CASE i # 1
      <3>1. i \in 2 .. n + 1 /\ i - 1 \in 1 .. n /\ i - 1 < j - 1
        BY <1>1, <2>1, <2>4
      <3>2. QED
        BY <1>1, <1>2, <2>2, <3>1
    <2>5. QED
      BY <2>3, <2>4
  <1>6. {d[i] : i \in 1 .. n} = S \cup {r}
    <2>1. ASSUME NEW i \in 1 .. n PROVE d[i] \in S \cup {r}
      <3>1. CASE i = 1
        BY <1>2, <3>1
      <3>2. CASE i # 1
        <4>1. i \in 2 .. n + 1 /\ i - 1 \in 1 .. n - 1
          BY <1>1, <3>2
        <4>2. d[i] = c[i - 1]
          BY <1>2, <4>1
        <4>3. QED
          BY <1>1, <4>1, <4>2
      <3>3. QED
        BY <3>1, <3>2
    <2>2. ASSUME NEW q \in S PROVE q \in {d[i] : i \in 1 .. n}
      <3>1. PICK i \in 1 .. n - 1 : c[i] = q
        BY <1>1
      <3>2. i + 1 \in 1 .. n /\ i + 1 \in 2 .. n + 1 /\ (i + 1) - 1 = i
        BY <1>1
      <3>3. d[i + 1] = q
        BY <1>2, <3>1, <3>2
      <3>4. QED
        BY <3>2, <3>3
    <2>3. 1 \in 1 .. n /\ r \in {d[i] : i \in 1 .. n}
      BY <1>1, <1>2
    <2>4. QED
      <3> HIDE DEF d, n
      <3>1. QED
        BY <2>1, <2>2, <2>3
  <1>7. /\ d \in Seq(Nat) /\ Len(d) >= 1 /\ d[Len(d)] = Fin(f)
        /\ \A i, j \in 1 .. Len(d) : i < j => d[i] < d[j]
        /\ {d[i] : i \in 1 .. Len(d) - 1} = S \cup {r}
    <2>1. Len(d) = n + 1 /\ Len(d) >= 1 /\ Len(d) - 1 = n
      BY <1>1, <1>2
    <2> HIDE DEF d, n
    <2>2. QED
      BY <1>2, <1>4, <1>5, <1>6, <2>1
  <1>8. QED
    BY <1>7 DEF Through

LEMMA IntactChain ==
  ASSUME NEW f, NEW R, Intact(f, R)
  PROVE  Through(Chain(f), f, R)
  <1>1. PICK w : /\ Chain(f) = w[FirstRecord]
                 /\ \A loc \in Nat :
                      w[loc] = IF loc >= Fin(f) \/ IntAt(f, loc) = 0 THEN <<loc>>
                               ELSE <<loc>> \o w[loc + IntAt(f, loc)]
    BY ChainUnfolds DEF Intact
  <1> DEFINE From(loc) == {r \in R : r >= loc}
             A == {loc \in Nat : Through(w[loc], f, From(loc))}
  <1>2. Fin(f) \in A
    <2>1. /\ Fin(f) \in Nat /\ w[Fin(f)] = <<Fin(f)>> /\ From(Fin(f)) = {}
      <3>1. Fin(f) \in Nat /\ Fin(f) >= Fin(f) /\ \A r \in R : r \in Nat /\ ~(r >= Fin(f))
        BY RecordFacts
      <3>2. w[Fin(f)] = <<Fin(f)>>
        BY <1>1, <3>1
      <3>3. QED
        BY <3>1, <3>2
    <2>2. \A x \in Nat : /\ <<x>> \in Seq(Nat) /\ Len(<<x>>) = 1 /\ <<x>>[1] = x
                         /\ {<<x>>[i] : i \in 1 .. 1 - 1} = {}
      OBVIOUS
    <2>3. Through(<<Fin(f)>>, f, {})
      BY <2>1, <2>2 DEF Through
    <2>4. QED
      <3> HIDE DEF From
      <3>1. QED
        BY <2>1, <2>3
  <1>3. ASSUME NEW r \in R, After(f, r) \in A PROVE r \in A
    <2>1. /\ r \in Nat /\ ~(r >= Fin(f)) /\ IntAt(f, r) # 0 /\ r < Fin(f)
          /\ After(f, r) \in Nat /\ Fin(f) \in Nat /\ r < After(f, r)
      BY RecordFacts DEF IntSize, StrSize
    <2>2. w[r] = <<r>> \o w[After(f, r)]
      BY <1>1, <2>1 DEF After
    <2>3. From(r) = From(After(f, r)) \cup {r}
      <3>1. \A q \in R : q \in Nat /\ (q >= r <=> q = r \/ q >= After(f, r))
        BY <2>1, RecordFacts DEF Intact, Follows
      <3>2. QED
        BY <3>1
    <2>4. From(After(f, r)) \in SUBSET Nat /\ \A q \in From(After(f, r)) : r < q
      BY <2>1, RecordFacts
    <2>5. Through(w[After(f, r)], f, From(After(f, r)))
      BY <1>3
    <2>6. Through(<<r>> \o w[After(f, r)], f, From(After(f, r)) \cup {r})
      <3> HIDE DEF From, A
      <3>1. QED
        BY <2>1, <2>4, <2>5, ThroughMore
    <2>7. QED
      <3> HIDE DEF From
      <3>1. QED
        BY <2>1, <2>2, <2>3, <2>6
  <1>4. FirstRecord \in A
    <2>1. Positions(f, R) \subseteq A
      <3> HIDE DEF A
      <3>1. QED
        BY <1>2, <1>3, RecordInduction
    <2>2. QED
      BY <2>1 DEF Intact, Follows, Positions
  <1>5. From(FirstRecord) = R
    BY DEF Intact, Follows
  <1>6. QED
    <2> HIDE DEF From
    <2>1. QED
      BY <1>1, <1>4, <1>5

(***************************************************************************)
(* What is read after writing                                              *)
(***************************************************************************)

LEMMA PutReads ==
  ASSUME NEW f, NEW k
  PROVE  /\ \A n, p : IntAt(Put(f, k, IntCell(n)), p) = IF p = k THEN n ELSE IntAt(f, p)
         /\ \A n, p : p # k => TextAt(Put(f, k, IntCell(n)), p) = TextAt(f, p)
         /\ \A s, p : TextAt(Put(f, k, StrCell(s)), p) = IF p = k THEN s ELSE TextAt(f, p)
         /\ \A s, p : p # k => IntAt(Put(f, k, StrCell(s)), p) = IntAt(f, p)
         /\ \A s : IntAt(Put(f, k, StrCell(s)), k) \in {0, Garbage}
  <1>1. \A v, p : /\ p # k => /\ p \in DOMAIN Put(f, k, v) <=> p \in DOMAIN f
                              /\ p \in DOMAIN f => Put(f, k, v)[p] = f[p]
                  /\ k \in DOMAIN Put(f, k, v) /\ Put(f, k, v)[k] = v
    BY DEF Put
  <1>2. \A n : "int" \in DOMAIN IntCell(n) /\ IntCell(n).int = n
    BY DEF IntCell
  <1>3. \A s : /\ "str" \in DOMAIN StrCell(s) /\ "int" \notin DOMAIN StrCell(s)
               /\ StrCell(s).str = s
    BY DEF StrCell
  <1>4. \A v, p : p # k => /\ IntAt(Put(f, k, v), p) = IntAt(f, p)
                           /\ TextAt(Put(f, k, v), p) = TextAt(f, p)
    BY <1>1 DEF IntAt, TextAt
  <1>5. \A n : IntAt(Put(f, k, IntCell(n)), k) = n
    BY <1>1, <1>2 DEF IntAt
  <1>6. \A s : TextAt(Put(f, k, StrCell(s)), k) = s
    BY <1>1, <1>3 DEF TextAt
  <1>7. \A s : IntAt(Put(f, k, StrCell(s)), k) \in {0, Garbage}
    BY <1>1, <1>3 DEF IntAt
  <1>8. QED
    BY <1>4, <1>5, <1>6, <1>7

LEMMA PutIntReads ==
  ASSUME NEW f, NEW k, NEW n
  PROVE  /\ IntAt(Put(f, k, IntCell(n)), k) = n
         /\ \A p : p # k => /\ IntAt(Put(f, k, IntCell(n)), p) = IntAt(f, p)
                            /\ TextAt(Put(f, k, IntCell(n)), p) = TextAt(f, p)
  BY PutReads

LEMMA PutTextReads ==
  ASSUME NEW f, NEW k, NEW s
  PROVE  /\ TextAt(Put(f, k, StrCell(s)), k) = s
         /\ \A p : p # k => /\ IntAt(Put(f, k, StrCell(s)), p) = IntAt(f, p)
                            /\ TextAt(Put(f, k, StrCell(s)), p) = TextAt(f, p)
  BY PutReads

LEMMA OverReads ==
  ASSUME NEW f, NEW g, NEW p
  PROVE  /\ p \notin DOMAIN g => /\ IntAt(Over(g, f), p) = IntAt(f, p)
                                 /\ TextAt(Over(g, f), p) = TextAt(f, p)
         /\ p \in DOMAIN g => /\ IntAt(Over(g, f), p) = IntAt(g, p)
                              /\ TextAt(Over(g, f), p) = TextAt(g, p)
  BY DEF Over, IntAt, TextAt

LEMMA RestrictReads ==
  ASSUME NEW f, NEW S, NEW p
  PROVE  /\ p \in S \/ p \notin DOMAIN f =>
              /\ IntAt(Restrict(f, S \cap DOMAIN f), p) = IntAt(f, p)
              /\ TextAt(Restrict(f, S \cap DOMAIN f), p) = TextAt(f, p)
         /\ p \notin S =>
              /\ IntAt(Restrict(f, S \cap DOMAIN f), p) = 0
              /\ TextAt(Restrict(f, S \cap DOMAIN f), p) = NoText
  BY DEF Restrict, IntAt, TextAt

LEMMA NothingReads == \A p : IntAt(<< >>, p) = 0 /\ TextAt(<< >>, p) = NoText
  <1>1. DOMAIN << >> = {}
    OBVIOUS
  <1>2. QED
    BY <1>1 DEF IntAt, TextAt

(* Cells that hold texts: they read as naturals.                           *)
LEMMA TextsNatural ==
  ASSUME NEW g, \A p \in DOMAIN g : \E s : g[p] = StrCell(s)
  PROVE  \A p : IntAt(g, p) \in Nat
  <1>1. \A s : /\ "str" \in DOMAIN StrCell(s) /\ "int" \notin DOMAIN StrCell(s)
    BY DEF StrCell
  <1>2. QED
    BY <1>1, SizeAssumption DEF IntAt, Garbage

LEMMA NaturalFacts ==
  /\ Natural(<< >>)
  /\ \A f, k : \A n \in Nat : Natural(f) => Natural(Put(f, k, IntCell(n)))
  /\ \A f, k, s : Natural(f) => Natural(Put(f, k, StrCell(s)))
  /\ \A f, g : Natural(f) /\ Natural(g) => Natural(Over(g, f))
  /\ \A f, S : Natural(f) => Natural(Restrict(f, S \cap DOMAIN f))
  <1>1. Natural(<< >>)
    BY NothingReads DEF Natural
  <1>2. ASSUME NEW f, NEW k, NEW n \in Nat, Natural(f)
        PROVE  Natural(Put(f, k, IntCell(n)))
    BY <1>2, PutReads DEF Natural
  <1>3. ASSUME NEW f, NEW k, NEW s, Natural(f) PROVE Natural(Put(f, k, StrCell(s)))
    <2>1. 0 \in Nat /\ Garbage \in Nat
      BY SizeAssumption DEF Garbage
    <2>2. ASSUME NEW p PROVE IntAt(Put(f, k, StrCell(s)), p) \in Nat
      <3>1. CASE p = k
        <4>1. IntAt(Put(f, k, StrCell(s)), k) \in {0, Garbage}
          BY PutReads
        <4>2. QED
          BY <2>1, <3>1, <4>1
      <3>2. CASE p # k
        BY <1>3, <3>2, PutReads DEF Natural
      <3>3. QED
        BY <3>1, <3>2
    <2>3. QED
      BY <2>2 DEF Natural
  <1>4. ASSUME NEW f, NEW g, Natural(f), Natural(g) PROVE Natural(Over(g, f))
    BY <1>4, OverReads DEF Natural
  <1>5. ASSUME NEW f, NEW S, Natural(f) PROVE Natural(Restrict(f, S \cap DOMAIN f))
    <2>1. ASSUME NEW p PROVE IntAt(Restrict(f, S \cap DOMAIN f), p) \in Nat
      <3>1. CASE p \in S
        BY <1>5, <3>1, RestrictReads DEF Natural
      <3>2. CASE p \notin S
        BY <3>2, RestrictReads
      <3>3. QED
        BY <3>1, <3>2
    <2>2. QED
      BY <2>1 DEF Natural
  <1>6. QED
    BY <1>1, <1>2, <1>3, <1>4, <1>5

(* Where the type of the column i of the record at r stands.               *)
TypePlace(r, i) == r + IntSize + 2 * StrSize * i

(* The new record stands where `fin' was, and what lies before it is as it *)
(* was.                                                                    *)
LEMMA AddRecordReads ==
  ASSUME NEW f, NEW name, NEW types, Natural(f), Fin(f) >= FirstRecord,
         Len(types) \in Nat
  PROVE  LET g == AddRecord(f, name, types)
         IN  /\ Natural(g)
             /\ Fin(g) = Fin(f) + RecordSize(types)
             /\ IntAt(g, Fin(f)) = RecordSize(types)
             /\ TextAt(g, Fin(f) + IntSize) = Cstr[name]
             /\ \A i \in 1 .. Len(types) :
                  TextAt(g, TypePlace(Fin(f), i)) = Cstr[types[i]]
             /\ \A p \in Nat : 0 < p /\ p < Fin(f) =>
                  IntAt(g, p) = IntAt(f, p) /\ TextAt(g, p) = TextAt(f, p)
  <1> DEFINE x == Fin(f)
             D == {x + IntSize + StrSize * k : k \in 1 .. 2 * Len(types)}
             col(p) == (p - x - IntSize) \div StrSize
             cols == [p \in D |-> StrCell(IF col(p) % 2 = 1 THEN ColumnText
                                          ELSE Cstr[types[col(p) \div 2]])]
             laid == Over(cols, f)
             named == Put(laid, x + IntSize, StrCell(Cstr[name]))
             sized == Put(named, x, IntCell(RecordSize(types)))
             g == Put(sized, 0, IntCell(x + RecordSize(types)))
  <1>1. x \in Nat /\ x >= 4 /\ RecordSize(types) \in Nat /\ x + RecordSize(types) \in Nat
    BY DEF Natural, Fin, FirstRecord, RecordSize, IntSize, StrSize
  <1>2. g = AddRecord(f, name, types)
    BY DEF AddRecord
  <1>3. \A p \in D : p > x + 4
    BY <1>1 DEF IntSize, StrSize
  <1>4. Natural(laid)
    <2>1. \A p \in DOMAIN cols : \E s : cols[p] = StrCell(s)
      OBVIOUS
    <2>2. Natural(cols)
      <3> HIDE DEF cols
      <3>1. QED
        BY <2>1, TextsNatural DEF Natural
    <2> HIDE DEF cols
    <2>3. QED
      BY <2>2, NaturalFacts
  <1>5. \A p \in Nat : p <= x + 4 =>
               IntAt(laid, p) = IntAt(f, p) /\ TextAt(laid, p) = TextAt(f, p)
    <2>1. DOMAIN cols = D
      OBVIOUS
    <2> HIDE DEF cols, D
    <2>2. \A p \in Nat : p <= x + 4 => p \notin DOMAIN cols
      BY <1>1, <1>3, <2>1
    <2>3. QED
      BY <2>2, OverReads
  <1>5a. ASSUME NEW i \in 1 .. Len(types)
         PROVE  /\ TextAt(laid, TypePlace(x, i)) = Cstr[types[i]]
                /\ TypePlace(x, i) > x + 4 /\ TypePlace(x, i) \in Nat
    <2>1. /\ 2 * i \in 1 .. 2 * Len(types)
          /\ TypePlace(x, i) = x + IntSize + StrSize * (2 * i)
          /\ (TypePlace(x, i) - x - IntSize) \div StrSize = 2 * i
          /\ (2 * i) % 2 = 0 /\ (2 * i) \div 2 = i
      BY <1>1 DEF TypePlace, IntSize, StrSize
    <2>2. TypePlace(x, i) \in D /\ TypePlace(x, i) \in Nat
      BY <1>1, <2>1 DEF IntSize, StrSize
    <2>3. col(TypePlace(x, i)) = 2 * i
      BY <2>1
    <2>4. cols[TypePlace(x, i)] = StrCell(Cstr[types[i]])
      <3> HIDE DEF col, D, x
      <3>1. cols[TypePlace(x, i)] =
              StrCell(IF col(TypePlace(x, i)) % 2 = 1 THEN ColumnText
                      ELSE Cstr[types[col(TypePlace(x, i)) \div 2]])
        BY <2>2
      <3>2. col(TypePlace(x, i)) % 2 # 1 /\ col(TypePlace(x, i)) \div 2 = i
        BY <2>1, <2>3
      <3>3. QED
        BY <3>1, <3>2
    <2>5. TypePlace(x, i) \in DOMAIN cols
      BY <2>2
    <2>6. TextAt(cols, TypePlace(x, i)) = Cstr[types[i]]
      <3>1. \A s : "str" \in DOMAIN StrCell(s) /\ StrCell(s).str = s
        BY DEF StrCell
      <3> HIDE DEF cols, D, x
      <3>2. QED
        BY <2>4, <2>5, <3>1 DEF TextAt
    <2>7. TypePlace(x, i) > x + 4
      BY <1>3, <2>2
    <2> HIDE DEF cols, D, x
    <2>8. QED
      BY <2>2, <2>5, <2>6, <2>7, OverReads
  <1> HIDE DEF laid
  <1>6. Natural(g)
    <2>1. Natural(named)
      BY <1>4, NaturalFacts
    <2> HIDE DEF named
    <2>2. Natural(sized)
      BY <1>1, <2>1, NaturalFacts
    <2> HIDE DEF sized, x
    <2>3. QED
      BY <1>1, <2>2, NaturalFacts
  <1>7. /\ \A p : p # x + IntSize => /\ IntAt(named, p) = IntAt(laid, p)
                                     /\ TextAt(named, p) = TextAt(laid, p)
        /\ TextAt(named, x + IntSize) = Cstr[name]
    <2> HIDE DEF x
    <2>1. QED
      BY ONLY PutTextReads
  <1>8. /\ \A p : p # x => /\ IntAt(sized, p) = IntAt(named, p)
                           /\ TextAt(sized, p) = TextAt(named, p)
        /\ IntAt(sized, x) = RecordSize(types)
    <2> HIDE DEF x, named
    <2>1. QED
      BY ONLY PutIntReads
  <1>9. /\ \A p : p # 0 => /\ IntAt(g, p) = IntAt(sized, p)
                           /\ TextAt(g, p) = TextAt(sized, p)
        /\ IntAt(g, 0) = x + RecordSize(types)
    <2> HIDE DEF x, sized
    <2>1. QED
      BY ONLY PutIntReads
  <1> HIDE DEF g, sized, named, D, cols, col
  <1>10. Fin(g) = x + RecordSize(types)
    BY <1>9 DEF Fin
  <1>11. IntAt(g, x) = RecordSize(types) /\ TextAt(g, x + IntSize) = Cstr[name]
    <2>1. x # 0 /\ x + IntSize # 0 /\ x + IntSize # x
      BY <1>1 DEF IntSize
    <2> HIDE DEF x
    <2>2. QED
      BY <1>7, <1>8, <1>9, <2>1
  <1>12. ASSUME NEW p \in Nat, 0 < p, p < x
         PROVE  IntAt(g, p) = IntAt(f, p) /\ TextAt(g, p) = TextAt(f, p)
    <2>1. p # 0 /\ p # x /\ p # x + IntSize /\ p <= x + 4
      BY <1>1, <1>12 DEF IntSize
    <2> HIDE DEF x
    <2>2. QED
      BY <1>5, <1>7, <1>8, <1>9, <2>1
  <1>12a. ASSUME NEW i \in 1 .. Len(types)
         PROVE  TextAt(g, TypePlace(x, i)) = Cstr[types[i]]
    <2>1. PICK p : p = TypePlace(x, i)
      OBVIOUS
    <2>2. TextAt(laid, p) = Cstr[types[i]] /\ p # x + IntSize /\ p # x /\ p # 0
      BY <1>1, <1>5a, <2>1 DEF IntSize
    <2> HIDE DEF x
    <2>3. QED
      BY <1>7, <1>8, <1>9, <2>1, <2>2
  <1>13. QED
    BY <1>2, <1>6, <1>10, <1>11, <1>12, <1>12a

(* The next record, if it is one, stands where the dropped one was; what   *)
(* lies before it is as it was.                                            *)
LEMMA DropRecordReads ==
  ASSUME NEW f, NEW loc \in Nat, Natural(f), loc >= FirstRecord,
         Fin(f) >= IntAt(f, loc)
  PROVE  LET g == DropRecord(f, loc)
             p == NextSize(f, loc)
         IN  /\ Natural(g)
             /\ Fin(g) = Fin(f) - IntAt(f, loc)
             /\ IntAt(g, loc) = p
             /\ IsSize(p) => NameAt(g, loc) = Cstr[NameAt(f, After(f, loc))]
             /\ \A n \in Nat : p = 2 * StrSize * n + IntSize + StrSize =>
                  \A i \in 1 .. n : TextAt(g, TypePlace(loc, i)) =
                                      Cstr[TextAt(f, TypePlace(After(f, loc), i))]
             /\ \A q \in Nat : 0 < q /\ q < loc =>
                  IntAt(g, q) = IntAt(f, q) /\ TextAt(g, q) = TextAt(f, q)
  <1> DEFINE l == IntAt(f, loc)
             p == NextSize(f, loc)
             D == {loc + IntSize + StrSize * i : i \in 0 .. (p \div StrSize) - 1}
             moved == [q \in D |-> StrCell(Cstr[TextAt(f, q + l)])]
             laid == Over(moved, f)
             sized == Put(laid, loc, IntCell(p))
             g == Put(sized, 0, IntCell(Fin(f) - l))
  <1>1. loc >= 4 /\ l \in Nat /\ p \in Nat /\ Fin(f) - l \in Nat
    BY DEF Natural, NextSize, Fin, FirstRecord
  <1>2. g = DropRecord(f, loc)
    BY DEF DropRecord
  <1>3. \A q \in D : q >= loc + IntSize /\ q # loc /\ q # 0
    BY <1>1 DEF IntSize, StrSize
  <1>4. Natural(laid)
    <2>1. \A q \in DOMAIN moved : \E s : moved[q] = StrCell(s)
      OBVIOUS
    <2>2. Natural(moved)
      <3> HIDE DEF moved
      <3>1. QED
        BY <2>1, TextsNatural DEF Natural
    <2> HIDE DEF moved
    <2>3. QED
      BY <2>2, NaturalFacts
  <1>5. \A q \in Nat : q < loc + IntSize =>
               IntAt(laid, q) = IntAt(f, q) /\ TextAt(laid, q) = TextAt(f, q)
    <2>1. DOMAIN moved = D
      OBVIOUS
    <2> HIDE DEF moved, D
    <2>2. \A q \in Nat : q < loc + IntSize => q \notin DOMAIN moved
      BY <1>1, <1>3, <2>1 DEF IntSize
    <2>3. QED
      BY <2>2, OverReads
  <1>6. IsSize(p) => TextAt(laid, loc + IntSize) = Cstr[TextAt(f, loc + IntSize + l)]
    <2>1. SUFFICES ASSUME IsSize(p)
                   PROVE  TextAt(laid, loc + IntSize) = Cstr[TextAt(f, loc + IntSize + l)]
      OBVIOUS
    <2>2. 0 \in 0 .. (p \div StrSize) - 1 /\ loc + IntSize + StrSize * 0 = loc + IntSize
      BY <1>1, <2>1, SizeFacts DEF IntSize, StrSize
    <2>3. loc + IntSize \in D
      BY <2>2
    <2>4. moved[loc + IntSize] = StrCell(Cstr[TextAt(f, loc + IntSize + l)])
      BY <2>3
    <2>5. /\ loc + IntSize \in DOMAIN moved
          /\ TextAt(moved, loc + IntSize) = Cstr[TextAt(f, loc + IntSize + l)]
      <3>1. \A s : "str" \in DOMAIN StrCell(s) /\ StrCell(s).str = s
        BY DEF StrCell
      <3>2. loc + IntSize \in DOMAIN moved
        BY <2>3
      <3> HIDE DEF moved, D
      <3>3. QED
        BY <2>4, <3>1, <3>2 DEF TextAt
    <2> HIDE DEF moved
    <2>6. QED
      BY <2>5, OverReads
  <1>6a. ASSUME NEW n \in Nat, p = 2 * StrSize * n + IntSize + StrSize, NEW i \in 1 .. n
         PROVE  TextAt(laid, TypePlace(loc, i)) = Cstr[TextAt(f, TypePlace(loc, i) + l)]
    <2>1. PICK q : q = TypePlace(loc, i)
      OBVIOUS
    <2>2. p \div StrSize = 2 * n + 1
      BY <1>6a DEF IntSize, StrSize
    <2>3. q \in D
      <3>1. 2 * i \in 0 .. (p \div StrSize) - 1 /\ q = loc + IntSize + StrSize * (2 * i)
        BY <2>1, <2>2 DEF TypePlace, IntSize, StrSize
      <3> HIDE DEF p
      <3>2. QED
        BY <3>1
    <2>4. q \in DOMAIN moved /\ moved[q] = StrCell(Cstr[TextAt(f, q + l)])
      BY <2>3
    <2>5. \A s : "str" \in DOMAIN StrCell(s) /\ StrCell(s).str = s
      BY DEF StrCell
    <2> HIDE DEF moved, l
    <2>6. TextAt(moved, q) = Cstr[TextAt(f, q + l)]
      BY <2>4, <2>5 DEF TextAt
    <2>7. QED
      BY <2>1, <2>4, <2>6, OverReads
  <1> HIDE DEF laid
  <1>7. Natural(g)
    <2>1. Natural(sized)
      BY <1>1, <1>4, NaturalFacts
    <2> HIDE DEF sized
    <2>2. QED
      BY <1>1, <2>1, NaturalFacts
  <1>8. /\ \A q : q # loc => /\ IntAt(sized, q) = IntAt(laid, q)
                             /\ TextAt(sized, q) = TextAt(laid, q)
        /\ IntAt(sized, loc) = p
    <2> HIDE DEF p
    <2>1. QED
      BY ONLY PutIntReads
  <1>9. /\ \A q : q # 0 => /\ IntAt(g, q) = IntAt(sized, q)
                           /\ TextAt(g, q) = TextAt(sized, q)
        /\ IntAt(g, 0) = Fin(f) - l
    <2> HIDE DEF sized, l
    <2>1. QED
      BY ONLY PutIntReads
  <1> HIDE DEF g, sized, D, moved
  <1>10. Fin(g) = Fin(f) - l
    BY <1>9 DEF Fin
  <1>11. IntAt(g, loc) = p
    BY <1>1, <1>8, <1>9
  <1>12. IsSize(p) => NameAt(g, loc) = Cstr[NameAt(f, After(f, loc))]
    <2>1. loc + IntSize # 0 /\ loc + IntSize # loc /\ loc + IntSize + l = loc + l + IntSize
      BY <1>1 DEF IntSize
    <2>2. QED
      BY <1>6, <1>8, <1>9, <2>1 DEF NameAt, After
  <1>13. ASSUME NEW q \in Nat, 0 < q, q < loc
         PROVE  IntAt(g, q) = IntAt(f, q) /\ TextAt(g, q) = TextAt(f, q)
    <2>1. q # 0 /\ q # loc /\ q < loc + IntSize
      BY <1>1, <1>13 DEF IntSize
    <2>2. QED
      BY <1>5, <1>8, <1>9, <2>1
  <1>13a. ASSUME NEW n \in Nat, p = 2 * StrSize * n + IntSize + StrSize, NEW i \in 1 .. n
         PROVE  TextAt(g, TypePlace(loc, i)) = Cstr[TextAt(f, TypePlace(After(f, loc), i))]
    <2>1. /\ TypePlace(loc, i) # 0 /\ TypePlace(loc, i) # loc
          /\ TypePlace(After(f, loc), i) = TypePlace(loc, i) + l
      BY <1>1 DEF TypePlace, After, IntSize, StrSize
    <2>2. TextAt(laid, TypePlace(loc, i)) = Cstr[TextAt(f, TypePlace(loc, i) + l)]
      BY <1>6a, <1>13a
    <2> HIDE DEF p, l
    <2>3. QED
      BY <1>8, <1>9, <2>1, <2>2
  <1>14. QED
    BY <1>2, <1>7, <1>10, <1>11, <1>12, <1>13, <1>13a

(***************************************************************************)
(* What keeps a catalogue whole                                            *)
(***************************************************************************)

LEMMA IntactSame ==
  ASSUME NEW f, NEW g, NEW R, Intact(f, R), Natural(g), Fin(g) = Fin(f),
         \A r \in R : IntAt(g, r) = IntAt(f, r) /\ NameAt(g, r) = NameAt(f, r)
  PROVE  Intact(g, R) /\ NamesOf(g, R) = NamesOf(f, R)
  <1>1. \A r \in R : After(g, r) = After(f, r)
    BY DEF After
  <1>2. Follows(g, R)
    BY <1>1 DEF Intact, Follows
  <1>3. Named(g, R)
    BY DEF Intact, Named
  <1>4. NamesOf(g, R) = NamesOf(f, R)
    BY DEF NamesOf
  <1>5. QED
    BY <1>2, <1>3, <1>4 DEF Intact

LEMMA IntactEmpty ==
  ASSUME NEW f, Natural(f), Fin(f) = FirstRecord
  PROVE  Intact(f, {}) /\ NamesOf(f, {}) = {}
  BY DEF Intact, Follows, Named, NamesOf, FirstRecord

(* A name that no record has and that is stored whole.                     *)
Fresh(f, R, name) == name \notin NamesOf(f, R) /\ Cstr[name] = name

(* Records added under a new name follow the ones before.                  *)
Longer(f, R) == R \cup {Fin(f)}

LEMMA IntactAdd ==
  ASSUME NEW f, NEW R, NEW name, NEW types, Intact(f, R), Fresh(f, R, name),
         Len(types) \in Nat
  PROVE  /\ Intact(AddRecord(f, name, types), Longer(f, R))
         /\ NamesOf(AddRecord(f, name, types), Longer(f, R)) = NamesOf(f, R) \cup {name}
         /\ Fin(AddRecord(f, name, types)) = Fin(f) + RecordSize(types)
  <1> USE DEF Fresh, Longer
  <1> DEFINE x == Fin(f)
             k == RecordSize(types)
  <1>1. x \in Nat /\ x >= FirstRecord /\ x > 0
    <2>1. x \in Nat
      BY RecordFacts
    <2>2. x >= FirstRecord
      BY <2>1 DEF Intact, Follows, FirstRecord
    <2>3. QED
      BY <2>1, <2>2 DEF FirstRecord
  <1>2. IsSize(k) /\ k \in Nat /\ k > 0
    BY SizeFacts DEF IntSize, StrSize
  <1>3. PICK g : g = AddRecord(f, name, types)
    OBVIOUS
  <1>4. /\ Natural(g) /\ Fin(g) = x + k /\ IntAt(g, x) = k /\ NameAt(g, x) = name
        /\ \A p \in Nat : 0 < p /\ p < x =>
             IntAt(g, p) = IntAt(f, p) /\ TextAt(g, p) = TextAt(f, p)
    BY <1>1, <1>3, AddRecordReads DEF Intact, NameAt
  <1>5. ASSUME NEW r \in R
        PROVE  /\ r \in Nat /\ r < x /\ IntAt(g, r) = IntAt(f, r)
               /\ NameAt(g, r) = NameAt(f, r) /\ After(g, r) = After(f, r)
    <2>1. /\ r \in Nat /\ r >= 4 /\ After(f, r) <= x /\ After(f, r) \in Nat
          /\ r + IntSize < After(f, r)
      <3>1. r \in Nat /\ After(f, r) \in Nat /\ r + IntSize < After(f, r)
        BY RecordFacts
      <3>2. FirstRecord <= r /\ After(f, r) <= x
        BY DEF Intact, Follows
      <3>3. QED
        BY <3>1, <3>2 DEF FirstRecord
    <2>2. r + IntSize \in Nat /\ 0 < r + IntSize /\ r + IntSize < x /\ r < x
      BY <1>1, <2>1 DEF IntSize
    <2>3. QED
      BY <1>4, <2>1, <2>2 DEF NameAt, After
  <1> HIDE DEF x, k
  <1>6. After(g, x) = Fin(g)
    BY <1>4 DEF After
  <1>7. Follows(g, R \cup {x})
    <2>1. FirstRecord \in R \cup {x} /\ FirstRecord <= Fin(g)
      BY <1>1, <1>2, <1>4 DEF Intact, Follows, x, FirstRecord
    <2>2. ASSUME NEW r \in R
          PROVE  /\ FirstRecord <= r /\ IsSize(IntAt(g, r))
                 /\ After(g, r) \in R \cup {x} /\ After(g, r) <= Fin(g)
      <3>1. /\ FirstRecord <= r /\ IsSize(IntAt(f, r))
            /\ After(f, r) \in R \cup {x} /\ After(f, r) <= x /\ After(f, r) \in Nat
        BY RecordFacts DEF Intact, Follows, x
      <3>2. QED
        BY <1>1, <1>2, <1>4, <1>5, <3>1
    <2>3. \A q, r \in R \cup {x} : q < r => After(g, q) <= r
      <3>1. SUFFICES ASSUME NEW q \in R \cup {x}, NEW r \in R \cup {x}, q < r
                     PROVE  After(g, q) <= r
        OBVIOUS
      <3>2. q \in R
        BY <1>1, <1>5, <3>1
      <3>3. After(g, q) = After(f, q) /\ After(f, q) <= x
        BY <1>5, <3>2 DEF Intact, Follows, x
      <3>4. r \in R => After(f, q) <= r
        BY <3>1, <3>2 DEF Intact, Follows
      <3>5. QED
        BY <3>3, <3>4
    <2>4. R \cup {x} \subseteq Nat
      BY <1>1, <1>5
    <2>5. After(g, x) <= Fin(g) /\ Fin(g) \in Nat
      BY <1>1, <1>2, <1>4, <1>6
    <2>6. QED
      BY <1>1, <1>2, <1>4, <1>6, <2>1, <2>2, <2>3, <2>4, <2>5 DEF Follows
  <1>8. Named(g, R \cup {x})
    <2>1. \A r \in R : NameAt(f, r) # name /\ NameAt(g, r) = NameAt(f, r)
      BY <1>5 DEF NamesOf
    <2>2. QED
      BY <1>4, <2>1 DEF Intact, Named
  <1>9. NamesOf(g, R \cup {x}) = NamesOf(f, R) \cup {name}
    BY <1>4, <1>5 DEF NamesOf
  <1>10. QED
    BY <1>3, <1>4, <1>7, <1>8, <1>9 DEF Intact, x, k

(* The records that are left when the one at `loc' is dropped.             *)
Left(f, R, loc) ==
  {r \in R : r < loc} \cup (IF After(f, loc) < Fin(f) THEN {loc} ELSE {})

LEMMA IntactDrop ==
  ASSUME NEW f, NEW R, NEW loc \in R, Intact(f, R),
         After(f, loc) < Fin(f) => After(f, After(f, loc)) >= Fin(f)
  PROVE  /\ Intact(DropRecord(f, loc), Left(f, R, loc))
         /\ NamesOf(DropRecord(f, loc), Left(f, R, loc))
              = NamesOf(f, R) \ {NameAt(f, loc)}
         /\ Fin(DropRecord(f, loc)) <= Fin(f)
  <1> DEFINE l == IntAt(f, loc)
             next == After(f, loc)
             p == NextSize(f, loc)
             L == Left(f, R, loc)
             before == {r \in R : r < loc}
  <1>1. /\ loc \in Nat /\ loc >= FirstRecord /\ l \in Nat /\ l > 0
        /\ next \in Nat /\ next = loc + l /\ next <= Fin(f) /\ Fin(f) \in Nat
        /\ next \in R \cup {Fin(f)} /\ p = IntAt(f, next)
    <2>1. /\ loc \in Nat /\ l \in Nat /\ l >= IntSize + StrSize
          /\ next \in Nat /\ Fin(f) \in Nat
      BY RecordFacts
    <2>2. FirstRecord <= loc /\ next \in R \cup {Fin(f)} /\ next <= Fin(f)
      BY DEF Intact, Follows
    <2>3. next = loc + l /\ p = IntAt(f, next)
      BY DEF After, NextSize
    <2> HIDE DEF l, next, p
    <2>4. QED
      BY <2>1, <2>2, <2>3 DEF FirstRecord, IntSize, StrSize
  <1>2. PICK g : g = DropRecord(f, loc)
    OBVIOUS
  <1>3. /\ Natural(g) /\ Fin(g) = Fin(f) - l /\ IntAt(g, loc) = p
        /\ IsSize(p) => NameAt(g, loc) = Cstr[NameAt(f, next)]
        /\ \A q \in Nat : 0 < q /\ q < loc =>
             IntAt(g, q) = IntAt(f, q) /\ TextAt(g, q) = TextAt(f, q)
    <2>1. Fin(f) >= l
      BY <1>1
    <2>2. QED
      BY <1>1, <1>2, <2>1, DropRecordReads DEF Intact
  <1>4. ASSUME NEW r \in before
        PROVE  /\ r \in R /\ r \in Nat /\ After(f, r) <= loc /\ After(f, r) \in before \cup {loc}
               /\ IntAt(g, r) = IntAt(f, r) /\ NameAt(g, r) = NameAt(f, r)
               /\ After(g, r) = After(f, r) /\ r >= FirstRecord /\ IsSize(IntAt(f, r))
               /\ After(f, r) \in Nat
    <2>1. /\ r \in R /\ r \in Nat /\ r >= 4 /\ After(f, r) <= loc /\ After(f, r) \in Nat
          /\ r + IntSize < After(f, r) /\ After(f, r) \in R \cup {Fin(f)}
          /\ IsSize(IntAt(f, r))
      BY RecordFacts DEF Intact, Follows, FirstRecord
    <2>2. r + IntSize \in Nat /\ 0 < r + IntSize /\ r + IntSize < loc /\ 0 < r /\ r < loc
      BY <1>1, <2>1 DEF IntSize
    <2>3. After(f, r) \in before \cup {loc}
      BY <1>1, <2>1
    <2>4. IntAt(g, r) = IntAt(f, r) /\ NameAt(g, r) = NameAt(f, r)
      BY <1>3, <2>1, <2>2 DEF NameAt
    <2>5. After(g, r) = After(f, r)
      BY <2>4 DEF After
    <2>6. QED
      BY <2>1, <2>3, <2>4, <2>5 DEF FirstRecord
  <1>5. FirstRecord \in before \cup {loc}
    <2>1. FirstRecord \in R
      BY <1>1 DEF Intact, Follows
    <2>2. QED
      BY <1>1, <2>1 DEF FirstRecord
  <1>6. \A r \in R : r \in before \/ r = loc \/ r >= next
    BY <1>1, RecordFacts DEF Intact, Follows
  <1>7. CASE next < Fin(f)
    <2>1. next \in R /\ After(f, next) = Fin(f) /\ IsSize(p) /\ p > 0 /\ p \in Nat
      <3>1. next \in R
        BY <1>1, <1>7
      <3>2. After(f, next) <= Fin(f) /\ After(f, next) \in Nat /\ IsSize(IntAt(f, next))
        BY <3>1, RecordFacts DEF Intact, Follows
      <3>3. QED
        BY <1>1, <1>7, <3>1, <3>2, SizeFacts DEF IntSize, StrSize
    <2>2. /\ NameAt(g, loc) = NameAt(f, next) /\ After(g, loc) = Fin(g)
          /\ Fin(g) = loc + p
      <3>1. NameAt(g, loc) = NameAt(f, next)
        BY <1>3, <2>1 DEF Intact, Named
      <3>2. Fin(f) = next + p
        BY <1>1, <2>1 DEF After
      <3>3. QED
        BY <1>1, <1>3, <2>1, <3>1, <3>2 DEF After
    <2>3. \A r \in R : r \in before \/ r = loc \/ r = next
      <3>1. ASSUME NEW r \in R, r > next PROVE FALSE
        <4>1. After(f, next) <= r /\ r < Fin(f) /\ r \in Nat
          BY <2>1, <3>1, RecordFacts DEF Intact, Follows
        <4>2. QED
          BY <1>1, <2>1, <4>1
      <3>2. \A r \in R : r \in Nat
        BY DEF Intact, Follows
      <3>3. QED
        BY <1>1, <1>6, <3>1, <3>2
    <2>4. L = before \cup {loc}
      BY <1>7 DEF Left
    <2> HIDE DEF L, next, p, l, before
    <2>5. Follows(g, before \cup {loc})
      <3>1. before \cup {loc} \subseteq Nat
        BY <1>1, <1>4
      <3>2. FirstRecord <= Fin(g) /\ Fin(g) \in Nat /\ loc <= Fin(g)
        BY <1>1, <2>1, <2>2 DEF FirstRecord
      <3>3. ASSUME NEW r \in before \cup {loc}
            PROVE  /\ FirstRecord <= r /\ IsSize(IntAt(g, r))
                   /\ After(g, r) \in before \cup {loc} \cup {Fin(g)} /\ After(g, r) <= Fin(g)
        <4>1. CASE r \in before
          BY <1>1, <1>4, <3>2, <4>1 DEF FirstRecord
        <4>2. CASE r = loc
          BY <1>1, <1>3, <2>1, <2>2, <3>2, <4>2 DEF FirstRecord
        <4>3. QED
          BY <4>1, <4>2
      <3>4. ASSUME NEW q \in before \cup {loc}, NEW r \in before \cup {loc}, q < r
            PROVE  After(g, q) <= r
        <4>1. q \in before
          BY <1>1, <1>4, <3>4 DEF before
        <4>2. CASE r = loc
          BY <1>4, <4>1, <4>2
        <4>3. CASE r \in before
          <5>1. r \in R /\ q \in R /\ After(g, q) = After(f, q)
            BY <1>4, <4>1, <4>3
          <5>2. QED
            BY <3>4, <5>1 DEF Intact, Follows
        <4>4. QED
          BY <4>2, <4>3
      <3>5. QED
        BY <1>5, <3>1, <3>2, <3>3, <3>4 DEF Follows
    <2>6. \A r \in before : NameAt(g, r) = NameAt(f, r) /\ r \in R /\ r # next /\ r # loc
      BY <1>1, <1>4 DEF before
    <2>7. \A q, r \in R : NameAt(f, q) = NameAt(f, r) => q = r
      BY DEF Intact, Named
    <2>8. \A r \in R : Cstr[NameAt(f, r)] = NameAt(f, r)
      BY DEF Intact, Named
    <2>9. Named(g, before \cup {loc})
      BY <2>1, <2>2, <2>6, <2>7, <2>8 DEF Named
    <2>10. next # loc
      BY <1>1
    <2>11. NamesOf(g, before \cup {loc}) = NamesOf(f, R) \ {NameAt(f, loc)}
      BY <2>1, <2>2, <2>3, <2>6, <2>7, <2>10 DEF NamesOf
    <2>12. Fin(g) <= Fin(f)
      BY <1>1, <1>3
    <2>13. QED
      BY <1>2, <1>3, <2>4, <2>5, <2>9, <2>11, <2>12 DEF Intact, L
  <1>8. CASE ~(next < Fin(f))
    <2>1. next = Fin(f) /\ Fin(g) = loc
      BY <1>1, <1>3, <1>8
    <2>2. L = before
      BY <1>8 DEF Left
    <2>3. \A r \in R : r \in before \/ r = loc
      <3>1. \A r \in R : r \in Nat /\ r < Fin(f)
        BY RecordFacts
      <3>2. QED
        BY <1>1, <1>6, <2>1, <3>1
    <2> HIDE DEF L, next, p, l, before
    <2>4. Follows(g, before)
      <3>1. before \subseteq Nat
        BY <1>4
      <3>2. \A q, r \in before : q < r => After(g, q) <= r
        BY <1>4 DEF Intact, Follows
      <3>3. \A r \in before : /\ FirstRecord <= r /\ IsSize(IntAt(g, r))
                              /\ After(g, r) \in before \cup {Fin(g)}
                              /\ After(g, r) <= Fin(g)
        BY <1>1, <1>4, <2>1 DEF FirstRecord
      <3>4. FirstRecord \in before \cup {Fin(g)} /\ FirstRecord <= Fin(g)
        BY <1>1, <1>5, <2>1 DEF FirstRecord
      <3>5. QED
        BY <3>1, <3>2, <3>3, <3>4 DEF Follows
    <2>5. \A r \in before : NameAt(g, r) = NameAt(f, r) /\ r \in R /\ r # loc
      BY <1>1, <1>4 DEF before
    <2>6. \A q, r \in R : NameAt(f, q) = NameAt(f, r) => q = r
      BY DEF Intact, Named
    <2>7. Named(g, before)
      BY <2>5, <2>6 DEF Intact, Named
    <2>8. NamesOf(g, before) = NamesOf(f, R) \ {NameAt(f, loc)}
      BY <2>3, <2>5, <2>6 DEF NamesOf
    <2>9. Fin(g) <= Fin(f)
      BY <1>1, <1>3
    <2>10. QED
      BY <1>2, <1>3, <2>2, <2>4, <2>7, <2>8, <2>9 DEF Intact, L
  <1>9. QED
    BY <1>7, <1>8

(***************************************************************************)
(* The file: a whole catalogue that ends within the words that are written *)
(* is whole in its file, and whole again over whatever memory held.        *)
(***************************************************************************)

Fits(f, R) == R = {} \/ Fin(f) <= PageWords

(* Of what is in its reach the file holds everything.                      *)
LEMMA PersistedReads ==
  ASSUME NEW f, NEW p, p < PageWords
  PROVE  IntAt(Persisted(f), p) = IntAt(f, p) /\ TextAt(Persisted(f), p) = TextAt(f, p)
  <1> DEFINE S == {q \in DOMAIN f : q < PageWords}
  <1>1. S = S \cap DOMAIN f
    OBVIOUS
  <1>2. Persisted(f) = Restrict(f, S \cap DOMAIN f)
    BY <1>1 DEF Persisted
  <1>3. p \in S \/ p \notin DOMAIN f
    OBVIOUS
  <1> HIDE DEF S
  <1>4. QED
    BY <1>2, <1>3, RestrictReads

LEMMA IntactPersisted ==
  ASSUME NEW f, NEW R, Intact(f, R), Fits(f, R)
  PROVE  /\ Intact(Persisted(f), R) /\ Fits(Persisted(f), R)
         /\ NamesOf(Persisted(f), R) = NamesOf(f, R)
  <1> DEFINE S == {p \in DOMAIN f : p < PageWords}
  <1>1. S = S \cap DOMAIN f
    OBVIOUS
  <1>2. Persisted(f) = Restrict(f, S \cap DOMAIN f)
    BY <1>1 DEF Persisted
  <1>3. Natural(Persisted(f))
    BY <1>2, NaturalFacts DEF Intact
  <1>4. \A p : p < PageWords => /\ IntAt(Persisted(f), p) = IntAt(f, p)
                               /\ TextAt(Persisted(f), p) = TextAt(f, p)
    BY PersistedReads
  <1>5. Fin(Persisted(f)) = Fin(f)
    BY <1>4, SizeAssumption DEF Fin
  <1>6. ASSUME NEW r \in R PROVE r < PageWords /\ r + IntSize < PageWords
    <2>1. /\ r \in Nat /\ After(f, r) \in Nat /\ r + IntSize < After(f, r)
          /\ Fin(f) \in Nat
      BY RecordFacts
    <2>2. After(f, r) <= Fin(f) /\ Fin(f) <= PageWords
      BY DEF Intact, Follows, Fits
    <2>3. QED
      BY <2>1, <2>2, SizeAssumption DEF IntSize
  <1>7. \A r \in R : /\ IntAt(Persisted(f), r) = IntAt(f, r)
                     /\ NameAt(Persisted(f), r) = NameAt(f, r)
    BY <1>4, <1>6 DEF NameAt
  <1>8. Fits(Persisted(f), R)
    BY <1>5 DEF Fits
  <1>9. QED
    BY <1>3, <1>5, <1>7, <1>8, IntactSame

(* What load has read is what the file holds.                              *)
LEMMA ReadOverReads ==
  ASSUME NEW file, NEW f, NEW p \in Nat, p < PageWords
  PROVE  /\ IntAt(ReadOver(file, f), p) = IntAt(file, p)
         /\ TextAt(ReadOver(file, f), p) = TextAt(file, p)
  <1> DEFINE S == {q \in DOMAIN f : q >= PageWords}
             rest == Restrict(f, S \cap DOMAIN f)
  <1>1. S = S \cap DOMAIN f
    OBVIOUS
  <1>2. ReadOver(file, f) = Over(file, rest)
    BY <1>1 DEF ReadOver
  <1>3. p \notin S
    BY SizeAssumption
  <1> HIDE DEF S
  <1>4. IntAt(rest, p) = 0 /\ TextAt(rest, p) = NoText
    BY <1>3, RestrictReads
  <1> HIDE DEF rest
  <1>5. CASE p \in DOMAIN file
    BY <1>2, <1>5, OverReads
  <1>6. CASE p \notin DOMAIN file
    <2>1. IntAt(file, p) = 0 /\ TextAt(file, p) = NoText
      BY <1>6 DEF IntAt, TextAt
    <2>2. QED
      BY <1>2, <1>4, <1>6, <2>1, OverReads
  <1>7. QED
    BY <1>5, <1>6

LEMMA IntactReadOver ==
  ASSUME NEW file, NEW f, NEW R, Intact(file, R), Fits(file, R), Natural(f)
  PROVE  /\ Intact(ReadOver(file, f), R) /\ Fits(ReadOver(file, f), R)
         /\ NamesOf(ReadOver(file, f), R) = NamesOf(file, R)
  <1> DEFINE S == {p \in DOMAIN f : p >= PageWords}
             rest == Restrict(f, S \cap DOMAIN f)
  <1>1. S = S \cap DOMAIN f
    OBVIOUS
  <1>2. ReadOver(file, f) = Over(file, rest)
    BY <1>1 DEF ReadOver
  <1>3. Natural(ReadOver(file, f))
    <2>1. Natural(rest)
      BY NaturalFacts
    <2> HIDE DEF rest
    <2>2. QED
      BY <1>2, <2>1, NaturalFacts DEF Intact
  <1>4. \A p \in Nat : p < PageWords =>
          /\ IntAt(ReadOver(file, f), p) = IntAt(file, p)
          /\ TextAt(ReadOver(file, f), p) = TextAt(file, p)
    BY ReadOverReads
  <1>5. Fin(ReadOver(file, f)) = Fin(file)
    BY <1>4, SizeAssumption DEF Fin
  <1>6. ASSUME NEW r \in R
        PROVE  r \in Nat /\ r < PageWords /\ r + IntSize \in Nat /\ r + IntSize < PageWords
    <2>1. /\ r \in Nat /\ After(file, r) \in Nat /\ r + IntSize < After(file, r)
          /\ Fin(file) \in Nat
      BY RecordFacts
    <2>2. After(file, r) <= Fin(file) /\ Fin(file) <= PageWords
      BY DEF Intact, Follows, Fits
    <2>3. QED
      BY <2>1, <2>2, SizeAssumption DEF IntSize
  <1>7. \A r \in R : /\ IntAt(ReadOver(file, f), r) = IntAt(file, r)
                     /\ NameAt(ReadOver(file, f), r) = NameAt(file, r)
    BY <1>4, <1>6 DEF NameAt
  <1>8. Fits(ReadOver(file, f), R)
    BY <1>5 DEF Fits
  <1>9. QED
    BY <1>3, <1>5, <1>7, <1>8, IntactSame

(***************************************************************************)
(* What a catalogue says of the tables that queries can name: under which  *)
(* name which column types are found.                                      *)
(***************************************************************************)

Listed(f) ==
  [n \in {m \in Names : FirstMatch(f, m) # NotFound} |->
     ColumnTypes(f, FirstMatch(f, n))]

LEMMA ListedFacts ==
  ASSUME NEW f, NEW R, Intact(f, R)
  PROVE  /\ DOMAIN Listed(f) = NamesOf(f, R) \cap Names
         /\ \A r \in R : NameAt(f, r) \in Names =>
              Listed(f)[NameAt(f, r)] = ColumnTypes(f, r)
  <1>1. ASSUME NEW r \in R PROVE FirstMatch(f, NameAt(f, r)) = r
    <2>1. PICK n : n = NameAt(f, r)
      OBVIOUS
    <2>2. n \in NamesOf(f, R)
      BY <2>1 DEF NamesOf
    <2>3. FirstMatch(f, n) \in R /\ NameAt(f, FirstMatch(f, n)) = n
      BY <2>2, IntactMatch
    <2>4. QED
      BY <2>1, <2>3 DEF Intact, Named
  <1>2. ASSUME NEW n
        PROVE  FirstMatch(f, n) # NotFound <=> n \in NamesOf(f, R)
    <2>1. \A r \in R : r # NotFound
      BY RecordFacts DEF NotFound
    <2>2. FirstMatch(f, n) \in R /\ NameAt(f, FirstMatch(f, n)) = n => n \in NamesOf(f, R)
      BY DEF NamesOf
    <2>3. QED
      BY <2>1, <2>2, IntactMatch
  <1>3. DOMAIN Listed(f) = {n \in Names : n \in NamesOf(f, R)}
    BY <1>2 DEF Listed
  <1>4. ASSUME NEW r \in R, NameAt(f, r) \in Names
        PROVE  Listed(f)[NameAt(f, r)] = ColumnTypes(f, r)
    <2>1. NameAt(f, r) \in NamesOf(f, R)
      BY DEF NamesOf
    <2>2. NameAt(f, r) \in DOMAIN Listed(f)
      BY <1>3, <1>4, <2>1
    <2>3. Listed(f)[NameAt(f, r)] = ColumnTypes(f, FirstMatch(f, NameAt(f, r)))
      BY <2>2 DEF Listed
    <2>4. QED
      BY <1>1, <2>3
  <1>5. QED
    BY <1>3, <1>4

(* The types of a record with n columns stand in it, in order.             *)
LEMMA TypesRead ==
  ASSUME NEW f, NEW r \in Nat, NEW n \in Nat,
         IntAt(f, r) = 2 * StrSize * n + IntSize + StrSize
  PROVE  /\ ColumnTypes(f, r) = [i \in 1 .. n |-> TextAt(f, TypePlace(r, i))]
         /\ \A i \in 1 .. n : /\ TypePlace(r, i) \in Nat /\ r < TypePlace(r, i)
                              /\ TypePlace(r, i) < After(f, r)
  <1>1. (IntAt(f, r) - IntSize - StrSize) \div (2 * StrSize) = n
    BY DEF IntSize, StrSize
  <1>2. ~(r < 0)
    OBVIOUS
  <1>3. ColumnTypes(f, r) = [i \in 1 .. n |-> TextAt(f, r + IntSize + 2 * StrSize * i)]
    BY <1>1, <1>2 DEF ColumnTypes
  <1>4. \A i \in 1 .. n : /\ TypePlace(r, i) \in Nat /\ r < TypePlace(r, i)
                          /\ TypePlace(r, i) < After(f, r)
    BY DEF TypePlace, After, IntSize, StrSize
  <1>5. QED
    BY <1>3, <1>4 DEF TypePlace

(* Two catalogues that read alike up to a position.                        *)
Alike(f, g, limit) ==
  \A p \in Nat : 0 < p /\ p < limit =>
    IntAt(g, p) = IntAt(f, p) /\ TextAt(g, p) = TextAt(f, p)

LEMMA AlikeRecord ==
  ASSUME NEW f, NEW R, NEW g, NEW limit \in Nat, Intact(f, R), Alike(f, g, limit),
         NEW r \in R, After(f, r) <= limit
  PROVE  /\ IntAt(g, r) = IntAt(f, r) /\ NameAt(g, r) = NameAt(f, r)
         /\ ColumnTypes(g, r) = ColumnTypes(f, r)
  <1>1. /\ r \in Nat /\ 0 < r /\ r < limit
        /\ r + IntSize \in Nat /\ 0 < r + IntSize /\ r + IntSize < limit
    <2>1. r \in Nat /\ FirstRecord <= r
      BY DEF Intact, Follows
    <2>2. After(f, r) \in Nat /\ r < After(f, r) /\ r + IntSize < After(f, r)
      BY RecordFacts
    <2>3. QED
      BY <2>1, <2>2 DEF IntSize, FirstRecord
  <1>2. PICK n \in Nat : IntAt(f, r) = 2 * StrSize * n + IntSize + StrSize
    BY DEF Intact, Follows, IsSize
  <1>3. IntAt(g, r) = IntAt(f, r) /\ NameAt(g, r) = NameAt(f, r)
    BY <1>1 DEF Alike, NameAt
  <1>4. \A i \in 1 .. n : TextAt(g, TypePlace(r, i)) = TextAt(f, TypePlace(r, i))
    <2>1. ASSUME NEW i \in 1 .. n
          PROVE  TypePlace(r, i) \in Nat /\ 0 < TypePlace(r, i) /\ TypePlace(r, i) < limit
      <3>1. /\ TypePlace(r, i) \in Nat /\ r < TypePlace(r, i)
            /\ TypePlace(r, i) < After(f, r)
        BY <1>1, <1>2, TypesRead
      <3>2. After(f, r) \in Nat
        BY RecordFacts
      <3>3. QED
        BY <1>1, <3>1, <3>2
    <2>2. QED
      BY <2>1 DEF Alike
  <1>5. /\ ColumnTypes(f, r) = [i \in 1 .. n |-> TextAt(f, TypePlace(r, i))]
        /\ ColumnTypes(g, r) = [i \in 1 .. n |-> TextAt(g, TypePlace(r, i))]
    BY <1>1, <1>2, <1>3, TypesRead
  <1>6. QED
    BY <1>3, <1>4, <1>5

(* Equal records say the same.                                             *)
LEMMA ListedAlike ==
  ASSUME NEW f, NEW R, NEW g, NEW limit \in Nat, Intact(f, R), Intact(g, R),
         NamesOf(g, R) = NamesOf(f, R), Alike(f, g, limit),
         R = {} \/ Fin(f) <= limit
  PROVE  Listed(g) = Listed(f)
  <1>1. \A r \in R : NameAt(g, r) = NameAt(f, r) /\ ColumnTypes(g, r) = ColumnTypes(f, r)
    <2>1. SUFFICES ASSUME NEW r \in R
                   PROVE  /\ NameAt(g, r) = NameAt(f, r)
                          /\ ColumnTypes(g, r) = ColumnTypes(f, r)
      OBVIOUS
    <2>2. After(f, r) <= Fin(f) /\ Fin(f) <= limit /\ Fin(f) \in Nat /\ After(f, r) \in Nat
      BY RecordFacts DEF Intact, Follows
    <2>3. QED
      BY <2>2, AlikeRecord
  <1>2. DOMAIN Listed(g) = DOMAIN Listed(f)
    BY ListedFacts
  <1>3. ASSUME NEW n \in DOMAIN Listed(f) PROVE Listed(g)[n] = Listed(f)[n]
    <2>0. n \in NamesOf(f, R) /\ n \in Names
      BY ListedFacts
    <2>1. PICK r \in R : NameAt(f, r) = n /\ n \in Names
      BY <2>0 DEF NamesOf
    <2>2. NameAt(g, r) = n
      BY <1>1, <2>1
    <2>3. Listed(f)[NameAt(f, r)] = ColumnTypes(f, r)
      BY <2>1, ListedFacts
    <2>4. Listed(g)[NameAt(g, r)] = ColumnTypes(g, r)
      BY <2>1, <2>2, ListedFacts
    <2>5. QED
      BY <1>1, <2>1, <2>2, <2>3, <2>4
  <1>4. QED
    BY <1>2, <1>3 DEF Listed

(* A table that is added is listed with its types, when they are stored    *)
(* whole.                                                                  *)
WholeTypes(types) == \A i \in DOMAIN types : Cstr[types[i]] = types[i]

LEMMA ListedAdd ==
  ASSUME NEW f, NEW R, NEW name \in Names, NEW types \in Seq(Text), Intact(f, R),
         Fresh(f, R, name), WholeTypes(types)
  PROVE  Listed(AddRecord(f, name, types)) = Put(Listed(f), name, types)
  <1> DEFINE x == Fin(f)
  <1>1. x \in Nat /\ x >= FirstRecord /\ Len(types) \in Nat /\ Natural(f)
    <2>1. x \in Nat
      BY RecordFacts
    <2>2. x >= FirstRecord
      BY <2>1 DEF Intact, Follows, FirstRecord
    <2>3. QED
      BY <2>1, <2>2 DEF Intact
  <1>2. PICK g : g = AddRecord(f, name, types)
    OBVIOUS
  <1>3. /\ Intact(g, Longer(f, R)) /\ NamesOf(g, Longer(f, R)) = NamesOf(f, R) \cup {name}
    BY <1>1, <1>2, IntactAdd
  <1>4. /\ IntAt(g, x) = RecordSize(types) /\ NameAt(g, x) = name /\ Alike(f, g, x)
        /\ \A i \in 1 .. Len(types) : TextAt(g, TypePlace(x, i)) = types[i]
    <2>1. /\ IntAt(g, x) = RecordSize(types) /\ TextAt(g, x + IntSize) = Cstr[name]
          /\ \A i \in 1 .. Len(types) : TextAt(g, TypePlace(x, i)) = Cstr[types[i]]
          /\ \A p \in Nat : 0 < p /\ p < x =>
               IntAt(g, p) = IntAt(f, p) /\ TextAt(g, p) = TextAt(f, p)
      BY <1>1, <1>2, AddRecordReads
    <2>2. \A i \in 1 .. Len(types) : Cstr[types[i]] = types[i]
      BY DEF WholeTypes
    <2>3. QED
      BY <2>1, <2>2 DEF Fresh, NameAt, Alike
  <1>5. ColumnTypes(g, x) = types
    <2>1. IntAt(g, x) = 2 * StrSize * Len(types) + IntSize + StrSize
      BY <1>4 DEF RecordSize
    <2>2. ColumnTypes(g, x) = [i \in 1 .. Len(types) |-> TextAt(g, TypePlace(x, i))]
      <3> HIDE DEF x
      <3>1. QED
        BY <1>1, <2>1, TypesRead
    <2>3. types = [i \in 1 .. Len(types) |-> types[i]]
      OBVIOUS
    <2>4. QED
      BY <1>4, <2>2, <2>3
  <1>6. \A r \in R : NameAt(g, r) = NameAt(f, r) /\ ColumnTypes(g, r) = ColumnTypes(f, r)
    <2>1. ASSUME NEW r \in R PROVE After(f, r) <= x
      BY DEF Intact, Follows
    <2> HIDE DEF x
    <2>2. QED
      BY <1>1, <1>4, <2>1, AlikeRecord
  <1>7. DOMAIN Listed(g) = DOMAIN Listed(f) \cup {name}
    <2>1. DOMAIN Listed(g) = (NamesOf(f, R) \cup {name}) \cap Names
      BY <1>3, ListedFacts
    <2>2. DOMAIN Listed(f) = NamesOf(f, R) \cap Names
      BY ListedFacts
    <2>3. QED
      BY <2>1, <2>2
  <1>8. ASSUME NEW n \in DOMAIN Listed(f), n # name PROVE Listed(g)[n] = Listed(f)[n]
    <2>1. n \in NamesOf(f, R) /\ n \in Names
      BY ListedFacts
    <2>2. PICK r \in R : NameAt(f, r) = n
      BY <2>1 DEF NamesOf
    <2>3. Listed(f)[NameAt(f, r)] = ColumnTypes(f, r)
      BY <2>1, <2>2, ListedFacts
    <2>4. Listed(g)[NameAt(g, r)] = ColumnTypes(g, r)
      <3>1. r \in Longer(f, R) /\ NameAt(g, r) \in Names
        BY <1>6, <2>1, <2>2 DEF Longer
      <3>2. QED
        BY <1>3, <3>1, ListedFacts
    <2>5. QED
      BY <1>6, <2>2, <2>3, <2>4
  <1>9. Listed(g)[name] = types
    <2>1. x \in Longer(f, R) /\ NameAt(g, x) \in Names
      BY <1>4 DEF Longer
    <2> HIDE DEF x
    <2>2. Listed(g)[NameAt(g, x)] = ColumnTypes(g, x)
      BY <1>3, <2>1, ListedFacts
    <2>3. QED
      BY <1>4, <1>5, <2>2
  <1>10. Listed(g) = [n \in DOMAIN Listed(g) |-> Listed(g)[n]]
    BY DEF Listed
  <1>11. \A n \in DOMAIN Listed(g) :
           Listed(g)[n] = IF n = name THEN types ELSE Listed(f)[n]
    BY <1>7, <1>8, <1>9
  <1>12. QED
    BY <1>2, <1>7, <1>10, <1>11 DEF Put

(* The table that is dropped is not listed any more; the others are as     *)
(* they were, the one that moved too, since its texts were stored whole.   *)
LEMMA ListedDrop ==
  ASSUME NEW f, NEW R, NEW loc \in R, Intact(f, R),
         After(f, loc) < Fin(f) => After(f, After(f, loc)) >= Fin(f),
         \A n \in DOMAIN Listed(f) : WholeTypes(Listed(f)[n])
  PROVE  Listed(DropRecord(f, loc)) = Without(Listed(f), NameAt(f, loc))
  <1> DEFINE next == After(f, loc)
             L == Left(f, R, loc)
  <1>1. PICK g : g = DropRecord(f, loc)
    OBVIOUS
  <1>2. Intact(g, L) /\ NamesOf(g, L) = NamesOf(f, R) \ {NameAt(f, loc)}
    BY <1>1, IntactDrop
  <1>3. /\ loc \in Nat /\ loc >= FirstRecord /\ Natural(f) /\ next \in Nat
        /\ next \in R \cup {Fin(f)} /\ Fin(f) \in Nat /\ IntAt(f, loc) \in Nat
        /\ Fin(f) >= IntAt(f, loc)
    <2>1. /\ loc \in Nat /\ Natural(f) /\ next \in Nat /\ IntAt(f, loc) \in Nat
          /\ Fin(f) \in Nat
      BY RecordFacts DEF Intact
    <2>2. FirstRecord <= loc /\ next \in R \cup {Fin(f)} /\ next <= Fin(f)
      BY DEF Intact, Follows
    <2>3. QED
      BY <2>1, <2>2 DEF After, FirstRecord
  <1>4. Alike(f, g, loc)
    BY <1>1, <1>3, DropRecordReads DEF Alike
  <1>5. ASSUME NEW r \in R, r < loc
        PROVE  NameAt(g, r) = NameAt(f, r) /\ ColumnTypes(g, r) = ColumnTypes(f, r)
    <2>1. After(f, r) <= loc
      BY <1>5 DEF Intact, Follows
    <2>2. QED
      BY <1>3, <1>4, <2>1, AlikeRecord
  <1>6. ASSUME next < Fin(f), NameAt(f, next) \in Names
        PROVE  /\ next \in R /\ NameAt(g, loc) = NameAt(f, next)
               /\ ColumnTypes(g, loc) = ColumnTypes(f, next)
    <2>1. next \in R
      BY <1>3, <1>6
    <2>2. PICK n \in Nat : IntAt(f, next) = 2 * StrSize * n + IntSize + StrSize
      BY <2>1 DEF Intact, Follows, IsSize
    <2>3. NextSize(f, loc) = IntAt(f, next) /\ IsSize(NextSize(f, loc))
      BY <2>2 DEF NextSize, After, IsSize
    <2> HIDE DEF next
    <2>4. /\ IntAt(g, loc) = IntAt(f, next) /\ NameAt(g, loc) = Cstr[NameAt(f, next)]
          /\ \A i \in 1 .. n : TextAt(g, TypePlace(loc, i)) =
                               Cstr[TextAt(f, TypePlace(next, i))]
      BY <1>1, <1>3, <2>2, <2>3, DropRecordReads DEF next
    <2>5. ColumnTypes(f, next) = [i \in 1 .. n |-> TextAt(f, TypePlace(next, i))]
      BY <1>3, <2>2, TypesRead
    <2>6. ColumnTypes(g, loc) = [i \in 1 .. n |-> TextAt(g, TypePlace(loc, i))]
      BY <1>3, <2>2, <2>4, TypesRead
    <2>7. WholeTypes(ColumnTypes(f, next))
      <3>1. Listed(f)[NameAt(f, next)] = ColumnTypes(f, next)
        BY <1>6, <2>1, ListedFacts
      <3>2. NameAt(f, next) \in DOMAIN Listed(f)
        <4>1. NameAt(f, next) \in NamesOf(f, R)
          BY <2>1 DEF NamesOf
        <4>2. QED
          BY <1>6, <4>1, ListedFacts
      <3>3. QED
        BY <3>1, <3>2
    <2>8. \A i \in 1 .. n : TextAt(g, TypePlace(loc, i)) = TextAt(f, TypePlace(next, i))
      BY <2>4, <2>5, <2>7 DEF WholeTypes
    <2>9. NameAt(g, loc) = NameAt(f, next)
      BY <2>1, <2>4 DEF Intact, Named
    <2>10. QED
      BY <2>1, <2>5, <2>6, <2>8, <2>9
  <1>7. DOMAIN Listed(g) = DOMAIN Listed(f) \ {NameAt(f, loc)}
    <2>1. DOMAIN Listed(g) = (NamesOf(f, R) \ {NameAt(f, loc)}) \cap Names
      <3> HIDE DEF L
      <3>1. QED
        BY <1>2, ListedFacts
    <2>2. DOMAIN Listed(f) = NamesOf(f, R) \cap Names
      BY ListedFacts
    <2>3. QED
      BY <2>1, <2>2
  <1>8. ASSUME NEW n \in DOMAIN Listed(g) PROVE Listed(g)[n] = Listed(f)[n]
    <2>1. n \in NamesOf(g, L) /\ n \in Names
      <3> HIDE DEF L
      <3>1. QED
        BY <1>2, ListedFacts, ZenonT(40)
    <2>2. PICK r \in L : NameAt(g, r) = n
      <3> HIDE DEF L
      <3>1. QED
        BY <2>1 DEF NamesOf
    <2>3. Listed(g)[n] = ColumnTypes(g, r)
      <3>1. Listed(g)[NameAt(g, r)] = ColumnTypes(g, r)
        <4> HIDE DEF L
        <4>1. QED
          BY <1>2, <2>1, <2>2, ListedFacts
      <3>2. QED
        BY <2>2, <3>1
    <2>4. CASE r \in R /\ r < loc
      <3>1. NameAt(f, r) = n /\ ColumnTypes(g, r) = ColumnTypes(f, r)
        BY <1>5, <2>2, <2>4
      <3>2. Listed(f)[NameAt(f, r)] = ColumnTypes(f, r)
        BY <2>1, <2>4, <3>1, ListedFacts
      <3>3. QED
        BY <2>3, <3>1, <3>2
    <2>5. CASE ~(r \in R /\ r < loc)
      <3>1. next < Fin(f) /\ r = loc
        BY <2>5 DEF Left
      <3>2. next \in R /\ NameAt(f, next) \in NamesOf(g, L)
        <4>1. next \in R
          BY <1>3, <3>1
        <4>2. NameAt(f, next) \in NamesOf(f, R)
          BY <4>1 DEF NamesOf
        <4>3. NameAt(f, next) # NameAt(f, loc)
          <5>1. next # loc
            BY RecordFacts
          <5>2. QED
            BY <4>1, <5>1 DEF Intact, Named
        <4> HIDE DEF L
        <4>4. QED
          BY <1>2, <4>1, <4>2, <4>3
      <3>3. NameAt(g, loc) = NameAt(f, next)
        <4>1. PICK m \in Nat : IntAt(f, next) = 2 * StrSize * m + IntSize + StrSize
          BY <3>2 DEF Intact, Follows, IsSize
        <4>2. IsSize(NextSize(f, loc))
          BY <4>1 DEF NextSize, After, IsSize
        <4>3. NameAt(g, loc) = Cstr[NameAt(f, next)]
          BY <1>1, <1>3, <4>2, DropRecordReads
        <4>4. QED
          BY <3>2, <4>3 DEF Intact, Named
      <3>4. NameAt(f, next) = n /\ ColumnTypes(g, r) = ColumnTypes(f, next)
        BY <1>6, <2>1, <2>2, <3>1, <3>3
      <3>5. Listed(f)[NameAt(f, next)] = ColumnTypes(f, next)
        BY <2>1, <3>2, <3>4, ListedFacts
      <3>6. QED
        BY <2>3, <3>4, <3>5
    <2>6. QED
      BY <2>4, <2>5
  <1>9. Listed(g) = [n \in DOMAIN Listed(g) |-> Listed(g)[n]]
    BY DEF Listed
  <1>10. QED
    BY <1>1, <1>7, <1>8, <1>9 DEF Without, Restrict

(* What the file says is what memory says, and load reads what it says.    *)
LEMMA ListedPersisted ==
  ASSUME NEW f, NEW R, Intact(f, R), Fits(f, R)
  PROVE  Listed(Persisted(f)) = Listed(f)
  <1>1. /\ Intact(Persisted(f), R) /\ NamesOf(Persisted(f), R) = NamesOf(f, R)
    BY IntactPersisted
  <1>2. Alike(f, Persisted(f), PageWords)
    BY PersistedReads DEF Alike
  <1>3. QED
    BY <1>1, <1>2, ListedAlike, SizeAssumption DEF Fits

LEMMA ListedReadOver ==
  ASSUME NEW file, NEW f, NEW R, Intact(file, R), Fits(file, R), Natural(f)
  PROVE  Listed(ReadOver(file, f)) = Listed(file)
  <1>1. /\ Intact(ReadOver(file, f), R)
        /\ NamesOf(ReadOver(file, f), R) = NamesOf(file, R)
    BY IntactReadOver
  <1>2. Alike(file, ReadOver(file, f), PageWords)
    BY ReadOverReads DEF Alike
  <1>3. QED
    BY <1>1, <1>2, ListedAlike, SizeAssumption DEF Fits

(* A catalogue that ends before its first record lists nothing.            *)
LEMMA ListedNothing ==
  ASSUME NEW f, Natural(f), Fin(f) <= FirstRecord
  PROVE  Listed(f) = << >>
  <1>1. ASSUME NEW n PROVE FirstMatch(f, n) = NotFound
    <2>1. PICK w : /\ FirstMatch(f, n) = w[FirstRecord]
                   /\ \A loc \in Nat :
                        w[loc] = IF loc >= Fin(f) THEN NotFound
                                 ELSE IF TextAt(f, loc + IntSize) = n THEN loc
                                 ELSE IF IntAt(f, loc) = 0 THEN Endless
                                 ELSE w[loc + IntAt(f, loc)]
      BY MatchUnfolds
    <2>2. FirstRecord \in Nat /\ FirstRecord >= Fin(f)
      BY DEF FirstRecord, Natural, Fin
    <2>3. QED
      BY <2>1, <2>2
  <1>2. {m \in Names : FirstMatch(f, m) # NotFound} = {}
    BY <1>1
  <1>3. QED
    BY <1>2 DEF Listed

----------------------------------------------------------------------------
(* Store                                                                    *)
----------------------------------------------------------------------------

(* Every slot a table has, and every slot below the number of tables, has  *)
(* a page: the induction hypothesis that AllocatedPages lacks.             *)
SlotsFilled ==
  \A s \in Slots :
    s < Cardinality(DOMAIN tableLoc) \/ (\E n \in DOMAIN tableLoc : s <= tableLoc[n])
      => tablePtrs[s] # Null

(* The induction hypothesis of OnePagePerTable.                            *)
SlotsPacked ==
  orderly =>
    /\ \A n \in DOMAIN tableLoc : tableLoc[n] < Cardinality(DOMAIN tableLoc)
    /\ \A m, n \in DOMAIN tableLoc : tableLoc[m] = tableLoc[n] => m = n

(* The induction hypothesis of FilesCurrent: while the pages are written,  *)
(* those no longer pending are in their files; an ended process has no     *)
(* tables.                                                                 *)
FlushedSoFar ==
  /\ pc \in {"down", "aborted"} => DOMAIN tableLoc = {}
  /\ pc \in {"tables", "reply"} \/ (pc = "idle" /\ DOMAIN tableLoc # {}) =>
       /\ catFile = Persisted(cat)
       /\ \A n \in DOMAIN tableLoc \ (pending \cup {NoText}) :
            n \in DOMAIN files /\ files[n] = tablePtrs[tableLoc[n]]

(***************************************************************************)
(* Partial functions and slots                                             *)
(***************************************************************************)

LEMMA PutFacts ==
  ASSUME NEW f, NEW k, NEW v
  PROVE  /\ DOMAIN Put(f, k, v) = DOMAIN f \cup {k}
         /\ Put(f, k, v)[k] = v
         /\ \A x \in DOMAIN f : x # k => Put(f, k, v)[x] = f[x]
  BY DEF Put

LEMMA PutPages ==
  ASSUME NEW f, Pages(f), NEW k \in Text, NEW v \in Page
  PROVE  Pages(Put(f, k, v))
  BY DEF Pages, Put

LEMMA WithoutPages ==
  ASSUME NEW f, Pages(f), NEW k
  PROVE  Pages(Without(f, k))
  BY DEF Pages, Without, Restrict

LEMMA PageTypes == FreshPage \in Page /\ ZeroPage \in Page
  BY DEF FreshPage, ZeroPage, Page, Row

LEMMA OpenCreatePages ==
  ASSUME NEW f, Pages(f), NEW k \in Text
  PROVE  Pages(OpenCreate(f, k)) /\ PageIn(f, k) \in Page
  BY PutPages, PageTypes DEF OpenCreate, PageIn, Pages

(* A row added to a page leaves a page.                                    *)
LEMMA AppendPage ==
  ASSUME NEW page \in Page, NEW types \in Seq(Text), NEW data,
         \A i \in DOMAIN types :
           IF types[i] = IntType THEN data[i] \in Numerals ELSE data[i] \in Text
  PROVE  Append1(page, types, data) \in Page
  <1> DEFINE row == [layout |-> Layout(types), data |-> Stored(types, data)]
  <1>1. Layout(types) \in Seq(BOOLEAN)
    <2>1. Len(types) \in Nat /\ DOMAIN types = 1 .. Len(types)
      OBVIOUS
    <2>2. Layout(types) \in [1 .. Len(types) -> BOOLEAN]
      BY <2>1, Zenon DEF Layout
    <2>3. \A n \in Nat : \A h \in [1 .. n -> BOOLEAN] : h \in Seq(BOOLEAN)
      OBVIOUS
    <2>4. QED
      BY <2>1, <2>2, <2>3
  <1>2. \A i \in DOMAIN types : Stored(types, data)[i] \in Text
    BY DiskAssumption, TextAssumption DEF Stored
  <1>3. Stored(types, data) \in Seq(Text)
    BY <1>2 DEF Stored
  <1>4. row \in Row
    BY <1>1, <1>3 DEF Row
  <1>5. Append(page.rows, row) \in Seq(Row)
    BY <1>4 DEF Page
  <1>6. QED
    BY <1>5 DEF Append1, Page

(* The number of tables is a slot: there are fewer texts than slots.       *)
LEMMA NextSlot ==
  ASSUME NEW D \in SUBSET Text
  PROVE  IsFiniteSet(D) /\ Cardinality(D) \in Slots
  <1>1. IsFiniteSet(D) /\ Cardinality(D) <= Cardinality(Text)
    BY DiskAssumption, FS_Subset
  <1>2. Cardinality(D) \in Nat /\ Cardinality(Text) \in Nat
    BY <1>1, DiskAssumption, FS_CardinalityType
  <1>3. QED
    BY <1>1, <1>2, DiskAssumption DEF Slots

LEMMA RowsAreSequences == \A d \in Rows : d \in Seq(Values)
  <1> SUFFICES ASSUME NEW d \in Rows PROVE d \in Seq(Values)
    OBVIOUS
  <1>1. PICK s \in Schemas : d \in [1 .. Len(s) -> Values]
    BY DEF Rows
  <1>2. Len(s) \in Nat
    BY DiskAssumption
  <1>3. QED
    BY <1>1, <1>2

LEMMA QueryTypes ==
  ASSUME NEW q \in Query
  PROVE  /\ q.name \in Text
         /\ q.kind = "create" => q.types \in Seq(Text)
         /\ q.kind = "insert" => q.data \in Seq(Values)
  <1>1. q.name \in Text
    BY TextAssumption DEF Query
  <1>2. q.kind = "create" => q.types \in Schemas
    BY DEF Query
  <1>3. q.kind = "insert" => q.data \in Rows
    BY DEF Query
  <1>4. \A s \in Seq(Types) : s \in Seq(Text)
    BY TextAssumption
  <1>5. QED
    BY <1>1, <1>2, <1>3, <1>4, RowsAreSequences, DiskAssumption

(***************************************************************************)
(* Slots: every slot in use has a page                                     *)
(***************************************************************************)

LEMMA FilledReach ==
  ASSUME TypeOK, SlotsFilled
  PROVE  \A n \in DOMAIN tableLoc :
           tableLoc[n] \in Slots /\ tablePtrs[tableLoc[n]] \in Page
  <1> SUFFICES ASSUME NEW n \in DOMAIN tableLoc
               PROVE  tableLoc[n] \in Slots /\ tablePtrs[tableLoc[n]] \in Page
    OBVIOUS
  <1>1. tableLoc[n] \in Slots
    BY DEF TypeOK
  <1>2. tablePtrs[tableLoc[n]] # Null
    <2>1. tableLoc[n] <= tableLoc[n]
      BY <1>1 DEF Slots
    <2>2. QED
      BY <1>1, <2>1 DEF SlotsFilled
  <1>3. QED
    BY <1>1, <1>2 DEF TypeOK, PageOrNull

(* A new name takes the slot numbered by the count of the old ones.        *)
LEMMA FilledPut ==
  ASSUME TypeOK, SlotsFilled, NEW name \in Text, NEW page \in Page,
         tablePtrs' = [tablePtrs EXCEPT ![Cardinality(DOMAIN tableLoc)] = page],
         \/ tableLoc' = tableLoc
         \/ tableLoc' = Put(tableLoc, name, Cardinality(DOMAIN tableLoc))
  PROVE  SlotsFilled'
  <1> DEFINE ls == Cardinality(DOMAIN tableLoc)
  <1>1. /\ DOMAIN tableLoc \subseteq Text /\ tablePtrs \in [Slots -> PageOrNull]
        /\ \A n \in DOMAIN tableLoc : tableLoc[n] \in Slots
    BY DEF TypeOK
  <1>2. IsFiniteSet(DOMAIN tableLoc) /\ ls \in Slots
    BY <1>1, NextSlot
  <1>3. Cardinality(DOMAIN tableLoc') \in {ls, ls + 1}
    <2>1. CASE tableLoc' = tableLoc
      BY <2>1
    <2>2. CASE tableLoc' = Put(tableLoc, name, ls)
      <3>1. DOMAIN tableLoc' = DOMAIN tableLoc \cup {name}
        BY <2>2, PutFacts
      <3>2. QED
        BY <1>2, <3>1, FS_AddElement
    <2>3. QED
      BY <2>1, <2>2
  <1>4. \A n \in DOMAIN tableLoc' :
          \/ tableLoc'[n] = ls
          \/ n \in DOMAIN tableLoc /\ tableLoc'[n] = tableLoc[n]
    BY DEF Put
  <1>5. SUFFICES ASSUME NEW s \in Slots,
                        \/ s < Cardinality(DOMAIN tableLoc')
                        \/ \E n \in DOMAIN tableLoc' : s <= tableLoc'[n]
                 PROVE  tablePtrs'[s] # Null
    BY <1>5 DEF SlotsFilled
  <1>6. CASE s = ls
    BY <1>1, <1>2, <1>6, NullAssumption
  <1>7. CASE s # ls
    <2>1. tablePtrs'[s] = tablePtrs[s]
      BY <1>1, <1>7
    <2>2. s < ls \/ \E n \in DOMAIN tableLoc : s <= tableLoc[n]
      <3>1. CASE s < Cardinality(DOMAIN tableLoc')
        BY <1>2, <1>3, <1>7, <3>1 DEF Slots
      <3>2. CASE \E n \in DOMAIN tableLoc' : s <= tableLoc'[n]
        BY <1>2, <1>4, <1>7, <3>2 DEF Slots
      <3>3. QED
        BY <1>5, <3>1, <3>2
    <2>3. QED
      BY <2>1, <2>2 DEF SlotsFilled
  <1>8. QED
    BY <1>6, <1>7

(* Dropping a table moves pages down onto slots that keep a page.          *)
LEMMA FilledDrop ==
  ASSUME TypeOK, SlotsFilled, NEW name, NEW pos \in Slots,
         tableLoc' = LowerSlots(tableLoc, name, pos),
         tablePtrs' = ShiftPages(tablePtrs, tableLoc, pos)
  PROVE  /\ SlotsFilled'
         /\ tablePtrs' \in [Slots -> PageOrNull]
         /\ \A n \in DOMAIN tableLoc' : tableLoc'[n] \in Slots
  <1>1. /\ DOMAIN tableLoc \subseteq Text /\ tablePtrs \in [Slots -> PageOrNull]
        /\ \A n \in DOMAIN tableLoc : tableLoc[n] \in Slots
    BY DEF TypeOK
  <1>2. /\ DOMAIN tableLoc' = DOMAIN tableLoc \ {name}
        /\ \A n \in DOMAIN tableLoc' :
             tableLoc'[n] = IF tableLoc[n] > pos THEN tableLoc[n] - 1 ELSE tableLoc[n]
    BY DEF LowerSlots
  <1>3. \A n \in DOMAIN tableLoc' :
          /\ n \in DOMAIN tableLoc /\ tableLoc'[n] \in Slots
          /\ tableLoc'[n] <= tableLoc[n]
    BY <1>1, <1>2, DiskAssumption DEF Slots
  <1>4. Cardinality(DOMAIN tableLoc') <= Cardinality(DOMAIN tableLoc)
    BY <1>1, <1>2, NextSlot, FS_Subset
  <1>5. DOMAIN tablePtrs' = Slots
    BY <1>1 DEF ShiftPages
  <1>6. ASSUME NEW s \in Slots
        PROVE  \/ tablePtrs'[s] = tablePtrs[s]
               \/ /\ s + 1 \in Slots /\ tablePtrs'[s] = tablePtrs[s + 1]
                  /\ \E n \in DOMAIN tableLoc : s + 1 <= tableLoc[n]
    <2>1. CASE s >= pos /\ \E n \in DOMAIN tableLoc : tableLoc[n] > s
      <3>1. PICK n \in DOMAIN tableLoc : tableLoc[n] > s
        BY <2>1
      <3>2. s + 1 \in Slots /\ s + 1 <= tableLoc[n]
        BY <1>1, <3>1, DiskAssumption DEF Slots
      <3>3. tablePtrs'[s] = tablePtrs[s + 1]
        BY <1>1, <2>1 DEF ShiftPages
      <3>4. QED
        BY <3>2, <3>3
    <2>2. CASE ~(s >= pos /\ \E n \in DOMAIN tableLoc : tableLoc[n] > s)
      BY <1>1, <2>2 DEF ShiftPages
    <2>3. QED
      BY <2>1, <2>2
  <1>7. tablePtrs' \in [Slots -> PageOrNull]
    <2>1. \A s \in Slots : tablePtrs'[s] \in PageOrNull
      BY <1>1, <1>6
    <2>2. tablePtrs' = [s \in Slots |-> tablePtrs'[s]]
      BY <1>1 DEF ShiftPages
    <2>3. QED
      BY <2>1, <2>2
  <1>8. SlotsFilled'
    <2>1. SUFFICES ASSUME NEW s \in Slots,
                          \/ s < Cardinality(DOMAIN tableLoc')
                          \/ \E n \in DOMAIN tableLoc' : s <= tableLoc'[n]
                   PROVE  tablePtrs'[s] # Null
      BY <2>1 DEF SlotsFilled
    <2>2. \/ s < Cardinality(DOMAIN tableLoc)
          \/ \E n \in DOMAIN tableLoc : s <= tableLoc[n]
      <3>1. Cardinality(DOMAIN tableLoc) \in Slots /\ Cardinality(DOMAIN tableLoc') \in Slots
        BY <1>1, <1>2, NextSlot
      <3>2. CASE s < Cardinality(DOMAIN tableLoc')
        BY <1>4, <3>1, <3>2 DEF Slots
      <3>3. CASE \E n \in DOMAIN tableLoc' : s <= tableLoc'[n]
        BY <1>1, <1>3, <3>3 DEF Slots
      <3>4. QED
        BY <2>1, <3>2, <3>3
    <2>3. tablePtrs[s] # Null
      BY <2>2 DEF SlotsFilled
    <2>4. QED
      BY <1>6, <2>3 DEF SlotsFilled
  <1>9. QED
    BY <1>3, <1>7, <1>8

(***************************************************************************)
(* Types                                                                   *)
(***************************************************************************)

IInv == TypeOK /\ SlotsFilled

LEMMA InitTypes == Init => IInv
  <1> SUFFICES ASSUME Init PROVE IInv
    OBVIOUS
  <1>1. DOMAIN << >> = {}
    OBVIOUS
  <1>2. IsCatalog(<< >>) /\ Pages(<< >>)
    BY <1>1 DEF IsCatalog, Pages
  <1>3. tablePtrs \in [Slots -> PageOrNull]
    BY DEF Init, PageOrNull
  <1>4. TypeOK
    BY <1>1, <1>2, <1>3 DEF Init, TypeOK
  <1>5. SlotsFilled
    BY <1>1, FS_EmptySet DEF Init, SlotsFilled, Slots
  <1>6. QED
    BY <1>4, <1>5 DEF IInv

LEMMA GoneTypes == TypeOK /\ ProcessGone /\ pc' \in {"down", "aborted"}
                     /\ crashes' \in Nat => IInv'
  <1> SUFFICES ASSUME TypeOK, ProcessGone, pc' \in {"down", "aborted"}, crashes' \in Nat
               PROVE  IInv'
    OBVIOUS
  <1>1. DOMAIN << >> = {}
    OBVIOUS
  <1>2. IsCatalog(<< >>)
    BY <1>1 DEF IsCatalog
  <1>3. tablePtrs' \in [Slots -> PageOrNull]
    BY DEF ProcessGone, PageOrNull
  <1>4. orderly' \in BOOLEAN
    BY DEF ProcessGone, TypeOK
  <1>5. TypeOK'
    BY <1>1, <1>2, <1>3, <1>4 DEF ProcessGone, fileVars, TypeOK
  <1>6. SlotsFilled'
    BY <1>1, FS_EmptySet DEF ProcessGone, SlotsFilled, Slots
  <1>7. QED
    BY <1>5, <1>6 DEF IInv

LEMMA LoadTypes == IInv /\ Load => IInv'
  <1> SUFFICES ASSUME IInv, Load PROVE IInv'
    OBVIOUS
  <1> USE DEF IInv
  <1>1. CASE LoadSkip
    BY <1>1 DEF LoadSkip, TypeOK, SlotsFilled, memVars, fileVars, history
  <1>2. CASE LoadNoFile
    <2>1. IsCatalog(cat')
      <3>1. IntCell(FirstRecord) \in Cell
        BY CellTypes DEF FirstRecord
      <3>2. IsCatalog(cat) /\ cat' = Put(cat, 0, IntCell(FirstRecord))
        BY <1>2 DEF LoadNoFile, TypeOK
      <3>3. QED
        BY <3>1, <3>2, PutCatalog
    <2>2. QED
      BY <1>2, <2>1 DEF LoadNoFile, TypeOK, SlotsFilled, fileVars, history
  <1>3. CASE LoadCatalog
    <2> DEFINE rest == {p \in DOMAIN cat : p >= PageWords}
    <2>1. IsCatalog(cat')
      <3>1. IsCatalog(Restrict(cat, rest))
        BY RestrictCatalog DEF TypeOK
      <3>2. IsCatalog(catFile)
        BY <1>3 DEF LoadCatalog, TypeOK
      <3>3. cat' = Over(catFile, Restrict(cat, rest))
        BY <1>3 DEF LoadCatalog, ReadOver
      <3>4. QED
        <4> HIDE DEF rest
        <4> QED BY <3>1, <3>2, <3>3, OverCatalog
    <2>2. QED
      BY <1>3, <2>1
      DEF LoadCatalog, FirstRecord, TypeOK, SlotsFilled, fileVars, history
  <1>4. CASE LoadRecord
    <2> DEFINE ref == TextAt(cat, at + IntSize)
               lc == Cardinality(DOMAIN tableLoc)
    <2>1. ref \in Text /\ IntAt(cat, at) \in Int
      BY ReadTypes DEF TypeOK
    <2>2. lc \in Slots
      BY NextSlot DEF TypeOK
    <2>3. Pages(files') /\ PageIn(files, ref) \in Page
      BY <1>4, <2>1, OpenCreatePages DEF LoadRecord, TypeOK
    <2>4. tablePtrs' = [tablePtrs EXCEPT ![lc] = PageIn(files, ref)]
      BY <1>4 DEF LoadRecord
    <2>5. tableLoc' = tableLoc \/ tableLoc' = Put(tableLoc, ref, lc)
      BY <1>4 DEF LoadRecord
    <2>6. SlotsFilled'
      BY <2>1, <2>3, <2>4, <2>5, FilledPut
    <2>7. /\ DOMAIN tableLoc' \subseteq Text /\ tableLoc' \in [DOMAIN tableLoc' -> Slots]
          /\ DOMAIN tableLoc \subseteq DOMAIN tableLoc'
      BY <2>1, <2>2, <2>5 DEF Put, TypeOK
    <2>8. tablePtrs' \in [Slots -> PageOrNull]
      BY <2>3, <2>4 DEF TypeOK, PageOrNull
    <2>9. TypeOK'
      BY <1>4, <2>1, <2>3, <2>7, <2>8 DEF LoadRecord, TypeOK, history
    <2>10. QED
      BY <2>6, <2>9
  <1>5. CASE LoadDone
    BY <1>5 DEF LoadDone, TypeOK, SlotsFilled, memVars, fileVars, history
  <1>6. QED
    BY <1>1, <1>2, <1>3, <1>4, <1>5 DEF Load

LEMMA ExecuteTypes == IInv /\ Execute => IInv'
  <1> SUFFICES ASSUME IInv, Execute PROVE IInv'
    OBVIOUS
  <1> USE DEF IInv
  <1>q. ASSUME pc = "exec"
        PROVE  query \in Query /\ query.name \in Text
    BY <1>q, QueryTypes DEF TypeOK
  <1>1. CASE Create
    <2> DEFINE ls == Cardinality(DOMAIN tableLoc)
    <2>1. query \in Query /\ query.kind = "create" /\ pc = "exec"
      BY <1>1, <1>q DEF Create, Running
    <2>2. query.name \in Text /\ query.types \in Seq(Text)
      BY <2>1, QueryTypes
    <2>3. IsCatalog(cat')
      BY <1>1, <2>2, AddRecordType DEF Create, TypeOK
    <2>4. ls \in Slots
      BY NextSlot DEF TypeOK
    <2>5. /\ tableLoc' = Put(tableLoc, query.name, ls)
          /\ tablePtrs' = [tablePtrs EXCEPT ![ls] = FreshPage]
      BY <1>1 DEF Create
    <2>6. SlotsFilled'
      BY <2>2, <2>5, PageTypes, FilledPut
    <2>7. /\ DOMAIN tableLoc' \subseteq Text /\ tableLoc' \in [DOMAIN tableLoc' -> Slots]
          /\ DOMAIN tableLoc \subseteq DOMAIN tableLoc'
      BY <2>2, <2>4, <2>5 DEF Put, TypeOK
    <2>8. tablePtrs' \in [Slots -> PageOrNull]
      BY <2>5, PageTypes DEF TypeOK, PageOrNull
    <2>9. orderly' \in BOOLEAN
      BY <1>1 DEF Create, Judge, TypeOK
    <2>10. TypeOK'
      BY <1>1, <2>1, <2>3, <2>7, <2>8, <2>9 DEF Create, Answer, TypeOK, fileVars
    <2>11. QED
      BY <2>6, <2>10
  <1>2. CASE InsertRefused
    BY <1>2, <1>q DEF InsertRefused, Running, Answer, TypeOK, SlotsFilled, memVars,
       fileVars, history
  <1>3. CASE InsertRow
    <2> DEFINE slot == tableLoc[query.name]
    <2>1. query \in Query /\ query.kind = "insert" /\ pc = "exec" /\ Known
      BY <1>3, <1>q DEF InsertRow, Running
    <2>2. slot \in Slots /\ tablePtrs[slot] \in Page
      BY <2>1, FilledReach DEF Known
    <2>3. Meta \in Seq(Text)
      BY ColumnTypesType DEF Meta, TypeOK
    <2>4. \A i \in DOMAIN Meta :
            IF Meta[i] = IntType THEN query.data[i] \in Numerals ELSE query.data[i] \in Text
      <3>1. query.data \in Seq(Values) /\ Len(Meta) = Len(query.data)
        BY <1>3, <2>1, QueryTypes DEF InsertRow
      <3>2. \A i \in DOMAIN Meta : query.data[i] \in Text
        BY <2>3, <3>1, DiskAssumption
      <3>3. QED
        BY <1>3, <3>2 DEF InsertRow, NumbersOnly
    <2>5. Append1(tablePtrs[slot], Meta, query.data) \in Page
      BY <2>2, <2>3, <2>4, AppendPage
    <2>6. tablePtrs' = [tablePtrs EXCEPT ![slot] = Append1(@, Meta, query.data)]
      BY <1>3 DEF InsertRow
    <2>7. tablePtrs' \in [Slots -> PageOrNull]
      BY <2>2, <2>5, <2>6 DEF TypeOK, PageOrNull
    <2>8. \A s \in Slots : tablePtrs[s] # Null => tablePtrs'[s] # Null
      BY <2>2, <2>5, <2>6, NullAssumption DEF TypeOK
    <2>9. SlotsFilled'
      BY <1>3, <2>8 DEF InsertRow, SlotsFilled
    <2>10. TypeOK'
      BY <1>3, <2>1, <2>7 DEF InsertRow, Answer, TypeOK, fileVars, history
    <2>11. QED
      BY <2>9, <2>10
  <1>4. CASE Select
    BY <1>4, <1>q DEF Select, Running, Answer, TypeOK, SlotsFilled, memVars, fileVars,
       history
  <1>5. CASE DropUnknown
    BY <1>5, <1>q DEF DropUnknown, Running, Answer, TypeOK, SlotsFilled, memVars,
       fileVars, history
  <1>6. CASE Drop
    <2> DEFINE pos == IF Known THEN tableLoc[query.name] ELSE 0
    <2>1. query \in Query /\ pc = "exec" /\ Found \in Int
      BY <1>6, <1>q DEF Drop, Running
    <2>2. IsCatalog(cat')
      BY <1>6, <2>1, DropRecordType DEF Drop, TypeOK
    <2>3. pos \in Slots
      <3>1. 0 \in Slots
        BY NextSlot, FS_EmptySet
      <3>2. QED
        BY <3>1 DEF Known, TypeOK
    <2>4. /\ tableLoc' = LowerSlots(tableLoc, query.name, pos)
          /\ tablePtrs' = ShiftPages(tablePtrs, tableLoc, pos)
      BY <1>6 DEF Drop
    <2>5. /\ SlotsFilled' /\ tablePtrs' \in [Slots -> PageOrNull]
          /\ \A n \in DOMAIN tableLoc' : tableLoc'[n] \in Slots
      BY <2>3, <2>4, FilledDrop
    <2>6. DOMAIN tableLoc' \subseteq Text /\ tableLoc' \in [DOMAIN tableLoc' -> Slots]
      BY <2>4, <2>5 DEF LowerSlots, TypeOK
    <2>7. Pages(files')
      BY <1>6, WithoutPages DEF Drop, TypeOK
    <2>8. orderly' \in BOOLEAN
      BY <1>6 DEF Drop, Judge, TypeOK
    <2>9. pending' = {} /\ pc' = "flush"
      BY <1>6, <2>1 DEF Drop, Answer, TypeOK
    <2>10. QED
      BY <1>6, <2>1, <2>2, <2>5, <2>6, <2>7, <2>8, <2>9 DEF Drop, Answer, TypeOK
  <1>7. CASE TakeSnap
    <2>1. query \in Query /\ query.name \in Text /\ pc = "exec"
      BY <1>7, <1>q DEF TakeSnap, Running
    <2>2. Pages(snapFiles')
      <3>1. CASE UNCHANGED snapFiles
        BY <3>1 DEF TypeOK
      <3>2. CASE Known /\ snapFiles' = Put(snapFiles, query.name, tablePtrs[tableLoc[query.name]])
        BY <2>1, <3>2, FilledReach, PutPages DEF Known, TypeOK
      <3>3. QED
        BY <1>7, <3>1, <3>2 DEF TakeSnap
    <2>3. QED
      BY <1>7, <2>1, <2>2 DEF TakeSnap, Answer, TypeOK, SlotsFilled, memVars, history
  <1>8. CASE ShowSnap
    <2>1. query \in Query /\ query.name \in Text /\ pc = "exec"
      BY <1>8, <1>q DEF ShowSnap, Running
    <2>2. Pages(snapFiles')
      BY <1>8, <2>1, OpenCreatePages DEF ShowSnap, TypeOK
    <2>3. QED
      BY <1>8, <2>1, <2>2 DEF ShowSnap, Answer, TypeOK, SlotsFilled, memVars, history
  <1>9. CASE Unimplemented
    BY <1>9, <1>q DEF Unimplemented, Answer, TypeOK, SlotsFilled, memVars, fileVars,
       history
  <1>10. CASE Hang
    BY <1>10, <1>q DEF Hang, TypeOK, SlotsFilled, memVars, fileVars, history
  <1>11. CASE Abort
    BY <1>11, GoneTypes DEF Abort, TypeOK
  <1>12. QED
    BY <1>1, <1>2, <1>3, <1>4, <1>5, <1>6, <1>7, <1>8, <1>9, <1>10, <1>11 DEF Execute

LEMMA FlushTypes == IInv /\ (Flush \/ Reply) => IInv'
  <1> SUFFICES ASSUME IInv, Flush \/ Reply PROVE IInv'
    OBVIOUS
  <1> USE DEF IInv
  <1>1. CASE FlushOpen
    <2>1. catFile' = NoFile \/ IsCatalog(catFile')
      <3>1. DOMAIN << >> = {}
        OBVIOUS
      <3>2. IsCatalog(<< >>)
        BY <3>1 DEF IsCatalog
      <3>3. QED
        BY <1>1, <3>2 DEF FlushOpen, TypeOK
    <2>2. QED
      BY <1>1, <2>1 DEF FlushOpen, TypeOK, SlotsFilled, memVars, history
  <1>2. CASE FlushCatalog
    <2> DEFINE low == {p \in DOMAIN cat : p < PageWords}
    <2>1. IsCatalog(Restrict(cat, low))
      BY RestrictCatalog DEF TypeOK
    <2>2. IsCatalog(catFile')
      BY <1>2, <2>1 DEF FlushCatalog, Persisted
    <2>3. QED
      BY <1>2, <2>2 DEF FlushCatalog, TypeOK, SlotsFilled, memVars, history
  <1>3. CASE FlushTable
    <2>1. PICK n \in pending :
            /\ files' = IF n = NoText THEN files
                        ELSE Put(files, n, tablePtrs[tableLoc[n]])
            /\ pending' = pending \ {n}
      BY <1>3 DEF FlushTable
    <2>2. pc = "tables" /\ n \in DOMAIN tableLoc /\ n \in Text
      BY <1>3 DEF FlushTable, TypeOK
    <2>3. tablePtrs[tableLoc[n]] \in Page
      BY <2>2, FilledReach
    <2>4. Pages(files')
      <3>1. Pages(files)
        BY DEF TypeOK
      <3>2. QED
        BY <2>1, <2>2, <2>3, <3>1, PutPages
    <2>5. pending' \subseteq DOMAIN tableLoc
      BY <2>1, <2>2 DEF TypeOK
    <2>6. QED
      BY <1>3, <2>2, <2>4, <2>5 DEF FlushTable, TypeOK, SlotsFilled, memVars, history
  <1>4. CASE FlushDone
    BY <1>4 DEF FlushDone, TypeOK, SlotsFilled, memVars, fileVars, history
  <1>5. CASE Reply
    BY <1>5 DEF Reply, TypeOK, SlotsFilled, memVars, fileVars
  <1>6. QED
    BY <1>1, <1>2, <1>3, <1>4, <1>5 DEF Flush

LEMMA NextTypes == IInv /\ [Next]_vars => IInv'
  <1> SUFFICES ASSUME IInv, [Next]_vars PROVE IInv'
    OBVIOUS
  <1>1. CASE Receive
    BY <1>1 DEF Receive, IInv, TypeOK, SlotsFilled, memVars, fileVars, history
  <1>2. CASE Serve
    BY <1>2, LoadTypes, ExecuteTypes, FlushTypes DEF Serve
  <1>3. CASE Kill
    <2>1. pc' = "down" /\ ProcessGone /\ crashes' \in Nat
      BY <1>3 DEF Kill, IInv, TypeOK
    <2>2. QED
      BY <2>1, GoneTypes DEF IInv
  <1>4. CASE Restart
    BY <1>4 DEF Restart, IInv, TypeOK, SlotsFilled, memVars, fileVars, history
  <1>5. CASE UNCHANGED vars
    BY <1>5 DEF vars, IInv, TypeOK, SlotsFilled, memVars, fileVars, history
  <1>6. QED
    BY <1>1, <1>2, <1>3, <1>4, <1>5 DEF Next

LEMMA Invariance == Spec => []IInv
  BY InitTypes, NextTypes, PTL DEF Spec

(* Every variable keeps its type: memory, files and the query in hand, in  *)
(* every state that any sequence of queries, crashes and reloads reaches.  *)
THEOREM TypeCorrect == Spec => []TypeOK
  <1>1. IInv => TypeOK
    BY DEF IInv
  <1>2. QED
    BY <1>1, Invariance, PTL

(* Every table a query can reach has a page in its slot.                   *)
THEOREM NoNullPage == Spec => []AllocatedPages
  <1>1. IInv => AllocatedPages
    BY FilledReach, NullAssumption DEF IInv, AllocatedPages
  <1>2. QED
    BY <1>1, Invariance, PTL

(***************************************************************************)
(* Files                                                                   *)
(***************************************************************************)

LEMMA FlushedStep == IInv /\ FlushedSoFar /\ [Next]_vars => FlushedSoFar'
  <1> SUFFICES ASSUME IInv, FlushedSoFar, [Next]_vars PROVE FlushedSoFar'
    OBVIOUS
  <1>1. CASE Receive
    BY <1>1 DEF Receive, FlushedSoFar
  <1>2. CASE Load
    BY <1>2 DEF Load, LoadSkip, LoadNoFile, LoadCatalog, LoadRecord, LoadDone,
       FlushedSoFar
  <1>3. CASE Execute /\ ~Abort
    <2>1. pc' \in {"flush", "hung"}
      BY <1>3 DEF Execute, Create, InsertRefused, InsertRow, Select, DropUnknown, Drop,
         TakeSnap, ShowSnap, Unimplemented, Hang, Answer
    <2>2. QED
      BY <2>1 DEF FlushedSoFar
  <1>4. CASE Abort \/ Kill
    <2>1. pc' \in {"down", "aborted"} /\ tableLoc' = << >>
      BY <1>4 DEF Abort, Kill, ProcessGone
    <2>2. DOMAIN << >> = {}
      OBVIOUS
    <2>3. QED
      BY <2>1, <2>2 DEF FlushedSoFar
  <1>5. CASE FlushOpen
    BY <1>5 DEF FlushOpen, FlushedSoFar
  <1>6. CASE FlushCatalog
    BY <1>6 DEF FlushCatalog, FlushedSoFar, memVars
  <1>7. CASE FlushTable
    <2>1. PICK n \in pending :
            /\ files' = IF n = NoText THEN files
                        ELSE Put(files, n, tablePtrs[tableLoc[n]])
            /\ pending' = pending \ {n}
      BY <1>7 DEF FlushTable
    <2>2. \A m \in DOMAIN tableLoc \ (pending' \cup {NoText}) :
            m \in DOMAIN files' /\ files'[m] = tablePtrs[tableLoc[m]]
      <3>1. SUFFICES ASSUME NEW m \in DOMAIN tableLoc \ (pending' \cup {NoText})
                     PROVE  m \in DOMAIN files' /\ files'[m] = tablePtrs[tableLoc[m]]
        OBVIOUS
      <3>2. CASE m = n
        BY <2>1, <3>1, <3>2 DEF Put
      <3>3. CASE m # n
        <4>1. m \in DOMAIN files /\ files[m] = tablePtrs[tableLoc[m]]
          BY <1>7, <2>1, <3>1, <3>3 DEF FlushTable, FlushedSoFar
        <4>2. QED
          BY <2>1, <3>3, <4>1 DEF Put
      <3>4. QED
        BY <3>2, <3>3
    <2>3. QED
      BY <1>7, <2>2 DEF FlushTable, FlushedSoFar, memVars
  <1>8. CASE FlushDone
    BY <1>8 DEF FlushDone, FlushedSoFar, memVars, fileVars
  <1>9. CASE Reply
    BY <1>9 DEF Reply, FlushedSoFar, memVars, fileVars
  <1>10. CASE Restart
    BY <1>10 DEF Restart, FlushedSoFar, memVars, fileVars
  <1>11. CASE UNCHANGED vars
    BY <1>11 DEF vars, memVars, fileVars, FlushedSoFar
  <1>12. QED
    BY <1>1, <1>2, <1>3, <1>4, <1>5, <1>6, <1>7, <1>8, <1>9, <1>10, <1>11
    DEF Next, Serve, Flush

(* When a query is answered the files hold what memory holds, whatever the *)
(* queries before it were.                                                 *)
THEOREM FilesFollowMemory == Spec => []FilesCurrent
  <1>1. Init => FlushedSoFar
    <2>1. DOMAIN << >> = {}
      OBVIOUS
    <2>2. QED
      BY <2>1 DEF Init, FlushedSoFar
  <1>2. IInv /\ FlushedSoFar => FilesCurrent
    <2>1. SUFFICES ASSUME IInv, FlushedSoFar,
                          pc = "reply" \/ (pc = "idle" /\ DOMAIN tableLoc # {})
                   PROVE  /\ catFile = Persisted(cat)
                          /\ \A n \in DOMAIN tableLoc \ {NoText} :
                               n \in DOMAIN files /\ files[n] = tablePtrs[tableLoc[n]]
      BY <2>1 DEF FilesCurrent
    <2>2. pending = {}
      BY <2>1 DEF IInv, TypeOK
    <2>3. QED
      BY <2>1, <2>2 DEF FlushedSoFar
  <1>3. QED
    BY <1>1, <1>2, FlushedStep, Invariance, PTL DEF Spec

(***************************************************************************)
(* Pages are not shared                                                    *)
(***************************************************************************)

(* A new name in the next free slot shares it with no other.               *)
LEMMA PackedPut ==
  ASSUME TypeOK, SlotsPacked, orderly, NEW name \in Text, name \notin DOMAIN tableLoc,
         tableLoc' = Put(tableLoc, name, Cardinality(DOMAIN tableLoc))
  PROVE  SlotsPacked'
  <1> DEFINE ls == Cardinality(DOMAIN tableLoc)
  <1>1. IsFiniteSet(DOMAIN tableLoc) /\ ls \in Nat
    BY NextSlot DEF TypeOK, Slots
  <1>2. /\ DOMAIN tableLoc' = DOMAIN tableLoc \cup {name}
        /\ tableLoc'[name] = ls
        /\ \A n \in DOMAIN tableLoc : tableLoc'[n] = tableLoc[n]
    BY DEF Put
  <1>3. Cardinality(DOMAIN tableLoc') = ls + 1
    BY <1>1, <1>2, FS_AddElement
  <1>4. \A n \in DOMAIN tableLoc : tableLoc[n] \in Nat /\ tableLoc[n] < ls
    BY DEF SlotsPacked, TypeOK, Slots
  <1>5. \A n \in DOMAIN tableLoc' : tableLoc'[n] < ls + 1
    BY <1>1, <1>2, <1>4
  <1>6. \A m, n \in DOMAIN tableLoc' : tableLoc'[m] = tableLoc'[n] => m = n
    <2>1. \A m, n \in DOMAIN tableLoc : tableLoc[m] = tableLoc[n] => m = n
      BY DEF SlotsPacked
    <2>2. QED
      BY <1>1, <1>2, <1>4, <2>1
  <1>7. QED
    BY <1>3, <1>5, <1>6 DEF SlotsPacked

(* Lowering the slots above a removed one keeps them apart and gapless.    *)
LEMMA PackedDrop ==
  ASSUME TypeOK, SlotsPacked, orderly, NEW name \in DOMAIN tableLoc,
         tableLoc' = LowerSlots(tableLoc, name, tableLoc[name])
  PROVE  SlotsPacked'
  <1> DEFINE size == Cardinality(DOMAIN tableLoc)
             pos == tableLoc[name]
  <1>1. IsFiniteSet(DOMAIN tableLoc) /\ size \in Nat
    BY NextSlot DEF TypeOK, Slots
  <1>2. \A n \in DOMAIN tableLoc : tableLoc[n] \in Nat /\ tableLoc[n] < size
    BY DEF SlotsPacked, TypeOK, Slots
  <1>3. \A m, n \in DOMAIN tableLoc : tableLoc[m] = tableLoc[n] => m = n
    BY DEF SlotsPacked
  <1>4. /\ DOMAIN tableLoc' = DOMAIN tableLoc \ {name}
        /\ \A n \in DOMAIN tableLoc' :
             tableLoc'[n] = IF tableLoc[n] > pos THEN tableLoc[n] - 1 ELSE tableLoc[n]
    BY DEF LowerSlots
  <1>5. Cardinality(DOMAIN tableLoc') = size - 1
    BY <1>1, <1>4, FS_RemoveElement
  <1>6. \A n \in DOMAIN tableLoc' : n \in DOMAIN tableLoc /\ tableLoc[n] # pos
    BY <1>3, <1>4
  <1>7. \A n \in DOMAIN tableLoc' : tableLoc'[n] < size - 1
    BY <1>1, <1>2, <1>4, <1>6
  <1>8. \A m, n \in DOMAIN tableLoc' : tableLoc'[m] = tableLoc'[n] => m = n
    <2>1. SUFFICES ASSUME NEW m \in DOMAIN tableLoc', NEW n \in DOMAIN tableLoc',
                          tableLoc'[m] = tableLoc'[n]
                   PROVE  tableLoc[m] = tableLoc[n]
      BY <1>3, <1>6
    <2>2. /\ tableLoc[m] \in Nat /\ tableLoc[n] \in Nat /\ pos \in Nat
          /\ tableLoc[m] # pos /\ tableLoc[n] # pos
      BY <1>2, <1>6
    <2>3. QED
      BY <1>4, <2>1, <2>2
  <1>9. QED
    BY <1>5, <1>7, <1>8 DEF SlotsPacked

LEMMA PackedStep == IInv /\ SlotsPacked /\ [Next]_vars => SlotsPacked'
  <1> SUFFICES ASSUME IInv, SlotsPacked, [Next]_vars PROVE SlotsPacked'
    OBVIOUS
  <1>1. ASSUME tableLoc' = tableLoc, orderly' => orderly
        PROVE  SlotsPacked'
    BY <1>1 DEF SlotsPacked
  <1>2. CASE LoadRecord
    <2> DEFINE ref == TextAt(cat, at + IntSize)
    <2>1. ref \in Text
      BY ReadTypes DEF IInv, TypeOK
    <2>2. orderly' = orderly
      BY <1>2 DEF LoadRecord, history
    <2>3. CASE ref \in DOMAIN tableLoc
      BY <1>1, <1>2, <2>2, <2>3 DEF LoadRecord
    <2>4. CASE ref \notin DOMAIN tableLoc /\ orderly
      <3>1. tableLoc' = Put(tableLoc, ref, Cardinality(DOMAIN tableLoc))
        BY <1>2, <2>4 DEF LoadRecord
      <3>2. QED
        BY <2>1, <2>4, <3>1, PackedPut DEF IInv
    <2>5. CASE ~orderly
      BY <2>2, <2>5 DEF SlotsPacked
    <2>6. QED
      BY <2>3, <2>4, <2>5
  <1>3. CASE Create
    <2>1. orderly' => orderly /\ query.name \notin DOMAIN tableLoc
      BY <1>3 DEF Create, Judge, OrderlyCreate, Known
    <2>2. query.name \in Text
      BY <1>3, QueryTypes DEF Create, Running, IInv, TypeOK
    <2>3. tableLoc' = Put(tableLoc, query.name, Cardinality(DOMAIN tableLoc))
      BY <1>3 DEF Create
    <2>4. CASE orderly'
      BY <2>1, <2>2, <2>3, <2>4, PackedPut DEF IInv
    <2>5. CASE ~orderly'
      BY <2>5 DEF SlotsPacked
    <2>6. QED
      BY <2>4, <2>5
  <1>4. CASE Drop
    <2>1. orderly' => orderly /\ query.name \in DOMAIN tableLoc
      BY <1>4 DEF Drop, Judge, OrderlyDrop, Known
    <2>2. CASE orderly'
      <3>1. tableLoc' = LowerSlots(tableLoc, query.name, tableLoc[query.name])
        BY <1>4, <2>1, <2>2 DEF Drop, Known
      <3>2. QED
        BY <2>1, <2>2, <3>1, PackedDrop DEF IInv
    <2>3. CASE ~orderly'
      BY <2>3 DEF SlotsPacked
    <2>4. QED
      BY <2>2, <2>3
  <1>5. CASE Abort \/ Kill
    <2>1. tableLoc' = << >>
      BY <1>5 DEF Abort, Kill, ProcessGone
    <2>2. DOMAIN << >> = {}
      OBVIOUS
    <2>3. QED
      BY <2>1, <2>2 DEF SlotsPacked
  <1>6. CASE Receive \/ LoadSkip \/ LoadNoFile \/ LoadCatalog \/ LoadDone
    BY <1>1, <1>6 DEF Receive, LoadSkip, LoadNoFile, LoadCatalog, LoadDone, memVars,
       history
  <1>7. CASE \/ InsertRefused \/ InsertRow \/ Select \/ DropUnknown \/ TakeSnap
             \/ ShowSnap \/ Unimplemented \/ Hang
    BY <1>1, <1>7 DEF InsertRefused, InsertRow, Select, DropUnknown, TakeSnap, ShowSnap,
       Unimplemented, Hang, memVars, history
  <1>8. CASE Flush \/ Reply \/ Restart \/ UNCHANGED vars
    BY <1>1, <1>8 DEF Flush, FlushOpen, FlushCatalog, FlushTable, FlushDone, Reply,
       Restart, vars, memVars, history
  <1>9. QED
    BY <1>2, <1>3, <1>4, <1>5, <1>6, <1>7, <1>8 DEF Next, Serve, Load, Execute

(* While queries are orderly no two tables share a row page.               *)
THEOREM PagesNotShared == Spec => []OnePagePerTable
  <1>1. Init => SlotsPacked
    <2>1. DOMAIN << >> = {}
      OBVIOUS
    <2>2. QED
      BY <2>1 DEF Init, SlotsPacked
  <1>2. SlotsPacked => OnePagePerTable
    BY DEF SlotsPacked, OnePagePerTable
  <1>3. QED
    BY <1>1, <1>2, PackedStep, Invariance, PTL DEF Spec

(***************************************************************************)
(* The catalogue                                                           *)
(***************************************************************************)

(* The catalogue is whole, ends within its file and names these tables.    *)
Holds(f, T) == \E R : Intact(f, R) /\ Fits(f, R) /\ NamesOf(f, R) = T

(* As Holds, but only the records before a position have been counted.     *)
Reading(f, loc, T) ==
  \E R : /\ Intact(f, R) /\ Fits(f, R) /\ loc \in Positions(f, R)
         /\ T = NamesOf(f, {r \in R : r < loc})

(* The induction hypothesis of CatalogConsistent: it also holds of the     *)
(* file, except between its creation and its first writing, and of the     *)
(* part of it that load has gone through.                                  *)
CatalogInv ==
  orderly =>
    /\ Natural(cat)
    /\ Loaded => Holds(cat, DOMAIN tableLoc)
    /\ pc = "walk" => Reading(cat, at, DOMAIN tableLoc)
    /\ \/ catFile = NoFile
       \/ catFile = << >> /\ pc = "write"
       \/ \E T : Holds(catFile, T)

(* Steps that change neither the catalogue nor the tables.                 *)
LEMMA CatalogStays ==
  ASSUME CatalogInv, cat' = cat, tableLoc' = tableLoc, catFile' = catFile, orderly' => orderly,
         pc # "write" \/ catFile # << >>, Loaded' => Loaded, pc' # "walk"
  PROVE  CatalogInv'
  BY DEF CatalogInv

LEMMA CatalogLoad == IInv /\ CatalogInv /\ Load => CatalogInv'
  <1> SUFFICES ASSUME IInv, CatalogInv, Load, orderly' PROVE CatalogInv'
    BY DEF CatalogInv
  <1>1. orderly /\ catFile' = catFile
    BY DEF Load, LoadSkip, LoadNoFile, LoadCatalog, LoadRecord, LoadDone, history, fileVars
  <1>2. /\ Natural(cat)
        /\ Loaded => Holds(cat, DOMAIN tableLoc)
        /\ pc = "walk" => Reading(cat, at, DOMAIN tableLoc)
        /\ pc # "write" => catFile = NoFile \/ \E T : Holds(catFile, T)
    BY <1>1 DEF CatalogInv
  <1>3. pc \in {"load", "walk"} /\ pc' \in {"exec", "walk"}
    BY DEF Load, LoadSkip, LoadNoFile, LoadCatalog, LoadRecord, LoadDone
  <1>4. SUFFICES /\ Natural(cat')
                 /\ pc' = "exec" => Holds(cat', DOMAIN tableLoc')
                 /\ pc' = "walk" => Reading(cat', at', DOMAIN tableLoc')
    BY <1>1, <1>2, <1>3 DEF CatalogInv, Loaded
  <1>5. CASE LoadSkip
    BY <1>2, <1>5 DEF LoadSkip, Loaded, memVars
  <1>6. CASE LoadNoFile
    <2>1. /\ cat' = Put(cat, 0, IntCell(FirstRecord)) /\ tableLoc' = tableLoc
          /\ DOMAIN tableLoc = {} /\ pc' = "exec"
      BY <1>6 DEF LoadNoFile
    <2>2. FirstRecord \in Nat
      BY DEF FirstRecord
    <2>3. Natural(cat')
      BY <1>2, <2>1, <2>2, NaturalFacts
    <2>4. Fin(cat') = FirstRecord
      BY <2>1, PutIntReads DEF Fin
    <2>5. Intact(cat', {}) /\ NamesOf(cat', {}) = {} /\ Fits(cat', {})
      BY <2>3, <2>4, IntactEmpty DEF Fits
    <2>6. QED
      BY <2>1, <2>3, <2>5 DEF Holds
  <1>7. CASE LoadCatalog
    <2>1. /\ cat' = ReadOver(catFile, cat) /\ at' = FirstRecord /\ tableLoc' = tableLoc
          /\ DOMAIN tableLoc = {} /\ pc' = "walk" /\ pc = "load" /\ catFile # NoFile
      BY <1>7 DEF LoadCatalog
    <2>2. PICK T, R : Intact(catFile, R) /\ Fits(catFile, R) /\ NamesOf(catFile, R) = T
      BY <1>2, <2>1 DEF Holds
    <2>3. Intact(cat', R) /\ Fits(cat', R)
      BY <1>2, <2>1, <2>2, IntactReadOver
    <2>4. at' \in Positions(cat', R) /\ {r \in R : r < at'} = {}
      <3>1. /\ FirstRecord \in R \cup {Fin(cat')}
            /\ \A r \in R : r \in Nat /\ FirstRecord <= r
        BY <2>3 DEF Intact, Follows
      <3>2. \A r \in R : ~(r < FirstRecord)
        BY <3>1 DEF FirstRecord
      <3>3. QED
        BY <2>1, <3>1, <3>2 DEF Positions
    <2>5. NamesOf(cat', {}) = {}
      BY DEF NamesOf
    <2>6. QED
      BY <2>1, <2>3, <2>4, <2>5 DEF Reading, Intact
  <1>8. CASE LoadRecord
    <2> DEFINE ref == TextAt(cat, at + IntSize)
    <2>1. /\ pc = "walk" /\ pc' = "walk" /\ cat' = cat /\ at < Fin(cat)
          /\ at' = at + IntAt(cat, at)
          /\ DOMAIN tableLoc' = DOMAIN tableLoc \cup {ref}
      BY <1>8 DEF LoadRecord, Put
    <2>2. PICK R : /\ Intact(cat, R) /\ Fits(cat, R) /\ at \in Positions(cat, R)
                   /\ DOMAIN tableLoc = NamesOf(cat, {r \in R : r < at})
      BY <1>2, <2>1 DEF Reading
    <2>3. at \in R /\ at \in Nat
      BY <2>1, <2>2, RecordFacts DEF Positions
    <2>4. at' = After(cat, at) /\ at' \in Positions(cat, R) /\ ref = NameAt(cat, at)
      BY <2>1, <2>2, <2>3 DEF After, Intact, Follows, Positions, NameAt
    <2>5. {r \in R : r < at'} = {r \in R : r < at} \cup {at}
      <3>1. /\ at' \in Nat /\ at < at'
            /\ \A r \in R : r \in Nat /\ (at < r => at' <= r)
        BY <2>2, <2>3, <2>4, RecordFacts DEF Intact, Follows
      <3>2. \A r \in R : r < at' <=> r < at \/ r = at
        BY <2>3, <3>1
      <3>3. QED
        BY <2>3, <3>2
    <2>6. NamesOf(cat, {r \in R : r < at'}) = DOMAIN tableLoc'
      BY <2>1, <2>2, <2>4, <2>5 DEF NamesOf
    <2>7. QED
      BY <1>2, <2>1, <2>2, <2>4, <2>6 DEF Reading
  <1>9. CASE LoadDone
    <2>1. /\ pc = "walk" /\ pc' = "exec" /\ cat' = cat /\ tableLoc' = tableLoc
          /\ at >= Fin(cat)
      BY <1>9 DEF LoadDone, memVars
    <2>2. PICK R : /\ Intact(cat, R) /\ Fits(cat, R) /\ at \in Positions(cat, R)
                   /\ DOMAIN tableLoc = NamesOf(cat, {r \in R : r < at})
      BY <1>2, <2>1 DEF Reading
    <2>3. at = Fin(cat)
      BY <2>1, <2>2, RecordFacts DEF Positions
    <2>4. {r \in R : r < at} = R
      BY <2>2, <2>3, RecordFacts
    <2>5. QED
      BY <1>2, <2>1, <2>2, <2>4 DEF Holds
  <1>10. QED
    BY <1>5, <1>6, <1>7, <1>8, <1>9 DEF Load

LEMMA CatalogCreate ==
  ASSUME IInv, CatalogInv, Create, orderly'
  PROVE  Holds(cat', DOMAIN tableLoc')
  <1>1. /\ orderly /\ OrderlyCreate /\ pc = "exec"
        /\ cat' = AddRecord(cat, query.name, query.types)
        /\ tableLoc' = Put(tableLoc, query.name, Cardinality(DOMAIN tableLoc))
    BY DEF Create, Judge, Running
  <1>2. PICK R : Intact(cat, R) /\ Fits(cat, R) /\ NamesOf(cat, R) = DOMAIN tableLoc
    BY <1>1 DEF CatalogInv, Loaded, Holds
  <1>3. /\ query.name \notin NamesOf(cat, R) /\ Cstr[query.name] = query.name
        /\ Fin(cat) + RecordSize(query.types) <= PageWords
    BY <1>1, <1>2 DEF OrderlyCreate, Known
  <1>4. Len(query.types) \in Nat
    <2>1. query \in Query /\ query.kind = "create"
      BY <1>1 DEF Create, Running, IInv, TypeOK
    <2>2. query.types \in Seq(Text)
      BY <2>1, QueryTypes
    <2>3. QED
      BY <2>2
  <1>5. PICK name, types : name = query.name /\ types = query.types
    OBVIOUS
  <1>6. /\ Intact(cat', Longer(cat, R))
        /\ NamesOf(cat', Longer(cat, R)) = NamesOf(cat, R) \cup {name}
        /\ Fin(cat') = Fin(cat) + RecordSize(types)
    <2>1. /\ name \notin NamesOf(cat, R) /\ Cstr[name] = name /\ Len(types) \in Nat
          /\ cat' = AddRecord(cat, name, types)
      BY <1>1, <1>3, <1>4, <1>5
    <2>2. PICK f : f = cat
      OBVIOUS
    <2>3. Intact(f, R) /\ Fresh(f, R, name) /\ Len(types) \in Nat
      BY <1>2, <2>1, <2>2 DEF Fresh
    <2>4. /\ Intact(AddRecord(f, name, types), Longer(f, R))
          /\ NamesOf(AddRecord(f, name, types), Longer(f, R)) = NamesOf(f, R) \cup {name}
          /\ Fin(AddRecord(f, name, types)) = Fin(f) + RecordSize(types)
      BY ONLY <2>3, IntactAdd
    <2>5. QED
      BY <2>1, <2>2, <2>4
  <1>7. DOMAIN tableLoc' = DOMAIN tableLoc \cup {name}
    BY <1>1, <1>5 DEF Put
  <1>8. Fits(cat', Longer(cat, R))
    BY <1>3, <1>5, <1>6 DEF Fits
  <1>9. QED
    BY <1>2, <1>6, <1>7, <1>8 DEF Holds

LEMMA CatalogDrop ==
  ASSUME IInv, CatalogInv, Drop, orderly'
  PROVE  Holds(cat', DOMAIN tableLoc')
  <1>1. /\ orderly /\ OrderlyDrop /\ pc = "exec" /\ Found \in Nat
        /\ cat' = DropRecord(cat, Found)
        /\ DOMAIN tableLoc' = DOMAIN tableLoc \ {query.name}
    BY DEF Drop, Judge, Running, LowerSlots
  <1>2. PICK R : Intact(cat, R) /\ Fits(cat, R) /\ NamesOf(cat, R) = DOMAIN tableLoc
    BY <1>1 DEF CatalogInv, Loaded, Holds
  <1>3. Found \in R /\ NameAt(cat, Found) = query.name
    <2>1. Found # NotFound
      BY <1>1 DEF NotFound
    <2>2. QED
      BY <1>2, <2>1, IntactMatch DEF Found
  <1>4. After(cat, Found) < Fin(cat) => After(cat, After(cat, Found)) >= Fin(cat)
    BY <1>1 DEF OrderlyDrop, After
  <1> DEFINE L == Left(cat, R, Found)
  <1>5. /\ Intact(cat', L) /\ NamesOf(cat', L) = NamesOf(cat, R) \ {query.name}
        /\ Fin(cat') <= Fin(cat)
    BY <1>1, <1>2, <1>3, <1>4, IntactDrop
  <1>6. Fits(cat', L)
    <2>1. Fin(cat) <= PageWords /\ Fin(cat) \in Nat /\ Fin(cat') \in Nat
      BY <1>2, <1>3, <1>5, RecordFacts DEF Fits
    <2>2. QED
      BY <1>5, <2>1, SizeAssumption DEF Fits
  <1>7. QED
    BY <1>1, <1>2, <1>5, <1>6 DEF Holds

LEMMA CatalogGone == CatalogInv /\ ProcessGone /\ pc' \in {"down", "aborted"} => CatalogInv'
  <1> SUFFICES ASSUME CatalogInv, ProcessGone, pc' \in {"down", "aborted"}, orderly'
               PROVE  CatalogInv'
    BY DEF CatalogInv
  <1>1. orderly /\ catFile # << >> /\ catFile' = catFile /\ cat' = << >>
    BY DEF ProcessGone, fileVars
  <1>2. Natural(cat')
    BY <1>1, NaturalFacts
  <1>3. QED
    BY <1>1, <1>2 DEF CatalogInv, Loaded

LEMMA CatalogStep ==
  IInv /\ FlushedSoFar /\ CatalogInv /\ [Next]_vars => CatalogInv'
  <1> SUFFICES ASSUME IInv, FlushedSoFar, CatalogInv, [Next]_vars, orderly'
               PROVE  CatalogInv'
    BY DEF CatalogInv
  <1>1. CASE Receive
    <2>1. /\ cat' = cat /\ tableLoc' = tableLoc /\ catFile' = catFile /\ orderly' = orderly /\ pc = "idle" /\ pc' = "load"
      BY <1>1 DEF Receive, memVars, fileVars, history
    <2>2. QED
      BY <2>1, CatalogStays DEF Loaded
  <1>2. CASE Load
    BY <1>2, CatalogLoad
  <1>3. CASE Create \/ Drop
    <2>1. orderly /\ pc = "exec" /\ pc' = "flush" /\ catFile' = catFile
      BY <1>3 DEF Create, Drop, Judge, Running, Answer, fileVars
    <2>2. Holds(cat', DOMAIN tableLoc')
      BY <1>3, CatalogCreate, CatalogDrop
    <2>3. Natural(cat')
      BY <2>2 DEF Holds, Intact
    <2>4. QED
      BY <2>1, <2>2, <2>3 DEF CatalogInv
  <1>4. CASE \/ InsertRefused \/ InsertRow \/ Select \/ DropUnknown \/ TakeSnap
             \/ ShowSnap \/ Unimplemented \/ Hang
    <2>1. cat' = cat /\ tableLoc' = tableLoc /\ catFile' = catFile /\ orderly' = orderly
      BY <1>4 DEF InsertRefused, InsertRow, Select, DropUnknown, TakeSnap, ShowSnap,
         Unimplemented, Hang, memVars, fileVars, history
    <2>2. pc = "exec" /\ pc' \in {"flush", "hung"}
      BY <1>4 DEF InsertRefused, InsertRow, Select, DropUnknown, TakeSnap, ShowSnap,
         Unimplemented, Hang, Running, Answer
    <2>3. QED
      BY <2>1, <2>2, CatalogStays DEF Loaded
  <1>5. CASE Abort \/ Kill
    BY <1>5, CatalogGone DEF Abort, Kill
  <1>6. CASE FlushOpen
    <2>1. /\ cat' = cat /\ tableLoc' = tableLoc /\ orderly' = orderly /\ pc = "flush" /\ pc' = "write"
          /\ catFile' = IF catFile = NoFile THEN << >> ELSE catFile
      BY <1>6 DEF FlushOpen, memVars, history
    <2>2. QED
      BY <2>1 DEF CatalogInv, Loaded
  <1>7. CASE FlushCatalog
    <2>1. /\ cat' = cat /\ tableLoc' = tableLoc /\ orderly' = orderly /\ pc = "write" /\ pc' = "tables"
          /\ catFile' = Persisted(cat)
      BY <1>7 DEF FlushCatalog, memVars, history
    <2>2. PICK R : Intact(cat, R) /\ Fits(cat, R) /\ NamesOf(cat, R) = DOMAIN tableLoc
      BY <2>1 DEF CatalogInv, Loaded, Holds
    <2>3. Holds(catFile', DOMAIN tableLoc)
      BY <2>1, <2>2, IntactPersisted DEF Holds
    <2>4. QED
      BY <2>1, <2>3 DEF CatalogInv, Loaded
  <1>8. CASE FlushTable \/ FlushDone \/ Reply
    <2>1. /\ cat' = cat /\ tableLoc' = tableLoc /\ catFile' = catFile /\ orderly' = orderly
          /\ pc \in {"tables", "reply"} /\ pc' \in {"tables", "reply", "idle"}
      BY <1>8 DEF FlushTable, FlushDone, Reply, memVars, fileVars, history
    <2>2. QED
      BY <2>1, CatalogStays DEF Loaded
  <1>9. CASE Restart
    <2>1. /\ cat' = cat /\ tableLoc' = tableLoc /\ catFile' = catFile /\ orderly' = orderly
          /\ pc \in {"down", "aborted"} /\ pc' = "idle"
      BY <1>9 DEF Restart, memVars, fileVars, history
    <2>2. DOMAIN tableLoc' = {}
      BY <2>1 DEF FlushedSoFar
    <2>3. QED
      BY <2>1, <2>2, CatalogStays DEF Loaded
  <1>10. CASE UNCHANGED vars
    BY <1>10 DEF vars, memVars, fileVars, history, CatalogInv, Loaded
  <1>11. QED
    BY <1>1, <1>2, <1>3, <1>4, <1>5, <1>6, <1>7, <1>8, <1>9, <1>10
    DEF Next, Serve, Execute, Flush

(* While queries are orderly the records of the catalogue follow each      *)
(* other up to `fin' and name exactly the tables of tableLoc, each once:   *)
(* through any sequence of creations, drops, crashes and reloads.          *)
THEOREM CatalogFollowsTables == Spec => []CatalogConsistent
  <1>1. Init => FlushedSoFar /\ CatalogInv
    <2>1. DOMAIN << >> = {}
      OBVIOUS
    <2>2. QED
      BY <2>1, NaturalFacts DEF Init, FlushedSoFar, CatalogInv, Loaded
  <1>2. CatalogInv => CatalogConsistent
    <2>1. SUFFICES ASSUME CatalogInv, orderly, Loaded
                   PROVE  LET chain   == Chain(cat)
                              records == 1 .. Len(chain) - 1
                              name(i) == TextAt(cat, chain[i] + IntSize)
                          IN  /\ chain[Len(chain)] = Fin(cat)
                              /\ {name(i) : i \in records} = DOMAIN tableLoc
                              /\ \A i, j \in records : name(i) = name(j) => i = j
      BY <2>1 DEF CatalogConsistent
    <2>2. PICK R : Intact(cat, R) /\ NamesOf(cat, R) = DOMAIN tableLoc
      BY <2>1 DEF CatalogInv, Holds
    <2>3. PICK c : c = Chain(cat)
      OBVIOUS
    <2>4. /\ c \in Seq(Nat) /\ Len(c) >= 1 /\ c[Len(c)] = Fin(cat)
          /\ \A i, j \in 1 .. Len(c) : i < j => c[i] < c[j]
          /\ {c[i] : i \in 1 .. Len(c) - 1} = R
      BY <2>2, <2>3, IntactChain, SMTT(30) DEF Through
    <2>5. {TextAt(cat, c[i] + IntSize) : i \in 1 .. Len(c) - 1} = DOMAIN tableLoc
      BY <2>2, <2>4 DEF NamesOf, NameAt
    <2>6. ASSUME NEW i \in 1 .. Len(c) - 1, NEW j \in 1 .. Len(c) - 1,
                 TextAt(cat, c[i] + IntSize) = TextAt(cat, c[j] + IntSize)
          PROVE  i = j
      <3>1. c[i] = c[j]
        BY <2>2, <2>4, <2>6 DEF Intact, Named, NameAt
      <3>2. i \in 1 .. Len(c) /\ j \in 1 .. Len(c) /\ c[i] \in Nat /\ c[j] \in Nat
        <4>1. c \in Seq(Nat)
          BY <2>4
        <4>2. QED
          BY ONLY <4>1, <2>6, SMTT(30)
      <3>3. ~(i < j) /\ ~(j < i)
        <4>1. \A k, m \in 1 .. Len(c) : k < m => c[k] < c[m]
          BY <2>4
        <4>2. QED
          BY ONLY <3>1, <3>2, <4>1
      <3>4. QED
        BY <3>2, <3>3
    <2>7. QED
      BY <2>3, <2>4, <2>5, <2>6
  <1>3. QED
    BY <1>1, <1>2, FlushedStep, CatalogStep, Invariance, PTL DEF Spec

(***************************************************************************)
(* Queries come to their end                                               *)
(***************************************************************************)

(* How far a query has to go: what is left of it, and of the loop it is in.*)
Stage ==
  CASE pc = "load" -> 7 [] pc = "walk" -> 6 [] pc = "exec" -> 5 [] pc = "flush" -> 4
    [] pc = "write" -> 3 [] pc = "tables" -> 2 [] pc = "reply" -> 1 [] OTHER -> 0

Remaining ==
  CASE pc = "walk" -> Fin(cat) - at [] pc = "tables" -> Cardinality(pending) [] OTHER -> 0

Lower ==
  \/ Stage' < Stage
  \/ Stage' = Stage /\ Remaining' \in Nat /\ Remaining \in Nat /\ Remaining' < Remaining

(* The walk for the query's table ends, at a record of a real size or at   *)
(* none.                                                                   *)
NoHang == orderly => pc # "hung" /\ (pc = "exec" => WalkEnds)

(* In a whole catalogue a record is shorter than the array.                *)
LEMMA IntactWalkEnds ==
  ASSUME NEW f, NEW R, Intact(f, R), Fits(f, R), NEW name
  PROVE  LET loc == FirstMatch(f, name)
         IN  /\ loc = NotFound \/ (loc \in R /\ loc \in Nat /\ IntAt(f, loc) < Garbage)
             /\ loc # Endless
  <1> PICK loc : loc = FirstMatch(f, name)
    OBVIOUS
  <1>1. loc = NotFound \/ loc \in R
    BY IntactMatch
  <1>2. ASSUME loc \in R PROVE loc \in Nat /\ IntAt(f, loc) < Garbage
    <2>1. /\ loc \in Nat /\ IntAt(f, loc) \in Nat /\ Fin(f) \in Nat
          /\ loc >= 4 /\ loc + IntAt(f, loc) <= Fin(f)
      BY <1>2, RecordFacts DEF Intact, Follows, After, FirstRecord
    <2>2. Fin(f) <= PageWords
      BY <1>2 DEF Fits
    <2>3. QED
      BY <2>1, <2>2, SizeAssumption DEF Garbage
  <1>3. loc # Endless
    BY <1>1, <1>2 DEF NotFound, Endless
  <1>4. QED
    BY <1>1, <1>2, <1>3

LEMMA WalksEnd == IInv /\ CatalogInv /\ orderly /\ pc = "exec" => WalkEnds /\ Found # Endless
  <1> SUFFICES ASSUME IInv, CatalogInv, orderly, pc = "exec" PROVE WalkEnds /\ Found # Endless
    OBVIOUS
  <1>1. PICK R : Intact(cat, R) /\ Fits(cat, R)
    BY DEF CatalogInv, Loaded, Holds
  <1>2. QED
    BY <1>1, IntactWalkEnds DEF WalkEnds, Found

LEMMA HangStep == IInv /\ CatalogInv /\ NoHang /\ [Next]_vars => (orderly' => pc' # "hung")
  <1> SUFFICES ASSUME IInv, CatalogInv, NoHang, [Next]_vars, orderly', pc' = "hung" PROVE FALSE
    OBVIOUS
  <1>1. CASE Hang
    BY <1>1, WalksEnd DEF Hang, history
  <1>2. CASE UNCHANGED vars
    BY <1>2 DEF vars, history, NoHang
  <1>3. QED
    BY <1>1, <1>2
    DEF Next, Receive, Serve, Load, LoadSkip, LoadNoFile, LoadCatalog, LoadRecord, LoadDone,
        Execute, Create, InsertRefused, InsertRow, Select, DropUnknown, Drop, TakeSnap,
        ShowSnap, Unimplemented, Abort, Flush, FlushOpen, FlushCatalog, FlushTable, FlushDone,
        Reply, Kill, Restart, Answer

(* While queries are orderly no walk is endless, whatever was created,     *)
(* dropped and read back after crashes: a record of size 0, or a step into *)
(* the middle of a record, is what would stop every client.                *)
THEOREM NeverHangs == Spec => []NoHang
  <1>1. Init => FlushedSoFar /\ CatalogInv /\ NoHang
    <2>1. DOMAIN << >> = {}
      OBVIOUS
    <2>2. QED
      BY <2>1, NaturalFacts DEF Init, FlushedSoFar, CatalogInv, Loaded, NoHang
  <1>2. IInv /\ FlushedSoFar /\ CatalogInv /\ NoHang /\ IInv' /\ [Next]_vars => NoHang'
    <2>1. ASSUME IInv, FlushedSoFar, CatalogInv, NoHang, IInv', [Next]_vars PROVE NoHang'
      <3>1. orderly' => pc' # "hung"
        BY <2>1, HangStep
      <3>2. IInv' /\ CatalogInv'
        BY <2>1, CatalogStep
      <3>3. (orderly /\ pc = "exec" => WalkEnds)'
        BY <3>2, WalksEnd, PTL
      <3>4. QED
        BY <3>1, <3>3 DEF NoHang
    <2>2. QED
      BY <2>1
  <1>3. QED
    BY <1>1, <1>2, FlushedStep, CatalogStep, Invariance, PTL DEF Spec

LEMMA LoadLowers == IInv /\ CatalogInv /\ orderly /\ Load => Lower
  <1> SUFFICES ASSUME IInv, CatalogInv, orderly, Load PROVE Lower
    OBVIOUS
  <1>1. CASE LoadSkip \/ LoadNoFile \/ LoadCatalog \/ LoadDone
    <2>1. \/ pc = "load" /\ pc' \in {"exec", "walk"}
          \/ pc = "walk" /\ pc' = "exec"
      BY <1>1 DEF LoadSkip, LoadNoFile, LoadCatalog, LoadDone
    <2>2. QED
      BY <2>1 DEF Lower, Stage
  <1>2. CASE LoadRecord
    <2>1. /\ pc = "walk" /\ pc' = "walk" /\ cat' = cat /\ at < Fin(cat)
          /\ at' = at + IntAt(cat, at)
      BY <1>2 DEF LoadRecord
    <2>2. PICK R : Intact(cat, R) /\ at \in Positions(cat, R)
      BY <2>1 DEF CatalogInv, Reading
    <2>3. at \in R
      BY <2>1, <2>2, RecordFacts DEF Positions
    <2>4. /\ at \in Nat /\ Fin(cat) \in Nat /\ at < at' /\ at' \in Nat /\ at' <= Fin(cat)
      BY <2>1, <2>2, <2>3, RecordFacts DEF After, Intact, Follows
    <2>5. Remaining = Fin(cat) - at /\ Remaining' = Fin(cat) - at'
      BY <2>1 DEF Remaining
    <2>6. Stage' = Stage
      BY <2>1 DEF Stage
    <2>7. QED
      BY <2>4, <2>5, <2>6 DEF Lower
  <1>3. QED
    BY <1>1, <1>2 DEF Load

LEMMA FlushLowers == IInv /\ (Flush \/ Reply) => Lower
  <1> SUFFICES ASSUME IInv, Flush \/ Reply PROVE Lower
    OBVIOUS
  <1>1. CASE FlushOpen \/ FlushCatalog \/ FlushDone \/ Reply
    <2>1. \/ pc = "flush" /\ pc' = "write"
          \/ pc = "write" /\ pc' = "tables"
          \/ pc = "tables" /\ pc' = "reply"
          \/ pc = "reply" /\ pc' = "idle"
      BY <1>1 DEF FlushOpen, FlushCatalog, FlushDone, Reply
    <2>2. QED
      BY <2>1 DEF Lower, Stage
  <1>2. CASE FlushTable
    <2>1. pc = "tables" /\ pc' = "tables" /\ \E n \in pending : pending' = pending \ {n}
      BY <1>2 DEF FlushTable
    <2>2. IsFiniteSet(pending)
      <3>1. pending \subseteq Text
        BY <2>1 DEF IInv, TypeOK
      <3>2. QED
        BY <3>1, DiskAssumption, FS_Subset
    <2>3. PICK n \in pending : pending' = pending \ {n}
      BY <2>1
    <2>4. /\ Cardinality(pending) \in Nat /\ Cardinality(pending') \in Nat
          /\ Cardinality(pending') = Cardinality(pending) - 1
      BY <2>2, <2>3, FS_RemoveElement, FS_CardinalityType
    <2>5. /\ Remaining = Cardinality(pending) /\ Remaining' = Cardinality(pending')
          /\ Stage' = Stage
      BY <2>1 DEF Remaining, Stage
    <2>6. QED
      BY <2>4, <2>5 DEF Lower
  <1>3. QED
    BY <1>1, <1>2 DEF Flush

(* A query is over after a bounded number of steps: each of them passes to *)
(* a later stage, or leaves less to do of a loop.  What `Answered' adds is *)
(* that the steps are taken.                                               *)
THEOREM QueriesAdvance == Spec => [][orderly /\ query # NoQuery => Lower]_vars
  <1>1. Init => FlushedSoFar /\ CatalogInv
    <2>1. DOMAIN << >> = {}
      OBVIOUS
    <2>2. QED
      BY <2>1, NaturalFacts DEF Init, FlushedSoFar, CatalogInv, Loaded
  <1>2. IInv /\ CatalogInv /\ NoHang /\ [Next]_vars => [orderly /\ query # NoQuery => Lower]_vars
    <2>1. SUFFICES ASSUME IInv, CatalogInv, NoHang, Next, orderly, query # NoQuery PROVE Lower
      BY <2>1
    <2>2. pc \notin {"idle", "down", "aborted", "hung"}
      BY <2>1 DEF IInv, TypeOK, NoHang
    <2>3. CASE Load
      BY <2>1, <2>3, LoadLowers
    <2>4. CASE Execute
      <3>1. pc = "exec"
        BY <2>4, ZenonT(60) DEF Execute, Create, InsertRefused, InsertRow, Select, DropUnknown, Drop,
           TakeSnap, ShowSnap, Unimplemented, Hang, Abort, Aborts, Running
      <3>2. pc' \in {"flush", "hung", "aborted"}
        BY <2>4, ZenonT(60) DEF Execute, Create, InsertRefused, InsertRow, Select, DropUnknown, Drop,
           TakeSnap, ShowSnap, Unimplemented, Hang, Abort, Answer
      <3>3. QED
        BY <3>1, <3>2 DEF Lower, Stage
    <2>5. CASE Flush \/ Reply
      BY <2>1, <2>5, FlushLowers
    <2>6. CASE Kill
      <3>1. pc' = "down" /\ pc \in {"load", "walk", "exec", "flush", "write", "tables", "reply"}
        BY <2>1, <2>2, <2>6 DEF Kill, IInv, TypeOK
      <3>2. QED
        BY <3>1 DEF Lower, Stage
    <2>7. QED
      BY <2>1, <2>2, <2>3, <2>4, <2>5, <2>6 DEF Next, Serve, Receive, Restart
  <1>3. QED
    BY <1>1, <1>2, NeverHangs, FlushedStep, CatalogStep, Invariance, PTL DEF Spec

(***************************************************************************)
(* When all tables have equally many columns the server does not abort     *)
(***************************************************************************)

(* The positions at which records of n columns stand.                      *)
Size(n) == 2 * StrSize * n + IntSize + StrSize
OnGrid(n, p) == \E k \in Nat : p = FirstRecord + Size(n) * k

(* Where a record could stand there is a size or nothing, never a text.    *)
Grid(f, n) == \A p \in Nat : OnGrid(n, p) => IntAt(f, p) \in {0, Size(n)}

GridInv(n) ==
  orderly => Grid(cat, n) /\ (catFile = NoFile \/ Grid(catFile, n))

LEMMA GridFacts ==
  ASSUME NEW n \in Nat
  PROVE  /\ Size(n) \in Nat /\ Size(n) >= IntSize + StrSize
         /\ OnGrid(n, FirstRecord)
         /\ \A p : OnGrid(n, p) => p \in Nat /\ p >= FirstRecord /\ OnGrid(n, p + Size(n))
         /\ \A p, q : OnGrid(n, p) /\ OnGrid(n, q) /\ p < q => p + Size(n) <= q
  <1>1. Size(n) \in Nat /\ Size(n) >= IntSize + StrSize
    BY DEF Size, IntSize, StrSize
  <1> PICK s \in Nat : s = Size(n)
    BY <1>1
  <1>2. \A p : OnGrid(n, p) <=> \E k \in Nat : p = 4 + s * k
    BY DEF OnGrid, FirstRecord
  <1>3. OnGrid(n, FirstRecord)
    <2>1. FirstRecord = 4 + s * 0
      BY DEF FirstRecord
    <2>2. QED
      BY <1>2, <2>1
  <1>4. ASSUME NEW p, OnGrid(n, p)
        PROVE  p \in Nat /\ p >= FirstRecord /\ OnGrid(n, p + Size(n))
    <2>1. PICK k \in Nat : p = 4 + s * k
      BY <1>2, <1>4
    <2>2. s * k \in Nat /\ s * (k + 1) = s * k + s
      OBVIOUS
    <2>3. p + s = 4 + s * (k + 1)
      BY <2>1, <2>2
    <2>4. QED
      BY <1>2, <2>1, <2>2, <2>3 DEF FirstRecord
  <1>5. ASSUME NEW p, NEW q, OnGrid(n, p), OnGrid(n, q), p < q PROVE p + Size(n) <= q
    <2>1. PICK k \in Nat : p = 4 + s * k
      BY <1>2, <1>5
    <2>2. PICK j \in Nat : q = 4 + s * j
      BY <1>2, <1>5
    <2>3. s * k \in Nat /\ s * j \in Nat
      OBVIOUS
    <2>4. k < j
      <3>1. ASSUME j <= k PROVE FALSE
        <4>1. PICK d \in Nat : k = j + d
          BY <3>1
        <4>2. s * k = s * j + s * d /\ s * d \in Nat
          BY <4>1
        <4>3. QED
          BY <1>5, <2>1, <2>2, <2>3, <4>2
      <3>2. QED
        BY <3>1
    <2>5. PICK d \in Nat : j = k + 1 + d
      <3>1. j - k - 1 \in Nat /\ j = k + 1 + (j - k - 1)
        BY <2>4
      <3>2. QED
        BY <3>1
    <2>6. s * j = s * k + s + s * d /\ s * d \in Nat
      BY <2>5
    <2>7. QED
      BY <2>1, <2>2, <2>3, <2>6
  <1>6. QED
    BY <1>1, <1>3, <1>4, <1>5

(* Records of one size stand on the grid.                                  *)
LEMMA RecordsOnGrid ==
  ASSUME NEW f, NEW R, Intact(f, R), NEW n \in Nat, Grid(f, n)
  PROVE  /\ OnGrid(n, Fin(f))
         /\ \A r \in R : OnGrid(n, r) /\ IntAt(f, r) = Size(n)
  <1> DEFINE A == {loc \in Positions(f, R) :
                     OnGrid(n, loc) => \A q \in Positions(f, R) : q >= loc => OnGrid(n, q)}
  <1>0. Fin(f) \in Nat /\ \A r \in R : r \in Nat /\ r < Fin(f)
    BY RecordFacts
  <1>1. Fin(f) \in A
    BY <1>0 DEF Positions
  <1>2. ASSUME NEW r \in R, OnGrid(n, r)
        PROVE  IntAt(f, r) = Size(n) /\ OnGrid(n, After(f, r))
    <2>1. IntAt(f, r) # 0 /\ r \in Nat
      BY RecordFacts DEF IntSize, StrSize
    <2>2. IntAt(f, r) = Size(n)
      BY <1>2, <2>1 DEF Grid
    <2>3. QED
      BY <1>2, <2>2, GridFacts DEF After
  <1>3. ASSUME NEW r \in R, After(f, r) \in A PROVE r \in A
    <2>1. SUFFICES ASSUME OnGrid(n, r), NEW q \in Positions(f, R), q >= r PROVE OnGrid(n, q)
      BY DEF Positions
    <2>2. q = r \/ q >= After(f, r)
      <3>1. CASE q \in R
        BY <1>0, <2>1, <3>1, RecordFacts DEF Intact, Follows
      <3>2. CASE q = Fin(f)
        BY <3>2 DEF Intact, Follows
      <3>3. QED
        BY <2>1, <3>1, <3>2 DEF Positions
    <2>3. OnGrid(n, After(f, r))
      BY <1>2, <2>1
    <2>4. QED
      BY <1>3, <2>1, <2>2, <2>3
  <1>4. Positions(f, R) \subseteq A
    <2> HIDE DEF A
    <2>1. QED
      BY <1>1, <1>3, RecordInduction
  <1>5. FirstRecord \in Positions(f, R) /\ \A q \in Positions(f, R) : q >= FirstRecord
    BY DEF Intact, Follows, Positions
  <1>6. \A q \in Positions(f, R) : OnGrid(n, q)
    BY <1>4, <1>5, GridFacts
  <1>7. QED
    BY <1>2, <1>6 DEF Positions

(* What is read where nothing is written.                                  *)
LEMMA AddRecordKeeps ==
  ASSUME NEW f, NEW name, NEW types, NEW n \in Nat, NEW p \in Nat, Len(types) = n,
         Fin(f) \in Nat, p # 0, p < Fin(f) \/ p >= Fin(f) + Size(n)
  PROVE  IntAt(AddRecord(f, name, types), p) = IntAt(f, p)
  <1> DEFINE x == Fin(f)
             D == {x + IntSize + StrSize * k : k \in 1 .. 2 * Len(types)}
             col(q) == (q - x - IntSize) \div StrSize
             cols == [q \in D |-> StrCell(IF col(q) % 2 = 1 THEN ColumnText
                                          ELSE Cstr[types[col(q) \div 2]])]
             laid == Over(cols, f)
             named == Put(laid, x + IntSize, StrCell(Cstr[name]))
             sized == Put(named, x, IntCell(RecordSize(types)))
             g == Put(sized, 0, IntCell(x + RecordSize(types)))
  <1>1. g = AddRecord(f, name, types)
    BY DEF AddRecord
  <1>2. p \notin D /\ p # x /\ p # x + IntSize
    <2>1. \A k \in 1 .. 2 * n : x < x + IntSize + StrSize * k /\ x + IntSize + StrSize * k < x + Size(n)
      BY DEF Size, IntSize, StrSize
    <2>2. ASSUME NEW k \in 1 .. 2 * n PROVE p # x + IntSize + StrSize * k
      <3>1. PICK y : y = x + IntSize + StrSize * k
        OBVIOUS
      <3>2. x < y /\ y < x + Size(n) /\ y \in Nat /\ x \in Nat /\ Size(n) \in Nat
        BY <2>1, <3>1 DEF Size, IntSize, StrSize
      <3>3. QED
        BY <3>1, <3>2
    <2>3. p # x /\ p # x + IntSize
      BY DEF Size, IntSize, StrSize
    <2>4. QED
      BY <2>2, <2>3
  <1>3. IntAt(laid, p) = IntAt(f, p)
    <2>1. DOMAIN cols = D
      OBVIOUS
    <2> HIDE DEF cols, D
    <2>2. QED
      BY <1>2, <2>1, OverReads
  <1> HIDE DEF laid, x
  <1>4. IntAt(named, p) = IntAt(laid, p)
    BY <1>2, PutTextReads
  <1> HIDE DEF named
  <1>5. IntAt(sized, p) = IntAt(named, p)
    BY <1>2, PutIntReads
  <1> HIDE DEF sized
  <1>6. IntAt(g, p) = IntAt(sized, p)
    BY PutIntReads
  <1>7. QED
    BY <1>1, <1>3, <1>4, <1>5, <1>6

LEMMA DropRecordKeeps ==
  ASSUME NEW f, NEW loc \in Nat, NEW n \in Nat, NEW p \in Nat,
         NextSize(f, loc) \in {0, Size(n)}, p # 0, p < loc \/ p >= loc + Size(n)
  PROVE  IntAt(DropRecord(f, loc), p) = IntAt(f, p)
  <1> DEFINE l == IntAt(f, loc)
             s == NextSize(f, loc)
             D == {loc + IntSize + StrSize * i : i \in 0 .. (s \div StrSize) - 1}
             moved == [q \in D |-> StrCell(Cstr[TextAt(f, q + l)])]
             laid == Over(moved, f)
             sized == Put(laid, loc, IntCell(s))
             g == Put(sized, 0, IntCell(Fin(f) - l))
  <1>1. g = DropRecord(f, loc)
    BY DEF DropRecord
  <1>2. p \notin D /\ p # loc
    <2>1. (s \div StrSize) - 1 \in {-1, 2 * n}
      <3>1. CASE s = 0
        BY <3>1 DEF StrSize
      <3>2. CASE s = Size(n)
        BY <3>2 DEF Size, StrSize, IntSize
      <3>3. QED
        BY <3>1, <3>2
    <2>2. \A i \in 0 .. 2 * n :
             loc < loc + IntSize + StrSize * i /\ loc + IntSize + StrSize * i < loc + Size(n)
      BY DEF Size, IntSize, StrSize
    <2>3. \A i \in 0 .. (s \div StrSize) - 1 : i \in 0 .. 2 * n
      BY <2>1
    <2>4. ASSUME NEW i \in 0 .. 2 * n PROVE p # loc + IntSize + StrSize * i
      <3>1. PICK y : y = loc + IntSize + StrSize * i
        OBVIOUS
      <3>2. loc < y /\ y < loc + Size(n) /\ y \in Nat /\ Size(n) \in Nat
        BY <2>2, <3>1 DEF Size, IntSize, StrSize
      <3>3. QED
        BY <3>1, <3>2
    <2>5. p # loc
      BY DEF Size, IntSize, StrSize
    <2> HIDE DEF s
    <2>6. QED
      BY <2>3, <2>4, <2>5
  <1>3. IntAt(laid, p) = IntAt(f, p)
    <2>1. DOMAIN moved = D
      OBVIOUS
    <2> HIDE DEF moved, D
    <2>2. QED
      BY <1>2, <2>1, OverReads
  <1> HIDE DEF laid, l, s
  <1>4. IntAt(sized, p) = IntAt(laid, p)
    BY <1>2, PutIntReads
  <1> HIDE DEF sized
  <1>5. IntAt(g, p) = IntAt(sized, p)
    BY PutIntReads
  <1>6. QED
    BY <1>1, <1>3, <1>4, <1>5

(* The operations keep the grid.                                           *)
LEMMA GridAdd ==
  ASSUME NEW f, NEW R, Intact(f, R), NEW name, NEW types, NEW n \in Nat, Len(types) = n, Grid(f, n)
  PROVE  Grid(AddRecord(f, name, types), n)
  <1>1. Natural(f) /\ Fin(f) \in Nat /\ Fin(f) >= FirstRecord /\ OnGrid(n, Fin(f))
    BY RecordFacts, RecordsOnGrid DEF Intact, Follows
  <1>2. RecordSize(types) = Size(n)
    BY DEF RecordSize, Size
  <1> PICK g : g = AddRecord(f, name, types)
    OBVIOUS
  <1>3. IntAt(g, Fin(f)) = Size(n)
    BY <1>1, <1>2, AddRecordReads
  <1>4. ASSUME NEW p \in Nat, OnGrid(n, p) PROVE IntAt(g, p) \in {0, Size(n)}
    <2>1. CASE p = Fin(f)
      BY <1>3, <2>1
    <2>2. CASE p # Fin(f)
      <3>1. p # 0 /\ (p < Fin(f) \/ p >= Fin(f) + Size(n))
        <4>1. p >= FirstRecord
          BY <1>4, GridFacts
        <4>2. Fin(f) < p => Fin(f) + Size(n) <= p
          BY <1>1, <1>4, GridFacts
        <4>3. Fin(f) \in Nat /\ Size(n) \in Nat
          BY <1>1, GridFacts
        <4>4. QED
          BY <2>2, <4>1, <4>2, <4>3 DEF FirstRecord
      <3>2. IntAt(g, p) = IntAt(f, p)
        <4>1. Fin(f) \in Nat
          BY <1>1
        <4>2. IntAt(AddRecord(f, name, types), p) = IntAt(f, p)
          BY ONLY Len(types) = n, n \in Nat, p \in Nat, <3>1, <4>1, AddRecordKeeps
        <4>3. QED
          BY <4>2
      <3>3. QED
        BY <1>4, <3>2 DEF Grid
    <2>3. QED
      BY <2>1, <2>2
  <1>5. QED
    BY <1>4 DEF Grid

LEMMA GridDrop ==
  ASSUME NEW f, NEW R, Intact(f, R), NEW loc \in R, NEW n \in Nat, Grid(f, n)
  PROVE  Grid(DropRecord(f, loc), n)
  <1>1. /\ Natural(f) /\ loc \in Nat /\ loc >= FirstRecord /\ OnGrid(n, loc) /\ IntAt(f, loc) = Size(n)
        /\ Fin(f) \in Nat /\ loc + Size(n) <= Fin(f)
    <2>1. Natural(f) /\ loc >= FirstRecord /\ After(f, loc) <= Fin(f)
      BY SMTT(30) DEF Intact, Follows
    <2>2. loc \in Nat /\ Fin(f) \in Nat
      BY RecordFacts, SMTT(30)
    <2>3. OnGrid(n, loc) /\ IntAt(f, loc) = Size(n)
      BY RecordsOnGrid, ZenonT(30)
    <2>4. loc + Size(n) <= Fin(f)
      BY <2>1, <2>3 DEF After
    <2>5. QED
      BY <2>1, <2>2, <2>3, <2>4
  <1>2. NextSize(f, loc) \in {0, Size(n)}
    BY <1>1, GridFacts DEF NextSize, Grid
  <1> PICK g : g = DropRecord(f, loc)
    OBVIOUS
  <1>3. IntAt(g, loc) = NextSize(f, loc)
    <2>1. Fin(f) >= IntAt(f, loc)
      BY <1>1, GridFacts
    <2>2. QED
      BY <1>1, <2>1, DropRecordReads
  <1>4. ASSUME NEW p \in Nat, OnGrid(n, p) PROVE IntAt(g, p) \in {0, Size(n)}
    <2>1. CASE p = loc
      BY <1>2, <1>3, <2>1
    <2>2. CASE p # loc
      <3>1. p # 0 /\ (p < loc \/ p >= loc + Size(n))
        <4>1. p >= FirstRecord
          BY <1>4, GridFacts
        <4>2. loc < p => loc + Size(n) <= p
          BY <1>1, <1>4, GridFacts
        <4>3. loc \in Nat /\ Size(n) \in Nat
          BY <1>1, GridFacts
        <4>4. QED
          BY <2>2, <4>1, <4>2, <4>3 DEF FirstRecord
      <3>2. IntAt(g, p) = IntAt(f, p)
        BY <1>1, <1>2, <3>1, DropRecordKeeps
      <3>3. QED
        BY <1>4, <3>2 DEF Grid
    <2>3. QED
      BY <2>1, <2>2
  <1>5. QED
    BY <1>4 DEF Grid

LEMMA GridOthers ==
  ASSUME NEW n \in Nat
  PROVE  /\ Grid(<< >>, n)
         /\ \A f, k : Grid(f, n) => Grid(Put(f, 0, IntCell(k)), n)
         /\ \A f : Grid(f, n) => Grid(Persisted(f), n)
         /\ \A f, file : Grid(f, n) /\ Grid(file, n) => Grid(ReadOver(file, f), n)
  <1>1. Grid(<< >>, n)
    BY NothingReads DEF Grid
  <1>2. ASSUME NEW f, NEW k, Grid(f, n) PROVE Grid(Put(f, 0, IntCell(k)), n)
    <2>1. ASSUME NEW p, OnGrid(n, p) PROVE p # 0
      <3>1. p \in Nat /\ p >= FirstRecord
        BY <2>1, GridFacts
      <3>2. QED
        BY <3>1 DEF FirstRecord
    <2>2. \A p : p # 0 => IntAt(Put(f, 0, IntCell(k)), p) = IntAt(f, p)
      BY PutIntReads
    <2>3. QED
      BY <1>2, <2>1, <2>2 DEF Grid
  <1>3. ASSUME NEW f, NEW S, Grid(f, n) PROVE Grid(Restrict(f, S \cap DOMAIN f), n)
    <2>1. \A p : IntAt(Restrict(f, S \cap DOMAIN f), p) \in {0, IntAt(f, p)}
      BY RestrictReads
    <2>2. QED
      BY <1>3, <2>1 DEF Grid
  <1>4. ASSUME NEW f, Grid(f, n) PROVE Grid(Persisted(f), n)
    <2>1. PICK S : S = {p \in DOMAIN f : p < PageWords}
      OBVIOUS
    <2>2. Persisted(f) = Restrict(f, S \cap DOMAIN f)
      <3>1. S \cap DOMAIN f = S
        BY <2>1
      <3>2. QED
        BY <2>1, <3>1 DEF Persisted
    <2>3. QED
      BY <1>3, <1>4, <2>2
  <1>5. ASSUME NEW f, NEW file, Grid(f, n), Grid(file, n) PROVE Grid(ReadOver(file, f), n)
    <2>1. PICK S : S = {p \in DOMAIN f : p >= PageWords}
      OBVIOUS
    <2>2. PICK rest : rest = Restrict(f, S \cap DOMAIN f)
      OBVIOUS
    <2>3. ReadOver(file, f) = Over(file, rest)
      <3>1. S \cap DOMAIN f = S
        BY <2>1
      <3>2. QED
        BY <2>1, <2>2, <3>1 DEF ReadOver
    <2>4. Grid(rest, n)
      BY <1>3, <1>5, <2>2
    <2>5. \A p : IntAt(Over(file, rest), p) \in {IntAt(file, p), IntAt(rest, p)}
      BY OverReads
    <2>6. QED
      BY <1>5, <2>3, <2>4, <2>5 DEF Grid
  <1>6. QED
    BY <1>1, <1>2, <1>4, <1>5

OneWidth(n) == \A types \in Schemas : Len(types) = n

LEMMA GridStep ==
  ASSUME NEW n \in Nat, OneWidth(n), IInv, CatalogInv, GridInv(n), [Next]_vars
  PROVE  GridInv(n)'
  <1> SUFFICES ASSUME orderly'
               PROVE  Grid(cat', n) /\ (catFile' = NoFile \/ Grid(catFile', n))
    BY DEF GridInv
  <1>1. orderly
    BY ZenonT(60) DEF Next, Receive, Serve, Load, LoadSkip, LoadNoFile, LoadCatalog, LoadRecord, LoadDone,
           Execute, Create, InsertRefused, InsertRow, Select, DropUnknown, Drop, TakeSnap,
           ShowSnap, Unimplemented, Hang, Abort, Flush, FlushOpen, FlushCatalog, FlushTable,
           FlushDone, Reply, Kill, Restart, Judge, ProcessGone, history, vars
  <1>2. Grid(cat, n) /\ (catFile = NoFile \/ Grid(catFile, n))
    BY <1>1 DEF GridInv
  <1>3. CASE LoadNoFile \/ LoadCatalog
    <2>1. /\ catFile' = catFile
          /\ \/ cat' = Put(cat, 0, IntCell(FirstRecord))
             \/ catFile # NoFile /\ cat' = ReadOver(catFile, cat)
      BY <1>3 DEF LoadNoFile, LoadCatalog, fileVars
    <2>2. QED
      BY <1>2, <2>1, GridOthers
  <1>4. CASE Create
    <2>1. /\ pc = "exec" /\ catFile' = catFile /\ cat' = AddRecord(cat, query.name, query.types)
          /\ query \in Query /\ query.kind = "create"
      BY <1>4 DEF Create, Running, fileVars, IInv, TypeOK
    <2>2. PICK name, types : name = query.name /\ types = query.types
      OBVIOUS
    <2>3. Len(types) = n
      <3>1. query.types \in Schemas
        BY <2>1 DEF Query
      <3>2. QED
        BY <2>2, <3>1 DEF OneWidth
    <2>4. PICK R : Intact(cat, R)
      BY <1>1, <2>1 DEF CatalogInv, Loaded, Holds
    <2>5. Grid(AddRecord(cat, name, types), n)
      BY <1>2, <2>3, <2>4, GridAdd
    <2>6. QED
      BY <1>2, <2>1, <2>2, <2>5
  <1>5. CASE Drop
    <2>1. pc = "exec" /\ catFile' = catFile /\ cat' = DropRecord(cat, Found) /\ Found \in Nat
      BY <1>5 DEF Drop, Running
    <2>2. PICK R : Intact(cat, R)
      BY <1>1, <2>1 DEF CatalogInv, Loaded, Holds
    <2>3. Found \in R
      <3>1. Found # NotFound
        BY <2>1 DEF NotFound
      <3>2. QED
        BY <2>2, <3>1, IntactMatch DEF Found
    <2>4. Grid(DropRecord(cat, Found), n)
      BY <1>2, <2>2, <2>3, GridDrop
    <2>5. QED
      BY <1>2, <2>1, <2>4
  <1>6. CASE FlushOpen \/ FlushCatalog
    <2>1. cat' = cat /\ catFile' \in {catFile, << >>, Persisted(cat)}
      BY <1>6 DEF FlushOpen, FlushCatalog, memVars
    <2>2. QED
      BY <1>2, <2>1, GridOthers
  <1>7. CASE Abort \/ Kill
    <2>1. cat' = << >> /\ catFile' = catFile
      BY <1>7 DEF Abort, Kill, ProcessGone, fileVars
    <2>2. QED
      BY <1>2, <2>1, GridOthers
  <1>8. CASE \/ Receive \/ LoadSkip \/ LoadRecord \/ LoadDone \/ InsertRefused \/ InsertRow \/ Select
             \/ DropUnknown \/ TakeSnap \/ ShowSnap \/ Unimplemented \/ Hang \/ FlushTable
             \/ FlushDone \/ Reply \/ Restart \/ UNCHANGED vars
    <2>1. cat' = cat /\ catFile' = catFile
      BY <1>8, ZenonT(60) DEF Receive, LoadSkip, LoadRecord, LoadDone, InsertRefused, InsertRow, Select,
         DropUnknown, TakeSnap, ShowSnap, Unimplemented, Hang, FlushTable, FlushDone, Reply,
         Restart, vars, memVars, fileVars
    <2>2. QED
      BY <1>2, <2>1
  <1>9. QED
    BY <1>3, <1>4, <1>5, <1>6, <1>7, <1>8 DEF Next, Serve, Load, Execute, Flush

BadNumber == Running("insert") /\ ~NumbersOnly(Meta, query.data)

(* When every table has the same number of columns, orderly clients end    *)
(* the process only by a text where a number belongs.  Otherwise a DROP    *)
(* of the last table can, which takes for a size what lies behind the      *)
(* records: the texts of tables that have been dropped.                    *)
THEOREM OnlyNumbersAbort ==
  ASSUME NEW n \in Nat, \A types \in Schemas : Len(types) = n
  PROVE  Spec => [][orderly /\ Abort => BadNumber]_vars
  <1>0. OneWidth(n)
    BY DEF OneWidth
  <1>1. Init => FlushedSoFar /\ CatalogInv /\ GridInv(n)
    <2>1. DOMAIN << >> = {}
      OBVIOUS
    <2>2. QED
      BY <2>1, NaturalFacts, GridOthers
      DEF Init, FlushedSoFar, CatalogInv, Loaded, GridInv
  <1>2. IInv /\ CatalogInv /\ GridInv(n) /\ [Next]_vars => GridInv(n)'
    BY <1>0, GridStep
  <1>3. IInv /\ CatalogInv /\ GridInv(n) /\ [Next]_vars => [orderly /\ Abort => BadNumber]_vars
    <2>1. SUFFICES ASSUME IInv, CatalogInv, GridInv(n), orderly, Abort PROVE BadNumber
      BY <2>1
    <2>2. pc = "exec"
      BY <2>1 DEF Abort, Aborts, Running
    <2>3. PICK R : Intact(cat, R) /\ Fits(cat, R)
      BY <2>1, <2>2 DEF CatalogInv, Loaded, Holds
    <2>4. /\ Found = NotFound \/ (Found \in R /\ Found \in Nat /\ IntAt(cat, Found) < Garbage)
          /\ Grid(cat, n)
      BY <2>1, <2>3, IntactWalkEnds DEF Found, GridInv
    <2>5. CASE Found \in R
      <3>1. OnGrid(n, Found) /\ IntAt(cat, Found) = Size(n) /\ Found \in Nat
        <4>1. Found \in Nat
          BY <2>3, <2>5, RecordFacts
        <4>2. OnGrid(n, Found) /\ IntAt(cat, Found) = Size(n)
          BY <2>3, <2>4, <2>5, RecordsOnGrid
        <4>3. QED
          BY <4>1, <4>2
      <3>2. NextSize(cat, Found) \in {0, Size(n)}
        BY <2>4, <3>1, GridFacts DEF NextSize, Grid
      <3>3. IntAt(cat, Found) < Garbage /\ NextSize(cat, Found) < Garbage
        <4>1. Found # NotFound /\ Garbage \in Nat /\ Garbage > 0
          BY <3>1, SizeAssumption DEF NotFound, Garbage
        <4>2. QED
          BY <2>4, <3>1, <3>2, <4>1
      <3>4. Garbage \in Nat /\ IntAt(cat, Found) \in Nat /\ NextSize(cat, Found) \in Nat
        BY <3>1, <3>2, GridFacts, SizeAssumption DEF Garbage
      <3>5. ~(IntAt(cat, Found) >= Garbage) /\ ~(NextSize(cat, Found) >= Garbage)
        BY <3>3, <3>4
      <3>6. QED
        BY <2>1, <3>5 DEF Abort, Aborts, BadNumber
    <2>6. CASE Found = NotFound
      <3>1. Found \notin Nat
        BY <2>6 DEF NotFound
      <3>2. QED
        BY <2>1, <3>1 DEF Abort, Aborts, BadNumber
    <2>7. QED
      BY <2>4, <2>5, <2>6
  <1>4. QED
    BY <1>1, <1>2, <1>3, FlushedStep, CatalogStep, Invariance, PTL DEF Spec

----------------------------------------------------------------------------
(* Promise                                                                  *)
----------------------------------------------------------------------------

FileLists == IF catFile = NoFile THEN << >> ELSE Listed(catFile)

WholeLists(D) == \A n \in DOMAIN D : WholeTypes(D[n])

SameLists(D, E, S) ==
  \A n \in Names \ S : /\ n \in DOMAIN D <=> n \in DOMAIN E
                       /\ n \in DOMAIN D => D[n] = E[n]

(* The page reads back as it was written, under these types.               *)
Legible(page, types) ==
  /\ page.start = 4
  /\ \A i \in DOMAIN page.rows : page.rows[i].layout = Layout(types)

(* The operation has run, and its effect may not be on file yet.           *)
Answering == pc \in {"flush", "write", "tables", "reply"}
Doubt == IF Answering THEN Whole({"create", "drop"}) ELSE {}

(* What memory knows of the catalogue it knows from load.                  *)
HasRead == Loaded \/ pc = "walk"

ListsInv ==
  orderly => /\ WholeLists(FileLists)
             /\ HasRead => /\ WholeLists(Listed(cat))
                           /\ SameLists(Listed(cat), FileLists, Doubt)

(***************************************************************************)
(* What the catalogue lists, in memory and in the file                     *)
(***************************************************************************)

LEMMA WithoutFacts ==
  ASSUME NEW f, NEW k
  PROVE  /\ DOMAIN Without(f, k) = DOMAIN f \ {k}
         /\ \A x \in DOMAIN f \ {k} : Without(f, k)[x] = f[x]
  BY DEF Without, Restrict

LEMMA LoadedLists ==
  ASSUME CatalogInv, orderly, Loaded
  PROVE  /\ DOMAIN Listed(cat) = DOMAIN tableLoc \cap Names
         /\ Listed(Persisted(cat)) = Listed(cat)
  <1>1. PICK R : Intact(cat, R) /\ Fits(cat, R) /\ NamesOf(cat, R) = DOMAIN tableLoc
    BY DEF CatalogInv, Holds
  <1>2. QED
    BY <1>1, ListedFacts, ListedPersisted

(* One entry more, or one less, on one side.                               *)
LEMMA ListsPut ==
  ASSUME NEW D, NEW E, NEW n, NEW types, WholeLists(D), SameLists(D, E, {}),
         WholeTypes(types)
  PROVE  WholeLists(Put(D, n, types)) /\ SameLists(Put(D, n, types), E, {n})
  <1>1. PICK G : G = Put(D, n, types)
    OBVIOUS
  <1>2. /\ DOMAIN G = DOMAIN D \cup {n} /\ G[n] = types
        /\ \A x \in DOMAIN D : x # n => G[x] = D[x]
    BY <1>1 DEF Put
  <1>3. WholeLists(G)
    BY <1>2 DEF WholeLists
  <1>4. SameLists(G, E, {n})
    BY <1>2 DEF SameLists
  <1>5. QED
    BY <1>1, <1>3, <1>4

LEMMA ListsWithout ==
  ASSUME NEW D, NEW E, NEW n, WholeLists(D), SameLists(D, E, {})
  PROVE  WholeLists(Without(D, n)) /\ SameLists(Without(D, n), E, {n})
  <1>1. PICK G : G = Without(D, n)
    OBVIOUS
  <1>2. DOMAIN G = DOMAIN D \ {n} /\ \A x \in DOMAIN D \ {n} : G[x] = D[x]
    BY <1>1, WithoutFacts
  <1>3. WholeLists(G)
    BY <1>2 DEF WholeLists
  <1>4. SameLists(G, E, {n})
    BY <1>2 DEF SameLists
  <1>5. QED
    BY <1>1, <1>3, <1>4

(* The value that stands for a file that does not exist is not what a file *)
(* can contain.                                                            *)
MissingIsNoContents == ~IsCatalog(NoFile)

(* Once the catalogue is written the file lists what memory lists.         *)
LEMMA WrittenLists ==
  ASSUME MissingIsNoContents, IInv, CatalogInv, orderly, Loaded, catFile = Persisted(cat)
  PROVE  FileLists = Listed(cat)
  <1>1. IsCatalog(Persisted(cat))
    BY RestrictCatalog DEF Persisted, IInv, TypeOK
  <1>2. catFile # NoFile
    BY <1>1 DEF MissingIsNoContents
  <1>3. QED
    BY <1>2, LoadedLists DEF FileLists

LEMMA FileListsSame == ASSUME catFile' = catFile PROVE FileLists' = FileLists
  BY DEF FileLists

LEMMA OpenedLists == FlushOpen => FileLists' = FileLists
  <1> SUFFICES ASSUME FlushOpen PROVE FileLists' = FileLists
    OBVIOUS
  <1>1. catFile' = IF catFile = NoFile THEN << >> ELSE catFile
    BY DEF FlushOpen
  <1>2. CASE catFile # NoFile
    BY <1>1, <1>2 DEF FileLists
  <1>3. CASE catFile = NoFile
    <2>1. Natural(<< >>) /\ Fin(<< >>) = 0
      BY NaturalFacts, NothingReads DEF Fin
    <2>2. Listed(<< >>) = << >>
      BY <2>1, ListedNothing DEF FirstRecord
    <2>3. QED
      BY <1>1, <1>3, <2>2 DEF FileLists
  <1>4. QED
    BY <1>2, <1>3

LEMMA FlushedLists ==
  ASSUME MissingIsNoContents, IInv, CatalogInv, orderly, FlushCatalog
  PROVE  FileLists' = Listed(cat)
  <1>1. catFile' = Persisted(cat) /\ Loaded
    BY DEF FlushCatalog, Loaded
  <1>2. IsCatalog(Persisted(cat))
    BY RestrictCatalog DEF Persisted, IInv, TypeOK
  <1>3. QED
    BY <1>1, <1>2, LoadedLists DEF FileLists, MissingIsNoContents

(* Steps that change neither the catalogue nor its file.                   *)
LEMMA ListsStay ==
  ASSUME ListsInv, orderly, cat' = cat, catFile' = catFile, HasRead' => HasRead,
         Doubt \subseteq Doubt'
  PROVE  ListsInv'
  <1>1. Listed(cat)' = Listed(cat) /\ FileLists' = FileLists
    BY FileListsSame
  <1>2. QED
    BY <1>1 DEF ListsInv, SameLists, WholeLists

LEMMA ListsLoad == IInv /\ CatalogInv /\ ListsInv /\ Load => ListsInv'
  <1> SUFFICES ASSUME IInv, CatalogInv, ListsInv, Load, orderly' PROVE ListsInv'
    BY DEF ListsInv
  <1>1. /\ orderly /\ catFile' = catFile /\ pc \in {"load", "walk"}
        /\ pc' \in {"exec", "walk"}
    BY DEF Load, LoadSkip, LoadNoFile, LoadCatalog, LoadRecord, LoadDone, history, fileVars
  <1>2. Doubt = {} /\ Doubt' = {} /\ FileLists' = FileLists /\ WholeLists(FileLists)
    BY <1>1, FileListsSame DEF Doubt, Answering, ListsInv
  <1>3. CASE LoadSkip \/ LoadRecord \/ LoadDone
    <2>1. cat' = cat /\ HasRead
      BY <1>3 DEF LoadSkip, LoadRecord, LoadDone, memVars, HasRead, Loaded
    <2>2. QED
      BY <1>1, <1>2, <2>1, ListsStay
  <1>4. CASE LoadNoFile
    <2>1. cat' = Put(cat, 0, IntCell(FirstRecord)) /\ catFile = NoFile
      BY <1>4 DEF LoadNoFile
    <2>2. FirstRecord \in Nat
      BY DEF FirstRecord
    <2>3. Natural(cat')
      BY <1>1, <2>1, <2>2, NaturalFacts DEF CatalogInv
    <2>4. Fin(cat') = FirstRecord
      BY <2>1, PutIntReads DEF Fin
    <2>5. Listed(cat') = << >>
      BY <2>2, <2>3, <2>4, ListedNothing DEF FirstRecord
    <2>6. FileLists' = << >>
      BY <1>2, <2>1 DEF FileLists
    <2>7. QED
      BY <1>2, <2>5, <2>6 DEF ListsInv, SameLists
  <1>5. CASE LoadCatalog
    <2>1. cat' = ReadOver(catFile, cat) /\ catFile # NoFile /\ pc = "load"
      BY <1>5 DEF LoadCatalog
    <2>2. PICK R : Intact(catFile, R) /\ Fits(catFile, R)
      BY <1>1, <2>1 DEF CatalogInv, Holds
    <2>3. Listed(cat') = Listed(catFile)
      BY <1>1, <2>1, <2>2, ListedReadOver DEF CatalogInv
    <2>4. FileLists' = Listed(cat')
      BY <1>2, <2>1, <2>3 DEF FileLists
    <2>5. QED
      BY <1>2, <2>4 DEF ListsInv, SameLists
  <1>6. QED
    BY <1>3, <1>4, <1>5 DEF Load

(* A creation adds one entry, under a name and types that are stored whole.*)
LEMMA CreateLists ==
  ASSUME IInv, CatalogInv, Create, orderly'
  PROVE  /\ Listed(cat)' = Put(Listed(cat), query.name, query.types)
         /\ query.name \in Names \ DOMAIN Listed(cat) /\ WholeTypes(query.types)
         /\ query.types \in Seq(Text)
  <1>1. /\ orderly /\ OrderlyCreate /\ pc = "exec"
        /\ cat' = AddRecord(cat, query.name, query.types)
    BY DEF Create, Judge, Running
  <1>2. PICK R : Intact(cat, R) /\ Fits(cat, R) /\ NamesOf(cat, R) = DOMAIN tableLoc
    BY <1>1 DEF CatalogInv, Loaded, Holds
  <1>3. PICK f, name, types : f = cat /\ name = query.name /\ types = query.types
    OBVIOUS
  <1>4. name \in Names /\ types \in Seq(Text)
    <2>1. query \in Query /\ query.kind = "create"
      BY <1>1 DEF Create, Running, IInv, TypeOK
    <2>2. query.types \in Seq(Text)
      BY <2>1, QueryTypes
    <2>3. query.name \in Names
      BY <2>1 DEF Query
    <2>4. QED
      BY <1>3, <2>2, <2>3
  <1>5. Intact(f, R) /\ Fresh(f, R, name) /\ WholeTypes(types)
    BY <1>1, <1>2, <1>3 DEF OrderlyCreate, Known, Fresh, WholeTypes
  <1>6. Listed(AddRecord(f, name, types)) = Put(Listed(f), name, types)
    BY ONLY <1>4, <1>5, ListedAdd
  <1>7. name \notin DOMAIN Listed(f)
    BY <1>5, ListedFacts DEF Fresh
  <1>8. QED
    BY <1>1, <1>3, <1>4, <1>5, <1>6, <1>7

LEMMA DropLists ==
  ASSUME IInv, CatalogInv, ListsInv, Drop, orderly'
  PROVE  Listed(cat)' = Without(Listed(cat), query.name)
  <1>1. /\ orderly /\ OrderlyDrop /\ pc = "exec" /\ Found \in Nat
        /\ cat' = DropRecord(cat, Found)
    BY DEF Drop, Judge, Running
  <1>2. PICK R : Intact(cat, R) /\ Fits(cat, R) /\ NamesOf(cat, R) = DOMAIN tableLoc
    BY <1>1 DEF CatalogInv, Loaded, Holds
  <1>3. Found \in R /\ NameAt(cat, Found) = query.name
    <2>1. Found # NotFound
      BY <1>1 DEF NotFound
    <2>2. QED
      BY <1>2, <2>1, IntactMatch DEF Found
  <1>4. After(cat, Found) < Fin(cat) => After(cat, After(cat, Found)) >= Fin(cat)
    BY <1>1 DEF OrderlyDrop, After
  <1>5. \A n \in DOMAIN Listed(cat) : WholeTypes(Listed(cat)[n])
    BY <1>1 DEF ListsInv, HasRead, Loaded, WholeLists
  <1>6. PICK f, loc : f = cat /\ loc = Found
    OBVIOUS
  <1>7. Listed(DropRecord(f, loc)) = Without(Listed(f), NameAt(f, loc))
    BY <1>2, <1>3, <1>4, <1>5, <1>6, ListedDrop
  <1>8. QED
    BY <1>1, <1>3, <1>6, <1>7

LEMMA ListsExecute == IInv /\ CatalogInv /\ ListsInv /\ Execute => ListsInv'
  <1> SUFFICES ASSUME IInv, CatalogInv, ListsInv, Execute, orderly' PROVE ListsInv'
    BY DEF ListsInv
  <1>1. CASE Create
    <2>1. /\ orderly /\ pc = "exec" /\ pc' = "flush" /\ catFile' = catFile
          /\ query' = query /\ query.kind = "create" /\ query \in Query
      BY <1>1 DEF Create, Judge, Running, Answer, fileVars, IInv, TypeOK
    <2>2. FileLists' = FileLists /\ Doubt = {} /\ Doubt' = {query.name}
      <3>1. query # NoQuery
        BY <2>1, NoneAssumption
      <3>2. QED
        BY <2>1, <3>1, FileListsSame DEF Doubt, Answering, Whole, Busy
    <2>3. /\ WholeLists(FileLists) /\ WholeLists(Listed(cat))
          /\ SameLists(Listed(cat), FileLists, {})
      BY <2>1, <2>2 DEF ListsInv, HasRead, Loaded
    <2>4. /\ Listed(cat)' = Put(Listed(cat), query.name, query.types)
          /\ WholeTypes(query.types)
      BY <1>1, CreateLists
    <2>5. WholeLists(Listed(cat)') /\ SameLists(Listed(cat)', FileLists, {query.name})
      BY <2>3, <2>4, ListsPut
    <2>6. QED
      BY <2>2, <2>3, <2>5 DEF ListsInv
  <1>2. CASE Drop
    <2>1. /\ orderly /\ pc = "exec" /\ pc' = "flush" /\ catFile' = catFile
          /\ query' = query /\ query.kind = "drop" /\ query \in Query
      BY <1>2 DEF Drop, Judge, Running, Answer, IInv, TypeOK
    <2>2. FileLists' = FileLists /\ Doubt = {} /\ Doubt' = {query.name}
      <3>1. query # NoQuery
        BY <2>1, NoneAssumption
      <3>2. QED
        BY <2>1, <3>1, FileListsSame DEF Doubt, Answering, Whole, Busy
    <2>3. /\ WholeLists(FileLists) /\ WholeLists(Listed(cat))
          /\ SameLists(Listed(cat), FileLists, {})
      BY <2>1, <2>2 DEF ListsInv, HasRead, Loaded
    <2>4. Listed(cat)' = Without(Listed(cat), query.name)
      BY <1>2, DropLists
    <2>5. WholeLists(Listed(cat)') /\ SameLists(Listed(cat)', FileLists, {query.name})
      BY <2>3, <2>4, ListsWithout
    <2>6. QED
      BY <2>2, <2>3, <2>5 DEF ListsInv
  <1>3. CASE \/ InsertRefused \/ InsertRow \/ Select \/ DropUnknown \/ TakeSnap
             \/ ShowSnap \/ Unimplemented \/ Hang
    <2>1. cat' = cat /\ catFile' = catFile /\ orderly' = orderly
      BY <1>3 DEF InsertRefused, InsertRow, Select, DropUnknown, TakeSnap, ShowSnap,
         Unimplemented, Hang, memVars, fileVars, history
    <2>2. pc = "exec" /\ pc' \in {"flush", "hung"}
      BY <1>3 DEF InsertRefused, InsertRow, Select, DropUnknown, TakeSnap, ShowSnap,
         Unimplemented, Hang, Running, Answer
    <2>3. Doubt = {} /\ HasRead
      BY <2>2 DEF Doubt, Answering, HasRead, Loaded
    <2>4. QED
      BY <2>1, <2>3, ListsStay
  <1>4. CASE Abort
    <2>1. orderly /\ catFile' = catFile /\ pc' = "aborted"
      BY <1>4 DEF Abort, ProcessGone, fileVars
    <2>2. ~HasRead' /\ FileLists' = FileLists
      BY <2>1, FileListsSame DEF HasRead, Loaded
    <2>3. QED
      BY <2>1, <2>2 DEF ListsInv
  <1>5. QED
    BY <1>1, <1>2, <1>3, <1>4 DEF Execute

LEMMA ListsStep ==
  ASSUME MissingIsNoContents, IInv, FlushedSoFar, CatalogInv, ListsInv,
         [Next]_vars
  PROVE  ListsInv'
  <1> SUFFICES ASSUME orderly' PROVE ListsInv'
    BY DEF ListsInv
  <1>1. CASE Load \/ Execute
    BY <1>1, ListsLoad, ListsExecute
  <1>2. CASE Receive
    <2>1. /\ cat' = cat /\ catFile' = catFile /\ tableLoc' = tableLoc /\ orderly' = orderly
          /\ pc = "idle" /\ pc' = "load"
      BY <1>2 DEF Receive, memVars, fileVars, history
    <2>2. (HasRead' => HasRead) /\ Doubt = {}
      BY <2>1 DEF HasRead, Loaded, Doubt, Answering
    <2>3. QED
      BY <2>1, <2>2, ListsStay
  <1>3. CASE FlushOpen
    <2>1. /\ cat' = cat /\ orderly' = orderly /\ pc = "flush" /\ pc' = "write"
          /\ catFile' = (IF catFile = NoFile THEN << >> ELSE catFile) /\ query' = query
      BY <1>3 DEF FlushOpen, memVars, history
    <2>2. Doubt' = Doubt /\ HasRead
      BY <2>1 DEF Doubt, Answering, Whole, Busy, HasRead, Loaded
    <2>3. FileLists' = FileLists
      BY <1>3, OpenedLists
    <2>4. QED
      BY <2>1, <2>2, <2>3 DEF ListsInv, SameLists, WholeLists
  <1>4. CASE FlushCatalog
    <2>1. /\ cat' = cat /\ orderly' = orderly /\ pc = "write" /\ pc' = "tables"
          /\ catFile' = Persisted(cat)
      BY <1>4 DEF FlushCatalog, memVars, history
    <2>2. Loaded /\ HasRead
      BY <2>1 DEF HasRead, Loaded
    <2>4. FileLists' = Listed(cat)
      BY <1>4, <2>1, FlushedLists
    <2>5. QED
      BY <2>1, <2>2, <2>4 DEF ListsInv, SameLists, WholeLists
  <1>5. CASE FlushTable \/ FlushDone
    <2>1. /\ cat' = cat /\ catFile' = catFile /\ orderly' = orderly /\ query' = query
          /\ pc = "tables" /\ pc' \in {"tables", "reply"}
      BY <1>5 DEF FlushTable, FlushDone, memVars, fileVars, history
    <2>2. Doubt' = Doubt /\ HasRead
      BY <2>1 DEF Doubt, Answering, Whole, Busy, HasRead, Loaded
    <2>3. QED
      BY <2>1, <2>2, ListsStay
  <1>6. CASE Reply
    <2>1. /\ cat' = cat /\ catFile' = catFile /\ orderly' = orderly
          /\ pc = "reply" /\ pc' = "idle"
      BY <1>6 DEF Reply, memVars, fileVars
    <2>2. Loaded /\ HasRead /\ catFile = Persisted(cat)
      BY <2>1 DEF HasRead, Loaded, FlushedSoFar
    <2>3. FileLists = Listed(cat)
      BY <2>1, <2>2, WrittenLists
    <2>4. QED
      BY <2>1, <2>2, <2>3, FileListsSame DEF ListsInv, SameLists, WholeLists
  <1>7. CASE Kill
    <2>1. orderly /\ catFile' = catFile /\ pc' = "down"
      BY <1>7 DEF Kill, ProcessGone, fileVars
    <2>2. ~HasRead' /\ FileLists' = FileLists
      BY <2>1, FileListsSame DEF HasRead, Loaded
    <2>3. QED
      BY <2>1, <2>2 DEF ListsInv
  <1>8. CASE Restart
    <2>1. /\ catFile' = catFile /\ orderly' = orderly /\ tableLoc' = tableLoc
          /\ pc \in {"down", "aborted"} /\ pc' = "idle"
      BY <1>8 DEF Restart, memVars, fileVars, history
    <2>2. ~HasRead' /\ FileLists' = FileLists
      BY <2>1, FileListsSame DEF HasRead, Loaded, FlushedSoFar
    <2>3. QED
      BY <2>1, <2>2 DEF ListsInv
  <1>9. CASE UNCHANGED vars
    <2>1. /\ cat' = cat /\ catFile' = catFile /\ orderly' = orderly /\ pc' = pc
          /\ query' = query /\ tableLoc' = tableLoc
      BY <1>9 DEF vars, memVars, fileVars, history
    <2>2. Doubt' = Doubt /\ HasRead' = HasRead
      BY <2>1 DEF Doubt, Answering, Whole, Busy, HasRead, Loaded
    <2>3. QED
      BY <2>1, <2>2, ListsStay
  <1>10. QED
    BY <1>1, <1>2, <1>3, <1>4, <1>5, <1>6, <1>7, <1>8, <1>9 DEF Next, Serve, Flush

(***************************************************************************)
(* What the client knows of is on file, and memory holds the same, but for *)
(* a row on its way to the file                                            *)
(***************************************************************************)

PageOf(n) == tablePtrs[tableLoc[n]]

RowWaits(n) ==
  /\ Answering /\ pc # "reply" /\ query.kind = "insert" /\ n = query.name
  /\ reply.said = "INSERT SUCCESS" /\ (pc = "tables" => n \in pending)

RowAhead(page, types, data, old) ==
  /\ page = Append1(old, types, data)
  /\ Len(data) = Len(types) /\ NumbersOnly(types, data)

OnDisk(n) ==
  /\ n \in DOMAIN FileLists /\ acked[n].types = FileLists[n]
  /\ n \in DOMAIN files /\ Legible(files[n], FileLists[n])

PageKept(n) ==
  n \in DOMAIN tableLoc =>
    IF RowWaits(n) THEN RowAhead(PageOf(n), FileLists[n], query.data, files[n])
    ELSE PageOf(n) = files[n]

KeptInv ==
  orderly => /\ DOMAIN acked \subseteq Names
             /\ \A n \in DOMAIN acked \ Doubt : OnDisk(n) /\ PageKept(n)

(* What the operation has done, until the reply is sent.                   *)
CreateDone ==
  /\ reply.said = "INSERTED" /\ Known /\ PageOf(query.name) = FreshPage
  /\ query.name \in DOMAIN Listed(cat) /\ Listed(cat)[query.name] = query.types
  /\ query.name \notin DOMAIN acked

DropDone ==
  /\ ~Known
  /\ \/ reply.said = "DROPPED"
     \/ reply.said = "NOT FOUND" /\ query.name \notin DOMAIN acked

InsertDone ==
  IF Known THEN reply.said \in {"INSERT SUCCESS", "!!Incorrectly formatted data!!"}
  ELSE reply.said = "!!Table Not Found!!"

NoSuchTable == Said("!! TABLE DOESN'T EXIST !!!!")

SelectDone ==
  reply = IF Known THEN Shown(View(PageOf(query.name), Meta)) ELSE NoSuchTable

TakeDone ==
  IF Known
  THEN /\ reply.said = "SNAP TAKEN"
       /\ query.name \in DOMAIN snapFiles /\ snapFiles[query.name] = PageOf(query.name)
  ELSE reply.said = "!!Table Not Found!!"

ViewDone == reply = Shown(View(PageIn(snapFiles, query.name), Meta))

OtherDone == reply.said \in {"unwritten", "!! Incorrectly Formatted Query !!"}

AnswerInv ==
  Answering =>
    /\ reply \in Replies
    /\ orderly => /\ query.kind = "create" => CreateDone
                  /\ query.kind = "drop" => DropDone
                  /\ query.kind = "insert" => InsertDone
                  /\ query.kind = "select" => SelectDone
                  /\ query.kind = "take" => TakeDone
                  /\ query.kind = "view" => ViewDone
                  /\ query.kind \in {"update", "delete", "unknown"} => OtherDone

LEMMA ViewType ==
  ASSUME NEW page \in Page, NEW types
  PROVE  View(page, types) \in Seq(Seq(Text)) \cup {Misread}
  <1>1. page.rows \in Seq(Row)
    BY DEF Page
  <1>2. PICK rows : rows = page.rows /\ rows \in Seq(Row)
    BY <1>1
  <1>3. \A i \in DOMAIN rows : rows[i].data \in Seq(Text)
    <2>1. \A i \in DOMAIN rows : rows[i] \in Row
      BY <1>2
    <2>2. QED
      BY <2>1 DEF Row
  <1>4. [i \in DOMAIN rows |-> rows[i].data] \in Seq(Seq(Text))
    <2>1. PICK S : S = Seq(Text)
      OBVIOUS
    <2>2. \A i \in DOMAIN rows : rows[i].data \in S
      BY <1>3, <2>1
    <2>3. Len(rows) \in Nat /\ DOMAIN rows = 1 .. Len(rows)
      BY <1>2
    <2>4. [i \in DOMAIN rows |-> rows[i].data] \in [1 .. Len(rows) -> S]
      BY <2>2, <2>3
    <2>5. \A n \in Nat : \A h \in [1 .. n -> S] : h \in Seq(S)
      OBVIOUS
    <2>6. QED
      BY <2>1, <2>3, <2>4, <2>5
  <1>5. << >> \in Seq(Seq(Text))
    OBVIOUS
  <1>6. QED
    BY <1>2, <1>4, <1>5 DEF View

LEMMA SayingsAre ==
  /\ "INSERTED" \in Sayings /\ "INSERT SUCCESS" \in Sayings
  /\ "!!Incorrectly formatted data!!" \in Sayings /\ "DROPPED" \in Sayings
  /\ "NOT FOUND" \in Sayings /\ "!!Table Not Found!!" \in Sayings
  /\ "!! TABLE DOESN'T EXIST !!!!" \in Sayings /\ "TABLE" \in Sayings
  /\ "SNAP TAKEN" \in Sayings /\ "!! Incorrectly Formatted Query !!" \in Sayings
  /\ "unwritten" \in Sayings
  BY Zenon DEF Sayings

LEMMA ReplyTypes ==
  /\ \A text \in Sayings : Said(text) \in Replies /\ Said(text).said = text
  /\ \A page \in Page : \A types : Shown(View(page, types)) \in Replies
  <1>1. PICK S : S = Seq(Seq(Text)) \cup {Misread}
    OBVIOUS
  <1>2. << >> \in S
    BY <1>1
  <1>3. ASSUME NEW text \in Sayings PROVE Said(text) \in Replies /\ Said(text).said = text
    <2>1. Said(text) \in [said : Sayings, rows : S] /\ Said(text).said = text
      BY <1>2 DEF Said
    <2>2. QED
      BY <1>1, <2>1 DEF Replies
  <1>4. ASSUME NEW page \in Page, NEW types PROVE Shown(View(page, types)) \in Replies
    <2>1. PICK rows, text : rows = View(page, types) /\ text = "TABLE"
      OBVIOUS
    <2>2. rows \in S /\ text \in Sayings
      BY <1>1, <2>1, ViewType, SayingsAre
    <2>3. [said |-> text, rows |-> rows] \in [said : Sayings, rows : S]
      BY <2>2
    <2>4. QED
      BY <1>1, <2>1, <2>3 DEF Replies, Shown
  <1>5. QED
    BY <1>3, <1>4

(* In memory, as on file, a table the client knows of.                     *)
LEMMA AckedKnown ==
  ASSUME CatalogInv, ListsInv, KeptInv, orderly, Loaded, NEW n \in DOMAIN acked \ Doubt
  PROVE  /\ n \in Names /\ n \in DOMAIN tableLoc /\ n # NoText
         /\ n \in DOMAIN Listed(cat) /\ Listed(cat)[n] = FileLists[n]
  <1>1. n \in Names /\ n \in DOMAIN FileLists
    BY DEF KeptInv, OnDisk
  <1>2. n \in DOMAIN Listed(cat) /\ Listed(cat)[n] = FileLists[n]
    BY <1>1 DEF ListsInv, HasRead, SameLists
  <1>3. n \in DOMAIN tableLoc
    BY <1>2, LoadedLists
  <1>4. n # NoText
    BY <1>1, TextAssumption
  <1>5. QED
    BY <1>1, <1>2, <1>3, <1>4

LEMMA FoundLists ==
  ASSUME CatalogInv, orderly, Loaded, query.name \in Names
  PROVE  /\ Found = NotFound => ~Known
         /\ query.name \in DOMAIN Listed(cat) => Meta = Listed(cat)[query.name]
  <1>1. Found = NotFound => query.name \notin DOMAIN Listed(cat)
    BY DEF Found, Listed
  <1>2. QED
    BY <1>1, LoadedLists DEF Known, Meta, Found, Listed

(***************************************************************************)
(* The operations do what they answer                                      *)
(***************************************************************************)

LEMMA AnswerStays ==
  ASSUME AnswerInv, Answering,
         cat' = cat, tableLoc' = tableLoc, tablePtrs' = tablePtrs,
         snapFiles' = snapFiles, query' = query, reply' = reply, acked' = acked,
         orderly' = orderly
  PROVE  AnswerInv'
  <1>1. reply' \in Replies
    BY DEF AnswerInv
  <1>2. /\ CreateDone' = CreateDone /\ DropDone' = DropDone /\ InsertDone' = InsertDone
        /\ TakeDone' = TakeDone /\ OtherDone' = OtherDone
    BY DEF CreateDone, DropDone, InsertDone, TakeDone, OtherDone, Known, PageOf
  <1>3. SelectDone' = SelectDone /\ ViewDone' = ViewDone
    BY Zenon DEF SelectDone, ViewDone, Known, PageOf, Meta, Found
  <1>4. QED
    BY <1>1, <1>2, <1>3 DEF AnswerInv

LEMMA CreateAnswers ==
  ASSUME IInv, CatalogInv, ListsInv, KeptInv, Create
  PROVE  reply' \in Replies /\ (orderly' => CreateDone') /\ query'.kind = "create"
  <1>1. reply' = Said("INSERTED") /\ query' = query /\ query.kind = "create" /\ pc = "exec"
    BY DEF Create, Answer, Running
  <1>2. reply' \in Replies /\ reply'.said = "INSERTED"
    BY <1>1, ReplyTypes, SayingsAre
  <1>3. ASSUME orderly' PROVE CreateDone'
    <2> DEFINE ls == Cardinality(DOMAIN tableLoc)
    <2>1. /\ orderly /\ acked' = acked /\ ~Known
          /\ tableLoc' = Put(tableLoc, query.name, ls)
          /\ tablePtrs' = [tablePtrs EXCEPT ![ls] = FreshPage]
      BY <1>3 DEF Create, Judge, OrderlyCreate
    <2>2. ls \in Slots /\ DOMAIN tablePtrs = Slots
      BY NextSlot DEF IInv, TypeOK
    <2>3. query.name \in DOMAIN tableLoc' /\ tableLoc'[query.name] = ls
      BY <2>1 DEF Put
    <2>4. Known' /\ PageOf(query.name)' = FreshPage
      BY <1>1, <2>1, <2>2, <2>3 DEF Known, PageOf
    <2>5. query.name \notin DOMAIN acked
      BY <1>1, <2>1, AckedKnown DEF Doubt, Answering, Loaded, Known
    <2>6. Listed(cat)' = Put(Listed(cat), query.name, query.types)
      BY <1>3, CreateLists
    <2>7. query.name \in DOMAIN Listed(cat)' /\ Listed(cat)'[query.name] = query.types
      BY <2>6 DEF Put
    <2>8. QED
      BY <1>1, <1>2, <2>1, <2>4, <2>5, <2>7 DEF CreateDone
  <1>4. QED
    BY <1>1, <1>2, <1>3

LEMMA DropAnswers ==
  ASSUME IInv, CatalogInv, ListsInv, KeptInv, Drop \/ DropUnknown
  PROVE  reply' \in Replies /\ (orderly' => DropDone') /\ query'.kind = "drop"
  <1>1. /\ query' = query /\ query.kind = "drop" /\ pc = "exec" /\ query.name \in Names
        /\ reply' \in {Said("DROPPED"), Said("NOT FOUND")}
    BY DEF Drop, DropUnknown, Answer, Running, IInv, TypeOK, Query
  <1>2. reply' \in Replies
    BY <1>1, ReplyTypes, SayingsAre
  <1>3. ASSUME orderly', Drop PROVE DropDone'
    <2>1. reply' = Said("DROPPED") /\ query.name \notin DOMAIN tableLoc'
      BY <1>3 DEF Drop, Answer, LowerSlots
    <2>2. QED
      BY <1>1, <2>1, ReplyTypes, SayingsAre DEF DropDone, Known
  <1>4. ASSUME orderly', DropUnknown PROVE DropDone'
    <2>1. /\ reply' = Said("NOT FOUND") /\ Found = NotFound /\ orderly
          /\ tableLoc' = tableLoc /\ acked' = acked
      BY <1>4 DEF DropUnknown, Answer, memVars, history
    <2>2. ~Known
      BY <1>1, <2>1, FoundLists DEF Loaded
    <2>3. query.name \notin DOMAIN acked
      BY <1>1, <2>1, <2>2, AckedKnown DEF Doubt, Answering, Loaded, Known
    <2>4. QED
      BY <1>1, <2>1, <2>2, <2>3, ReplyTypes, SayingsAre DEF DropDone, Known
  <1>5. QED
    BY <1>1, <1>2, <1>3, <1>4

LEMMA RowAnswers ==
  ASSUME InsertRow \/ InsertRefused
  PROVE  reply' \in Replies /\ InsertDone' /\ query'.kind = "insert"
  <1>1. query' = query /\ query.kind = "insert" /\ tableLoc' = tableLoc
    BY DEF InsertRow, InsertRefused, Running, memVars
  <1>2. Known' = Known
    BY <1>1 DEF Known
  <1>3. reply' = IF Known THEN reply' ELSE Said("!!Table Not Found!!")
    BY DEF InsertRow, InsertRefused, Answer
  <1>4. Known => reply' \in {Said("INSERT SUCCESS"), Said("!!Incorrectly formatted data!!")}
    BY DEF InsertRow, InsertRefused, Answer
  <1>5. QED
    BY <1>1, <1>2, <1>3, <1>4, ReplyTypes, SayingsAre DEF InsertDone

(* A file that is created is empty, which is what a missing one reads as.  *)
LEMMA OpenCreateReads ==
  ASSUME NEW fs, NEW name
  PROVE  \A n : PageIn(OpenCreate(fs, name), n) = PageIn(fs, n)
  <1> SUFFICES ASSUME NEW n PROVE PageIn(OpenCreate(fs, name), n) = PageIn(fs, n)
    OBVIOUS
  <1>1. CASE name \in DOMAIN fs \cup {NoText}
    BY <1>1 DEF OpenCreate
  <1>2. CASE name \notin DOMAIN fs \cup {NoText}
    <2>1. PICK g : g = Put(fs, name, ZeroPage)
      OBVIOUS
    <2>2. /\ DOMAIN g = DOMAIN fs \cup {name} /\ g[name] = ZeroPage
          /\ \A x \in DOMAIN fs : x # name => g[x] = fs[x]
      BY <2>1 DEF Put
    <2>3. PageIn(g, n) = PageIn(fs, n)
      BY <1>2, <2>2 DEF PageIn
    <2>4. QED
      BY <1>2, <2>1, <2>3 DEF OpenCreate
  <1>3. QED
    BY <1>1, <1>2

LEMMA ReadAnswers ==
  ASSUME IInv, Select \/ ShowSnap
  PROVE  /\ reply' \in Replies
         /\ query'.kind = "select" => SelectDone'
         /\ query'.kind = "view" => ViewDone'
         /\ query'.kind \in {"select", "view"}
  <1>1. /\ query' = query /\ pc = "exec" /\ query.name \in Text
        /\ cat' = cat /\ tableLoc' = tableLoc /\ tablePtrs' = tablePtrs
    <2>1. /\ query' = query /\ pc = "exec"
          /\ cat' = cat /\ tableLoc' = tableLoc /\ tablePtrs' = tablePtrs
      BY DEF Select, ShowSnap, Running, memVars
    <2>2. query \in Query
      BY <2>1 DEF IInv, TypeOK
    <2>3. QED
      BY <2>1, <2>2, QueryTypes
  <1>2. Known' = Known /\ Meta' = Meta /\ PageOf(query.name)' = PageOf(query.name)
    BY <1>1 DEF Known, Meta, Found, PageOf
  <1>3. CASE Select
    <2>1. query.kind = "select"
      BY <1>3 DEF Select, Running
    <2>2. reply' = IF Known THEN Shown(View(PageOf(query.name), Meta)) ELSE NoSuchTable
      BY <1>3, Zenon DEF Select, Answer, PageOf, NoSuchTable
    <2>3. NoSuchTable \in Replies
      BY ReplyTypes, SayingsAre, Zenon DEF NoSuchTable
    <2>4. Known => PageOf(query.name) \in Page
      BY FilledReach DEF Known, PageOf, IInv
    <2>5. QED
      BY <1>1, <1>2, <2>1, <2>2, <2>3, <2>4, ReplyTypes DEF SelectDone
  <1>4. CASE ShowSnap
    <2>1. /\ query.kind = "view" /\ snapFiles' = OpenCreate(snapFiles, query.name)
          /\ reply' = Shown(View(PageIn(snapFiles, query.name), Meta))
      BY <1>4 DEF ShowSnap, Running, Answer
    <2>2. PageIn(snapFiles, query.name)' = PageIn(snapFiles, query.name)
      BY <1>1, <2>1, OpenCreateReads
    <2>3. PageIn(snapFiles, query.name) \in Page
      BY <1>1, OpenCreatePages DEF IInv, TypeOK
    <2>4. QED
      BY <1>1, <1>2, <2>1, <2>2, <2>3, ReplyTypes DEF ViewDone
  <1>5. QED
    BY <1>3, <1>4

LEMMA TakeAnswers ==
  ASSUME TakeSnap
  PROVE  reply' \in Replies /\ TakeDone' /\ query'.kind = "take"
  <1>1. /\ query' = query /\ query.kind = "take"
        /\ tableLoc' = tableLoc /\ tablePtrs' = tablePtrs
    BY DEF TakeSnap, Running, memVars
  <1>2. Known' = Known /\ PageOf(query.name)' = PageOf(query.name)
    BY <1>1 DEF Known, PageOf
  <1>3. CASE ~Known
    <2>1. reply' = Said("!!Table Not Found!!")
      BY <1>3 DEF TakeSnap, Answer
    <2>2. QED
      BY <1>1, <1>2, <1>3, <2>1, ReplyTypes, SayingsAre DEF TakeDone
  <1>4. CASE Known
    <2>1. /\ reply' = Said("SNAP TAKEN")
          /\ snapFiles' = Put(snapFiles, query.name, PageOf(query.name))
      BY <1>4 DEF TakeSnap, Answer, PageOf
    <2>2. /\ query.name \in DOMAIN snapFiles'
          /\ snapFiles'[query.name] = PageOf(query.name)
      BY <2>1 DEF Put
    <2>3. QED
      BY <1>1, <1>2, <1>4, <2>1, <2>2, ReplyTypes, SayingsAre DEF TakeDone
  <1>5. QED
    BY <1>3, <1>4

LEMMA OtherAnswers ==
  ASSUME Unimplemented
  PROVE  /\ reply' \in Replies /\ OtherDone'
         /\ query'.kind \in {"update", "delete", "unknown"}
  BY ReplyTypes, SayingsAre DEF Unimplemented, Answer, OtherDone

LEMMA AnswerStep ==
  ASSUME IInv, CatalogInv, ListsInv, KeptInv, AnswerInv, [Next]_vars
  PROVE  AnswerInv'
  <1>1. CASE Create
    BY <1>1, CreateAnswers DEF AnswerInv
  <1>2. CASE Drop \/ DropUnknown
    BY <1>2, DropAnswers DEF AnswerInv
  <1>3. CASE InsertRow \/ InsertRefused
    BY <1>3, RowAnswers DEF AnswerInv
  <1>4. CASE Select \/ ShowSnap
    BY <1>4, ReadAnswers DEF AnswerInv
  <1>5. CASE TakeSnap
    BY <1>5, TakeAnswers DEF AnswerInv
  <1>6. CASE Unimplemented
    BY <1>6, OtherAnswers DEF AnswerInv
  <1>7. CASE Flush
    <2>1. /\ Answering
          /\ cat' = cat /\ tableLoc' = tableLoc /\ tablePtrs' = tablePtrs
          /\ snapFiles' = snapFiles /\ query' = query /\ reply' = reply
          /\ acked' = acked /\ orderly' = orderly
      BY <1>7 DEF Flush, FlushOpen, FlushCatalog, FlushTable, FlushDone, memVars, fileVars,
         history, Answering
    <2>2. QED
      BY <2>1, AnswerStays
  <1>8. CASE Receive \/ Load \/ Hang \/ Reply \/ Restart
    <2>1. ~Answering'
      BY <1>8 DEF Receive, Load, LoadSkip, LoadNoFile, LoadCatalog, LoadRecord, LoadDone,
         Hang, Reply, Restart, Answering
    <2>2. QED
      BY <2>1 DEF AnswerInv
  <1>9. CASE Kill \/ Abort
    <2>1. ~Answering'
      BY <1>9 DEF Kill, Abort, Answering
    <2>2. QED
      BY <2>1 DEF AnswerInv
  <1>10. CASE UNCHANGED vars
    <2>1. /\ pc' = pc
          /\ cat' = cat /\ tableLoc' = tableLoc /\ tablePtrs' = tablePtrs
          /\ snapFiles' = snapFiles /\ query' = query /\ reply' = reply
          /\ acked' = acked /\ orderly' = orderly
      BY <1>10 DEF vars, memVars, fileVars, history
    <2>2. QED
      BY <2>1, AnswerStays DEF AnswerInv, Answering
  <1>11. QED
    BY <1>1, <1>2, <1>3, <1>4, <1>5, <1>6, <1>7, <1>8, <1>9, <1>10
       DEF Next, Serve, Execute

(***************************************************************************)
(* What the client knows of stays on file                                  *)
(***************************************************************************)

LEMMA OnDiskStays ==
  ASSUME NEW n, OnDisk(n), acked'[n].types = acked[n].types,
         n \in DOMAIN FileLists', FileLists'[n] = FileLists[n],
         n \in DOMAIN files', files'[n] = files[n]
  PROVE  OnDisk(n)'
  BY DEF OnDisk, Legible

(* A row added under the types it is read with can be read.                *)
LEMMA LegibleAppend ==
  ASSUME NEW page \in Page, NEW types, NEW data, Legible(page, types)
  PROVE  Legible(Append1(page, types, data), types)
  <1> DEFINE row == [layout |-> Layout(types), data |-> Stored(types, data)]
  <1>1. PICK rows : rows = page.rows /\ rows \in Seq(Row)
    BY DEF Page
  <1>2. PICK r : r = row
    OBVIOUS
  <1>3. PICK more : more = Append(rows, r)
    OBVIOUS
  <1>4. r.layout = Layout(types)
    BY <1>2
  <1>5. \A i \in DOMAIN more : (i \in DOMAIN rows /\ more[i] = rows[i]) \/ more[i] = r
    BY <1>1, <1>3
  <1>6. \A i \in DOMAIN more : more[i].layout = Layout(types)
    BY <1>1, <1>4, <1>5 DEF Legible
  <1>7. /\ Append1(page, types, data).start = page.start
        /\ Append1(page, types, data).rows = more
    BY <1>1, <1>2, <1>3 DEF Append1, Page
  <1>8. QED
    BY <1>6, <1>7 DEF Legible

(* Steps that change neither what is known nor a page.                     *)
LEMMA KeptStays ==
  ASSUME KeptInv, orderly, acked' = acked, files' = files,
         tableLoc' = tableLoc, tablePtrs' = tablePtrs, Doubt \subseteq Doubt',
         \A n \in DOMAIN acked \ Doubt : n \in DOMAIN FileLists =>
           n \in DOMAIN FileLists' /\ FileLists'[n] = FileLists[n],
         \A n \in DOMAIN tableLoc : RowWaits(n) \/ RowWaits(n)' =>
           RowWaits(n) /\ RowWaits(n)' /\ query' = query
  PROVE  KeptInv'
  <1>1. DOMAIN acked' \subseteq Names
    BY DEF KeptInv
  <1>2. SUFFICES ASSUME NEW n \in DOMAIN acked \ Doubt
                 PROVE  OnDisk(n)' /\ PageKept(n)'
    BY <1>1 DEF KeptInv
  <1>3. OnDisk(n) /\ PageKept(n)
    BY DEF KeptInv
  <1>4. n \in DOMAIN FileLists /\ n \in DOMAIN files
    BY <1>3 DEF OnDisk
  <1>5. n \in DOMAIN FileLists' /\ FileLists'[n] = FileLists[n]
    BY <1>4
  <1>6. OnDisk(n)'
    BY <1>3, <1>4, <1>5, OnDiskStays
  <1>7. PageKept(n)'
    BY <1>3, <1>5 DEF PageKept, PageOf, RowAhead
  <1>8. QED
    BY <1>6, <1>7

(* One page is replaced, or one table moves in, in a slot of its own.      *)
LEMMA KeptOthers ==
  ASSUME NEW n, OnDisk(n), PageKept(n), ~RowWaits(n), ~RowWaits(n)',
         acked' = acked, FileLists' = FileLists,
         n \in DOMAIN files', files'[n] = files[n],
         n \in DOMAIN tableLoc' => n \in DOMAIN tableLoc /\ PageOf(n)' = PageOf(n)
  PROVE  OnDisk(n)' /\ PageKept(n)'
  <1>1. OnDisk(n)'
    BY OnDiskStays DEF OnDisk
  <1>2. QED
    BY <1>1 DEF PageKept

LEMMA KeptRecord ==
  ASSUME IInv, SlotsPacked, KeptInv, orderly, LoadRecord
  PROVE  KeptInv'
  <1> DEFINE ref == TextAt(cat, at + IntSize)
             lc  == Cardinality(DOMAIN tableLoc)
  <1>1. /\ pc = "walk" /\ pc' = "walk" /\ acked' = acked /\ catFile' = catFile
        /\ tableLoc' = IF ref \in DOMAIN tableLoc THEN tableLoc ELSE Put(tableLoc, ref, lc)
        /\ tablePtrs' = [tablePtrs EXCEPT ![lc] = PageIn(files, ref)]
        /\ files' = OpenCreate(files, ref)
    BY DEF LoadRecord, history
  <1>2. PICK name : name = ref
    OBVIOUS
  <1>3. /\ \A n : ~RowWaits(n) /\ ~RowWaits(n)'
        /\ Doubt = {} /\ Doubt' = {} /\ FileLists' = FileLists
    BY <1>1, FileListsSame DEF RowWaits, Answering, Doubt
  <1>4. lc \in Slots /\ DOMAIN tablePtrs = Slots
    BY NextSlot DEF IInv, TypeOK
  <1>5. \A n \in DOMAIN tableLoc : tableLoc[n] # lc /\ tableLoc[n] \in Slots
    BY DEF SlotsPacked, IInv, TypeOK, Slots
  <1>6. SUFFICES ASSUME NEW n \in DOMAIN acked
                 PROVE  OnDisk(n)' /\ PageKept(n)'
    BY <1>1, <1>3 DEF KeptInv
  <1>7. OnDisk(n) /\ PageKept(n) /\ n \in DOMAIN files
    BY <1>3 DEF KeptInv, OnDisk
  <1>8. n \in DOMAIN files' /\ files'[n] = files[n]
    BY <1>1, <1>7 DEF OpenCreate, Put
  <1>9. CASE n \in DOMAIN tableLoc
    <2>1. n \in DOMAIN tableLoc' /\ tableLoc'[n] = tableLoc[n]
      BY <1>1, <1>9 DEF Put
    <2>2. PageOf(n)' = PageOf(n)
      BY <1>1, <1>4, <1>5, <1>9, <2>1 DEF PageOf
    <2>3. QED
      BY <1>1, <1>3, <1>7, <1>8, <1>9, <2>2, KeptOthers
  <1>10. CASE n \notin DOMAIN tableLoc
    <2>1. OnDisk(n)'
      BY <1>1, <1>3, <1>7, <1>8, OnDiskStays DEF OnDisk
    <2>2. ASSUME n \in DOMAIN tableLoc' PROVE PageOf(n)' = files[n]
      <3>1. n = ref /\ tableLoc'[n] = lc
        BY <1>1, <1>10, <2>2 DEF Put
      <3>2. QED
        BY <1>1, <1>4, <1>7, <3>1 DEF PageOf, PageIn
    <2>3. QED
      BY <1>3, <1>8, <2>1, <2>2 DEF PageKept
  <1>11. QED
    BY <1>9, <1>10

LEMMA KeptCreate ==
  ASSUME IInv, SlotsPacked, CatalogInv, ListsInv, KeptInv, Create, orderly'
  PROVE  KeptInv'
  <1> DEFINE ls == Cardinality(DOMAIN tableLoc)
  <1>1. /\ orderly /\ acked' = acked /\ pc = "exec" /\ query.kind = "create" /\ query' = query
        /\ catFile' = catFile /\ files' = files
        /\ tableLoc' = Put(tableLoc, query.name, ls)
        /\ tablePtrs' = [tablePtrs EXCEPT ![ls] = FreshPage]
        /\ query.name \notin DOMAIN tableLoc
    BY DEF Create, Judge, OrderlyCreate, Running, fileVars, Known
  <1>2. /\ \A n : ~RowWaits(n) /\ ~RowWaits(n)'
        /\ Doubt = {} /\ FileLists' = FileLists
    BY <1>1, FileListsSame DEF RowWaits, Answering, Doubt
  <1>3. ls \in Slots /\ DOMAIN tablePtrs = Slots
    BY NextSlot DEF IInv, TypeOK
  <1>4. \A n \in DOMAIN tableLoc : tableLoc[n] # ls /\ tableLoc[n] \in Slots
    BY <1>1 DEF SlotsPacked, IInv, TypeOK, Slots
  <1>5. SUFFICES ASSUME NEW n \in DOMAIN acked
                 PROVE  OnDisk(n)' /\ PageKept(n)'
    BY <1>1, <1>2 DEF KeptInv
  <1>6. OnDisk(n) /\ PageKept(n) /\ n \in DOMAIN files
    BY <1>1, <1>2 DEF KeptInv, OnDisk
  <1>7. n \in DOMAIN tableLoc
    BY <1>1, <1>2, AckedKnown DEF Loaded
  <1>8. tableLoc'[n] = tableLoc[n]
    BY <1>1, <1>7 DEF Put
  <1>9. PageOf(n)' = PageOf(n)
    BY <1>1, <1>3, <1>4, <1>7, <1>8 DEF PageOf
  <1>10. QED
    BY <1>1, <1>2, <1>6, <1>7, <1>9, KeptOthers

(* The pages of the tables above a dropped one move down with their slots. *)
LEMMA PagesMove ==
  ASSUME IInv, SlotsPacked, orderly, NEW name \in DOMAIN tableLoc,
         tableLoc' = LowerSlots(tableLoc, name, tableLoc[name]),
         tablePtrs' = ShiftPages(tablePtrs, tableLoc, tableLoc[name])
  PROVE  \A n \in DOMAIN tableLoc \ {name} : PageOf(n)' = PageOf(n)
  <1> SUFFICES ASSUME NEW n \in DOMAIN tableLoc \ {name}
               PROVE  tablePtrs'[tableLoc'[n]] = tablePtrs[tableLoc[n]]
    BY DEF PageOf
  <1>1. PICK pos, s : pos = tableLoc[name] /\ s = tableLoc[n]
    OBVIOUS
  <1>2. /\ pos \in Slots /\ s \in Slots /\ DOMAIN tablePtrs = Slots /\ TableSlots \in Nat
        /\ s # pos
    BY <1>1, DiskAssumption DEF IInv, TypeOK, SlotsPacked
  <1>3. tableLoc'[n] = IF s > pos THEN s - 1 ELSE s
    BY <1>1 DEF LowerSlots
  <1>4. \A t \in Slots : tablePtrs'[t] =
          IF t >= pos /\ \E m \in DOMAIN tableLoc : tableLoc[m] > t THEN tablePtrs[t + 1]
          ELSE tablePtrs[t]
    BY <1>1, <1>2 DEF ShiftPages
  <1>5. CASE s > pos
    <2>1. s - 1 \in Slots /\ s - 1 >= pos /\ s > s - 1 /\ (s - 1) + 1 = s
      BY <1>2, <1>5 DEF Slots
    <2>2. tablePtrs'[s - 1] = tablePtrs[(s - 1) + 1]
      BY <1>1, <1>4, <2>1
    <2>3. QED
      BY <1>1, <1>3, <1>5, <2>1, <2>2
  <1>6. CASE ~(s > pos)
    <2>1. ~(s >= pos)
      BY <1>2, <1>6 DEF Slots
    <2>2. QED
      BY <1>1, <1>2, <1>3, <1>4, <1>6, <2>1
  <1>7. QED
    BY <1>5, <1>6

LEMMA KeptDrop ==
  ASSUME IInv, SlotsPacked, KeptInv, Drop, orderly'
  PROVE  KeptInv'
  <1>1. /\ orderly /\ acked' = acked /\ pc = "exec" /\ query.kind = "drop" /\ query' = query
        /\ catFile' = catFile /\ files' = Without(files, query.name)
        /\ query.name \in DOMAIN tableLoc /\ pc' = "flush"
        /\ tableLoc' = LowerSlots(tableLoc, query.name, tableLoc[query.name])
        /\ tablePtrs' = ShiftPages(tablePtrs, tableLoc, tableLoc[query.name])
    BY DEF Drop, Judge, OrderlyDrop, Running, Answer, Known
  <1>2. query # NoQuery
    BY <1>1, NoneAssumption DEF IInv, TypeOK
  <1>3. /\ \A n : ~RowWaits(n) /\ ~RowWaits(n)'
        /\ Doubt = {} /\ Doubt' = {query.name} /\ FileLists' = FileLists
    BY <1>1, <1>2, FileListsSame DEF RowWaits, Answering, Doubt, Whole, Busy
  <1>4. SUFFICES ASSUME NEW n \in DOMAIN acked, n # query.name
                 PROVE  OnDisk(n)' /\ PageKept(n)'
    BY <1>1, <1>3 DEF KeptInv
  <1>5. OnDisk(n) /\ PageKept(n) /\ n \in DOMAIN files
    BY <1>1, <1>3 DEF KeptInv, OnDisk
  <1>6. n \in DOMAIN files' /\ files'[n] = files[n]
    BY <1>1, <1>4, <1>5 DEF Without, Restrict
  <1>7. DOMAIN tableLoc' = DOMAIN tableLoc \ {query.name}
    BY <1>1 DEF LowerSlots
  <1>8. n \in DOMAIN tableLoc => PageOf(n)' = PageOf(n)
    BY <1>1, <1>4, PagesMove
  <1>9. QED
    BY <1>1, <1>3, <1>5, <1>6, <1>7, <1>8, KeptOthers

LEMMA KeptInsert ==
  ASSUME IInv, SlotsPacked, CatalogInv, ListsInv, KeptInv, InsertRow, orderly
  PROVE  KeptInv'
  <1>1. /\ acked' = acked /\ pc = "exec" /\ pc' = "flush" /\ query.kind = "insert"
        /\ query' = query /\ catFile' = catFile /\ files' = files /\ tableLoc' = tableLoc
        /\ tablePtrs' = [tablePtrs EXCEPT ![tableLoc[query.name]] =
                           Append1(@, Meta, query.data)]
        /\ query.name \in DOMAIN tableLoc /\ Len(Meta) = Len(query.data)
        /\ NumbersOnly(Meta, query.data) /\ reply' = Said("INSERT SUCCESS")
    BY DEF InsertRow, Running, Answer, fileVars, history, Known
  <1>2. /\ \A n : ~RowWaits(n)
        /\ Doubt = {} /\ FileLists' = FileLists
    BY <1>1, FileListsSame DEF RowWaits, Answering, Doubt
  <1>3. /\ DOMAIN tablePtrs = Slots /\ \A n \in DOMAIN tableLoc : tableLoc[n] \in Slots
    BY DEF IInv, TypeOK
  <1>4. SUFFICES ASSUME NEW n \in DOMAIN acked
                 PROVE  OnDisk(n)' /\ PageKept(n)'
    BY <1>1, <1>2 DEF KeptInv
  <1>5. OnDisk(n) /\ PageKept(n) /\ n \in DOMAIN files
    BY <1>2 DEF KeptInv, OnDisk
  <1>6. /\ n \in DOMAIN tableLoc /\ n \in Names
        /\ n \in DOMAIN Listed(cat) /\ Listed(cat)[n] = FileLists[n]
    BY <1>1, <1>2, AckedKnown DEF Loaded
  <1>7. CASE n # query.name
    <2>1. tableLoc[n] # tableLoc[query.name]
      BY <1>1, <1>6, <1>7 DEF SlotsPacked
    <2>2. PageOf(n)' = PageOf(n)
      BY <1>1, <1>3, <1>6, <2>1 DEF PageOf
    <2>3. ~RowWaits(n)'
      BY <1>1, <1>7 DEF RowWaits
    <2>4. QED
      BY <1>1, <1>2, <1>5, <1>6, <2>2, <2>3, KeptOthers
  <1>8. CASE n = query.name
    <2>1. Meta = FileLists[n]
      BY <1>1, <1>6, <1>8, FoundLists DEF Loaded
    <2>2. PageOf(n)' = Append1(files[n], FileLists[n], query.data)
      <3>1. PageOf(n) = files[n]
        BY <1>2, <1>5, <1>6 DEF PageKept
      <3>2. PageOf(n)' = Append1(PageOf(n), Meta, query.data)
        BY <1>1, <1>3, <1>6, <1>8 DEF PageOf
      <3>3. QED
        BY <2>1, <3>1, <3>2
    <2>3. RowWaits(n)'
      <3>1. reply'.said = "INSERT SUCCESS"
        BY <1>1 DEF Said
      <3>2. QED
        BY <1>1, <1>8, <3>1 DEF RowWaits, Answering
    <2>4. OnDisk(n)'
      BY <1>1, <1>2, <1>5, OnDiskStays DEF OnDisk
    <2>5. RowAhead(PageOf(n), FileLists[n], query.data, files[n])'
      BY <1>1, <1>2, <2>1, <2>2 DEF RowAhead, NumbersOnly
    <2>6. QED
      BY <2>3, <2>4, <2>5 DEF PageKept
  <1>9. QED
    BY <1>7, <1>8

LEMMA KeptExecute ==
  ASSUME IInv, SlotsPacked, CatalogInv, ListsInv, KeptInv, Execute, ~Abort, orderly'
  PROVE  KeptInv'
  <1>1. CASE Create
    BY <1>1, KeptCreate
  <1>2. CASE Drop
    BY <1>2, KeptDrop
  <1>3. CASE InsertRow
    <2>1. orderly
      BY <1>3 DEF InsertRow, history
    <2>2. QED
      BY <1>3, <2>1, KeptInsert
  <1>4. CASE \/ InsertRefused \/ Select \/ DropUnknown \/ TakeSnap \/ ShowSnap
             \/ Unimplemented \/ Hang
    <2>1. /\ orderly' = orderly /\ acked' = acked /\ files' = files /\ catFile' = catFile
          /\ tableLoc' = tableLoc /\ tablePtrs' = tablePtrs /\ pc = "exec" /\ query' = query
      BY <1>4, Zenon DEF InsertRefused, Select, DropUnknown, TakeSnap, ShowSnap,
         Unimplemented, Hang, memVars, fileVars, history, Running
    <2>2. query.kind # "insert" \/ InsertRefused \/ pc' = "hung"
      BY <1>4, Zenon DEF Select, DropUnknown, TakeSnap, ShowSnap, Unimplemented, Hang, Running
    <2>3. InsertRefused => reply'.said # "INSERT SUCCESS"
      <3>1. InsertRefused => reply' \in {Said("!!Table Not Found!!"),
                                         Said("!!Incorrectly formatted data!!")}
        BY DEF InsertRefused, Answer
      <3>2. /\ Said("!!Table Not Found!!").said = "!!Table Not Found!!"
            /\ Said("!!Incorrectly formatted data!!").said = "!!Incorrectly formatted data!!"
        BY ReplyTypes, SayingsAre
      <3>3. QED
        BY <3>1, <3>2, Zenon
    <2>4. \A n : ~RowWaits(n) /\ ~RowWaits(n)'
      BY <2>1, <2>2, <2>3 DEF RowWaits, Answering
    <2>5. Doubt = {} /\ FileLists' = FileLists
      BY <2>1, FileListsSame DEF Doubt, Answering
    <2>6. QED
      BY <2>1, <2>4, <2>5, KeptStays
  <1>5. QED
    BY <1>1, <1>2, <1>3, <1>4 DEF Execute

LEMMA KeptFlush ==
  ASSUME MissingIsNoContents, IInv, CatalogInv, ListsInv, KeptInv, Flush, orderly
  PROVE  KeptInv'
  <1>1. /\ acked' = acked /\ tableLoc' = tableLoc /\ tablePtrs' = tablePtrs
        /\ query' = query /\ reply' = reply /\ orderly' = orderly
        /\ Answering /\ Answering'
    BY DEF Flush, FlushOpen, FlushCatalog, FlushTable, FlushDone, memVars, fileVars, history,
       Answering
  <1>2. Doubt' = Doubt
    BY <1>1 DEF Doubt, Whole, Busy
  <1>3. CASE FlushOpen
    <2>1. pc = "flush" /\ pc' = "write" /\ files' = files
      BY <1>3 DEF FlushOpen
    <2>2. \A n : RowWaits(n)' <=> RowWaits(n)
      BY <1>1, <2>1 DEF RowWaits
    <2>3. QED
      BY <1>1, <1>2, <1>3, <2>1, <2>2, OpenedLists, KeptStays
  <1>4. CASE FlushCatalog
    <2>1. pc = "write" /\ pc' = "tables" /\ files' = files /\ pending' = DOMAIN tableLoc
      BY <1>4 DEF FlushCatalog
    <2>2. \A n \in DOMAIN tableLoc : RowWaits(n)' <=> RowWaits(n)
      BY <1>1, <2>1 DEF RowWaits
    <2>3. \A n \in DOMAIN acked \ Doubt :
            n \in DOMAIN FileLists' /\ FileLists'[n] = FileLists[n]
      BY <1>4, <2>1, FlushedLists, AckedKnown DEF Loaded
    <2>4. QED
      BY <1>1, <1>2, <2>1, <2>2, <2>3, KeptStays
  <1>5. CASE FlushDone
    <2>1. pc = "tables" /\ pc' = "reply" /\ pending = {} /\ files' = files /\ catFile' = catFile
      BY <1>5 DEF FlushDone, fileVars
    <2>2. \A n : ~RowWaits(n)' /\ ~RowWaits(n)
      BY <1>1, <2>1 DEF RowWaits
    <2>3. QED
      BY <1>1, <1>2, <2>1, <2>2, FileListsSame, KeptStays
  <1>6. CASE FlushTable
    <2>1. PICK m \in pending :
            /\ files' = IF m = NoText THEN files ELSE Put(files, m, PageOf(m))
            /\ pending' = pending \ {m}
      BY <1>6 DEF FlushTable, PageOf
    <2>2. pc = "tables" /\ pc' = "tables" /\ catFile' = catFile /\ FileLists' = FileLists
      BY <1>6, FileListsSame DEF FlushTable
    <2>3. m \in DOMAIN tableLoc
      BY <2>1, <2>2 DEF IInv, TypeOK
    <2>4. SUFFICES ASSUME NEW n \in DOMAIN acked \ Doubt
                   PROVE  OnDisk(n)' /\ PageKept(n)'
      BY <1>1, <1>2 DEF KeptInv
    <2>5. OnDisk(n) /\ PageKept(n) /\ n \in DOMAIN files /\ n \in Names
      BY DEF KeptInv, OnDisk
    <2>6. PageOf(n)' = PageOf(n)
      BY <1>1 DEF PageOf
    <2>7. CASE n # m
      <3>1. RowWaits(n)' <=> RowWaits(n)
        BY <1>1, <2>1, <2>2, <2>7 DEF RowWaits
      <3>2. n \in DOMAIN files' /\ files'[n] = files[n]
        BY <2>1, <2>5, <2>7 DEF Put
      <3>3. OnDisk(n)'
        BY <1>1, <2>2, <2>5, <3>2, OnDiskStays DEF OnDisk
      <3>4. PageKept(n)'
        BY <1>1, <2>2, <2>5, <2>6, <3>1, <3>2 DEF PageKept, RowAhead
      <3>5. QED
        BY <3>3, <3>4
    <2>8. CASE n = m
      <3>1. n # NoText
        BY <2>5, TextAssumption
      <3>2. n \in DOMAIN files' /\ files'[n] = PageOf(n)
        BY <2>1, <2>8, <3>1 DEF Put
      <3>3. ~RowWaits(n)'
        BY <2>1, <2>2, <2>8 DEF RowWaits
      <3>4. files[n] \in Page /\ Legible(files[n], FileLists[n])
        BY <2>5 DEF OnDisk, IInv, TypeOK, Pages
      <3>5. Legible(PageOf(n), FileLists[n])
        BY <2>3, <2>5, <2>8, <3>4, LegibleAppend DEF PageKept, RowAhead
      <3>6. OnDisk(n)'
        BY <1>1, <2>2, <2>5, <3>2, <3>5 DEF OnDisk, Legible
      <3>7. PageKept(n)'
        BY <2>6, <3>2, <3>3 DEF PageKept
      <3>8. QED
        BY <3>6, <3>7
    <2>9. QED
      BY <2>7, <2>8
  <1>7. QED
    BY <1>3, <1>4, <1>5, <1>6 DEF Flush

(* What is said to queries of the other kinds.                             *)
TakeSays == {"SNAP TAKEN", "!!Table Not Found!!"}
OtherSays == {"TABLE", "!! TABLE DOESN'T EXIST !!!!", "unwritten",
              "!! Incorrectly Formatted Query !!"}

LEMMA SaidBy ==
  ASSUME AnswerInv, orderly, Answering
  PROVE  /\ query.kind = "take" => reply.said \in TakeSays
         /\ query.kind \in {"select", "view", "update", "delete", "unknown"} =>
              reply.said \in OtherSays
  <1>1. NoSuchTable.said = "!! TABLE DOESN'T EXIST !!!!"
    BY ReplyTypes, SayingsAre, Zenon DEF NoSuchTable
  <1>2. \A rows : Shown(rows).said = "TABLE"
    BY DEF Shown
  <1>3. SelectDone => reply.said \in OtherSays
    BY <1>1, <1>2, Zenon DEF SelectDone, OtherSays
  <1>4. TakeDone => reply.said \in TakeSays
    BY Zenon DEF TakeDone, TakeSays
  <1>5. ViewDone => reply.said \in OtherSays
    BY <1>2, Zenon DEF ViewDone, OtherSays
  <1>6. OtherDone => reply.said \in OtherSays
    BY Zenon DEF OtherDone, OtherSays
  <1>7. QED
    BY <1>3, <1>4, <1>5, <1>6 DEF AnswerInv

(* What the client knows of a table is its column types and rows.          *)
IsEntry(x) == x = [types |-> x.types, rows |-> x.rows]
IsEntries(f) == \A n \in DOMAIN f : IsEntry(f[n])
EntriesInv == IsEntries(acked)

(* What a reply adds to what the client knows of, by the query's kind.     *)
LEMMA AckedReply ==
  ASSUME IInv, EntriesInv, AnswerInv, orderly, Reply
  PROVE  /\ query.kind = "create" =>
              acked' = Put(acked, query.name, [types |-> query.types, rows |-> << >>])
         /\ query.kind = "drop" =>
              /\ DOMAIN acked' = DOMAIN acked \ {query.name}
              /\ \A n \in DOMAIN acked' : acked'[n] = acked[n]
         /\ query.kind = "insert" =>
              /\ DOMAIN acked' = DOMAIN acked
              /\ \A n \in DOMAIN acked : acked'[n].types = acked[n].types
         /\ query.kind \notin {"create", "drop", "insert"} => acked' = acked
  <1>1. acked' = AckedAfter(query, reply, acked) /\ pc = "reply"
    BY DEF Reply
  <1>2. Answering /\ query \in Query
    BY <1>1 DEF Answering, IInv, TypeOK
  <1>3. CASE query.kind = "create"
    <2>1. reply.said = "INSERTED"
      BY <1>2, <1>3 DEF AnswerInv, CreateDone
    <2>2. QED
      BY <1>1, <1>3, <2>1 DEF AckedAfter
  <1>4. CASE query.kind = "drop"
    <2>1. reply.said = "DROPPED" \/ (reply.said = "NOT FOUND" /\ query.name \notin DOMAIN acked)
      BY <1>2, <1>4 DEF AnswerInv, DropDone
    <2>2. CASE reply.said = "DROPPED"
      <3>1. acked' = Without(acked, query.name)
        BY <1>1, <2>2 DEF AckedAfter
      <3>2. QED
        BY <1>4, <3>1 DEF Without, Restrict
    <2>3. CASE reply.said = "NOT FOUND" /\ query.name \notin DOMAIN acked
      <3>1. acked' = acked
        BY <1>1, <2>3 DEF AckedAfter
      <3>2. QED
        BY <1>4, <2>3, <3>1
    <2>4. QED
      BY <2>1, <2>2, <2>3
  <1>5. CASE query.kind = "insert"
    <2>1. reply.said \in {"INSERT SUCCESS", "!!Incorrectly formatted data!!",
                          "!!Table Not Found!!"}
      BY <1>2, <1>5, Zenon DEF AnswerInv, InsertDone
    <2>2. reply.said # "INSERTED" /\ reply.said # "DROPPED"
      BY <2>1, Zenon
    <2>3. \/ acked' = acked
          \/ /\ query.name \in DOMAIN acked
             /\ acked' = [acked EXCEPT ![query.name].rows =
                            Append(@, Stored(acked[query.name].types, query.data))]
      BY <1>1, <2>2 DEF AckedAfter
    <2>4. CASE /\ query.name \in DOMAIN acked
               /\ acked' = [acked EXCEPT ![query.name].rows =
                              Append(@, Stored(acked[query.name].types, query.data))]
      <3>1. PICK e, row : e = acked[query.name] /\ row = Stored(e.types, query.data)
        OBVIOUS
      <3>2. acked' = [acked EXCEPT ![query.name] = [e EXCEPT !.rows = Append(@, row)]]
        BY <2>4, <3>1
      <3>3. e = [types |-> e.types, rows |-> e.rows]
        BY <2>4, <3>1 DEF EntriesInv, IsEntries, IsEntry
      <3>4. [e EXCEPT !.rows = Append(@, row)].types = e.types
        BY <3>3
      <3>5. QED
        BY <1>5, <2>4, <3>1, <3>2, <3>4
    <2>5. QED
      BY <1>5, <2>3, <2>4
  <1>6. CASE query.kind \notin {"create", "drop", "insert"}
    <2>1. reply.said \in TakeSays \/ reply.said \in OtherSays
      BY <1>2, <1>6, SaidBy DEF Query
    <2>2. reply.said # "INSERTED" /\ reply.said # "DROPPED" /\ reply.said # "INSERT SUCCESS"
      BY <2>1, Zenon DEF TakeSays, OtherSays
    <2>3. QED
      BY <1>1, <1>6, <2>2 DEF AckedAfter
  <1>7. QED
    BY <1>3, <1>4, <1>5, <1>6

LEMMA EntriesKept ==
  /\ \A x, y : IsEntry([types |-> x, rows |-> y])
  /\ IsEntries(<< >>)
  /\ \A f, n, x : IsEntries(f) /\ IsEntry(x) => IsEntries(Put(f, n, x))
  /\ \A f, n : IsEntries(f) => IsEntries(Without(f, n))
  <1>1. \A x, y : IsEntry([types |-> x, rows |-> y])
    BY DEF IsEntry
  <1>2. IsEntries(<< >>)
    <2>1. DOMAIN << >> = {}
      OBVIOUS
    <2>2. QED
      BY <2>1 DEF IsEntries
  <1>3. ASSUME NEW f, NEW n, NEW x, IsEntries(f), IsEntry(x) PROVE IsEntries(Put(f, n, x))
    <2>1. PICK G : G = Put(f, n, x)
      OBVIOUS
    <2>2. \A m \in DOMAIN G : IsEntry(G[m])
      BY <1>3, <2>1 DEF Put, IsEntries
    <2>3. QED
      BY <2>1, <2>2 DEF IsEntries
  <1>4. ASSUME NEW f, NEW n, IsEntries(f) PROVE IsEntries(Without(f, n))
    <2>1. PICK G : G = Without(f, n)
      OBVIOUS
    <2>2. \A m \in DOMAIN G : m \in DOMAIN f /\ G[m] = f[m]
      BY <2>1, WithoutFacts
    <2>3. IsEntries(G)
      BY <1>4, <2>2 DEF IsEntries
    <2>4. QED
      BY <2>1, <2>3
  <1>5. QED
    BY <1>1, <1>2, <1>3, <1>4

LEMMA EntriesStep ==
  ASSUME EntriesInv, [Next]_vars
  PROVE  EntriesInv'
  <1>1. CASE acked' = acked \/ acked' = << >> \/ acked' = Without(acked, query.name)
    BY <1>1, EntriesKept DEF EntriesInv
  <1>2. CASE Reply
    <2>1. acked' = acked \/ acked' = AckedAfter(query, reply, acked)
      BY <1>2 DEF Reply
    <2>2. CASE query.name \in DOMAIN acked
               /\ acked' = [acked EXCEPT ![query.name].rows =
                              Append(@, Stored(acked[query.name].types, query.data))]
      <3>1. PICK e, row : e = acked[query.name] /\ row = Stored(e.types, query.data)
        OBVIOUS
      <3>2. acked' = [acked EXCEPT ![query.name] = [e EXCEPT !.rows = Append(@, row)]]
        BY <2>2, <3>1
      <3>3. e = [types |-> e.types, rows |-> e.rows]
        BY <2>2, <3>1 DEF EntriesInv, IsEntries, IsEntry
      <3>4. [e EXCEPT !.rows = Append(@, row)] = [types |-> e.types, rows |-> Append(e.rows, row)]
        BY <3>3
      <3>5. PICK x : x = [e EXCEPT !.rows = Append(@, row)]
        OBVIOUS
      <3>6. IsEntry(x)
        BY <3>4, <3>5, EntriesKept
      <3>7. acked' = [acked EXCEPT ![query.name] = x]
        BY <3>2, <3>5
      <3>8. QED
        BY <3>6, <3>7 DEF EntriesInv, IsEntries
    <2>3. CASE acked' = Put(acked, query.name, [types |-> query.types, rows |-> << >>])
      <3>1. PICK x : x = [types |-> query.types, rows |-> << >>]
        OBVIOUS
      <3>2. QED
        BY <2>3, <3>1, EntriesKept DEF EntriesInv
    <2>4. QED
      BY <1>1, <2>1, <2>2, <2>3 DEF AckedAfter
  <1>3. CASE Create \/ Drop
    BY <1>1, <1>3 DEF Create, Drop, Judge
  <1>4. CASE Abort \/ Kill
    BY <1>1, <1>4 DEF Abort, Kill, ProcessGone
  <1>5. CASE \/ Receive \/ Load \/ Flush \/ Restart \/ UNCHANGED vars
             \/ InsertRefused \/ InsertRow \/ Select \/ DropUnknown \/ TakeSnap \/ ShowSnap
             \/ Unimplemented \/ Hang
    <2>1. acked' = acked
      BY <1>5, Zenon DEF Receive, Load, LoadSkip, LoadNoFile, LoadCatalog, LoadRecord, LoadDone,
         Flush, FlushOpen, FlushCatalog, FlushTable, FlushDone, Restart, vars, history,
         InsertRefused, InsertRow, Select, DropUnknown, TakeSnap, ShowSnap, Unimplemented, Hang
    <2>2. QED
      BY <1>1, <2>1
  <1>6. QED
    BY <1>2, <1>3, <1>4, <1>5 DEF Next, Serve, Execute

(* A created table is on file when the client is told of it.               *)
LEMMA CreatedOnFile ==
  ASSUME MissingIsNoContents, IInv, FlushedSoFar, CatalogInv, AnswerInv,
         pc = "reply", orderly, query.kind = "create"
  PROVE  /\ query.name \in DOMAIN FileLists /\ FileLists[query.name] = query.types
         /\ query.name \in DOMAIN files /\ files[query.name] = FreshPage
         /\ PageOf(query.name) = FreshPage
  <1>1. query.name \in Names /\ pending = {}
    BY DEF IInv, TypeOK, Query
  <1>2. CreateDone
    BY DEF AnswerInv, Answering
  <1>3. FileLists = Listed(cat)
    BY WrittenLists DEF FlushedSoFar, Loaded
  <1>4. query.name \in DOMAIN FileLists /\ FileLists[query.name] = query.types
    BY <1>2, <1>3 DEF CreateDone
  <1>5. query.name \in DOMAIN tableLoc /\ query.name # NoText
    BY <1>1, <1>2, TextAssumption DEF CreateDone, Known
  <1>6. /\ query.name \in DOMAIN files /\ files[query.name] = FreshPage
        /\ PageOf(query.name) = FreshPage
    BY <1>1, <1>2, <1>5 DEF FlushedSoFar, CreateDone, PageOf
  <1>7. QED
    BY <1>4, <1>6

LEMMA KeptReply ==
  ASSUME MissingIsNoContents, IInv, FlushedSoFar, CatalogInv, EntriesInv, KeptInv,
         AnswerInv, Reply, orderly
  PROVE  KeptInv'
  <1>1. /\ pc = "reply" /\ pc' = "idle" /\ cat' = cat /\ catFile' = catFile
        /\ tableLoc' = tableLoc /\ tablePtrs' = tablePtrs /\ files' = files
    BY DEF Reply, memVars, fileVars
  <1>2. query \in Query /\ query.name \in Names /\ pending = {} /\ query # NoQuery
    BY <1>1, NoneAssumption DEF IInv, TypeOK, Query
  <1>3. /\ \A n : ~RowWaits(n) /\ ~RowWaits(n)'
        /\ Doubt = IF query.kind \in {"create", "drop"} THEN {query.name} ELSE {}
        /\ Doubt' = {} /\ FileLists' = FileLists
    BY <1>1, <1>2, FileListsSame DEF RowWaits, Answering, Doubt, Whole, Busy
  <1>4. \A n : PageOf(n)' = PageOf(n)
    BY <1>1 DEF PageOf
  <1>5. /\ \A n \in DOMAIN acked' : n \in DOMAIN acked \/ (query.kind = "create" /\ n = query.name)
        /\ query.kind = "drop" => query.name \notin DOMAIN acked'
        /\ \A n \in DOMAIN acked' \ Doubt : acked'[n].types = acked[n].types
    <2>1. CASE query.kind = "create"
      <3>1. acked' = Put(acked, query.name, [types |-> query.types, rows |-> << >>])
        BY <2>1, AckedReply
      <3>2. PICK x : x = [types |-> query.types, rows |-> << >>]
        OBVIOUS
      <3>3. /\ DOMAIN acked' = DOMAIN acked \cup {query.name}
            /\ \A n \in DOMAIN acked : n # query.name => acked'[n] = acked[n]
        BY <3>1, <3>2 DEF Put
      <3>4. QED
        BY <1>3, <2>1, <3>3
    <2>2. CASE query.kind = "drop"
      BY <1>3, <2>2, AckedReply
    <2>3. CASE query.kind \notin {"create", "drop"}
      BY <2>3, AckedReply
    <2>4. QED
      BY <2>1, <2>2, <2>3
  <1>6. SUFFICES ASSUME NEW n \in DOMAIN acked'
                 PROVE  n \in Names /\ OnDisk(n)' /\ PageKept(n)'
    BY <1>3 DEF KeptInv
  <1>7. CASE n \notin Doubt
    <2>1. n \in DOMAIN acked \ Doubt
      BY <1>3, <1>5, <1>7
    <2>2. n \in Names /\ OnDisk(n) /\ PageKept(n)
      BY <2>1 DEF KeptInv
    <2>3. OnDisk(n)'
      BY <1>1, <1>3, <1>5, <1>7, <2>2, OnDiskStays DEF OnDisk
    <2>4. PageKept(n)'
      BY <1>1, <1>3, <1>4, <2>2 DEF PageKept
    <2>5. QED
      BY <2>2, <2>3, <2>4
  <1>8. CASE n \in Doubt
    <2>1. query.kind = "create" /\ n = query.name
      BY <1>3, <1>5, <1>8
    <2>4. /\ n \in DOMAIN FileLists /\ FileLists[n] = query.types
          /\ n \in DOMAIN files /\ files[n] = FreshPage /\ PageOf(n) = FreshPage
      BY <1>1, <2>1, CreatedOnFile
    <2>5. acked'[n].types = query.types
      <3>1. PICK x : x = [types |-> query.types, rows |-> << >>]
        OBVIOUS
      <3>2. acked' = Put(acked, n, x)
        BY <2>1, <3>1, AckedReply
      <3>3. acked'[n] = x
        BY <3>2 DEF Put
      <3>4. QED
        BY <3>1, <3>3
    <2>8. Legible(FreshPage, query.types)
      BY DEF Legible, FreshPage
    <2>9. OnDisk(n)'
      BY <1>1, <1>3, <2>4, <2>5, <2>8 DEF OnDisk, Legible
    <2>10. PageKept(n)'
      BY <1>1, <1>3, <1>4, <2>4 DEF PageKept
    <2>11. QED
      BY <1>2, <2>1, <2>9, <2>10
  <1>9. QED
    BY <1>7, <1>8

LEMMA KeptGone ==
  ASSUME KeptInv, ProcessGone, pc' \in {"down", "aborted"}, orderly'
  PROVE  KeptInv'
  <1>1. /\ orderly /\ catFile' = catFile /\ files' = files /\ tableLoc' = << >>
        /\ acked' = IF query # NoQuery /\ query.kind \in {"create", "drop"}
                    THEN Without(acked, query.name) ELSE acked
    BY DEF ProcessGone, fileVars
  <1>2. /\ DOMAIN acked' \subseteq DOMAIN acked \ Doubt
        /\ \A n \in DOMAIN acked' : acked'[n] = acked[n]
    <2>1. CASE query # NoQuery /\ query.kind \in {"create", "drop"}
      <3>1. Doubt \subseteq {query.name}
        BY DEF Doubt, Whole
      <3>2. /\ DOMAIN acked' = DOMAIN acked \ {query.name}
            /\ \A n \in DOMAIN acked' : acked'[n] = acked[n]
        BY <1>1, <2>1 DEF Without, Restrict
      <3>3. QED
        BY <3>1, <3>2
    <2>2. CASE ~(query # NoQuery /\ query.kind \in {"create", "drop"})
      <3>1. Doubt = {}
        BY <2>2 DEF Doubt, Whole, Busy
      <3>2. QED
        BY <1>1, <2>2, <3>1
    <2>3. QED
      BY <2>1, <2>2
  <1>3. FileLists' = FileLists /\ DOMAIN tableLoc' = {}
    BY <1>1, FileListsSame
  <1>4. SUFFICES ASSUME NEW n \in DOMAIN acked' PROVE n \in Names /\ OnDisk(n)' /\ PageKept(n)'
    BY DEF KeptInv
  <1>5. n \in Names /\ OnDisk(n)
    BY <1>1, <1>2 DEF KeptInv
  <1>6. OnDisk(n)'
    BY <1>1, <1>2, <1>3, <1>5, OnDiskStays DEF OnDisk
  <1>7. QED
    BY <1>3, <1>5, <1>6 DEF PageKept

LEMMA KeptStep ==
  ASSUME MissingIsNoContents, IInv, FlushedSoFar, SlotsPacked, CatalogInv, ListsInv,
         EntriesInv, KeptInv, AnswerInv, [Next]_vars
  PROVE  KeptInv'
  <1> SUFFICES ASSUME orderly' PROVE KeptInv'
    BY DEF KeptInv
  <1>1. CASE Execute /\ ~Abort
    BY <1>1, KeptExecute
  <1>2. CASE Flush
    <2>1. orderly
      BY <1>2 DEF Flush, FlushOpen, FlushCatalog, FlushTable, FlushDone, history
    <2>2. QED
      BY <1>2, <2>1, KeptFlush
  <1>3. CASE Reply
    BY <1>3, KeptReply DEF Reply
  <1>4. CASE Abort \/ Kill
    BY <1>4, KeptGone DEF Abort, Kill
  <1>5. CASE LoadRecord
    BY <1>5, KeptRecord DEF LoadRecord, history
  <1>6. CASE Receive \/ LoadSkip \/ LoadNoFile \/ LoadCatalog \/ LoadDone \/ Restart
    <2>1. /\ orderly /\ acked' = acked /\ files' = files /\ catFile' = catFile
          /\ tableLoc' = tableLoc /\ tablePtrs' = tablePtrs
          /\ ~Answering /\ ~Answering'
      BY <1>6 DEF Receive, LoadSkip, LoadNoFile, LoadCatalog, LoadDone, Restart, memVars,
         fileVars, history, Answering
    <2>2. \A n : ~RowWaits(n) /\ ~RowWaits(n)'
      BY <2>1 DEF RowWaits
    <2>3. QED
      BY <2>1, <2>2, FileListsSame, KeptStays DEF Doubt
  <1>7. CASE UNCHANGED vars
    <2>1. /\ orderly' = orderly /\ acked' = acked /\ files' = files /\ catFile' = catFile
          /\ tableLoc' = tableLoc /\ tablePtrs' = tablePtrs
          /\ pc' = pc /\ query' = query /\ reply' = reply /\ pending' = pending
      BY <1>7 DEF vars, memVars, fileVars, history
    <2>2. Doubt' = Doubt /\ \A n : RowWaits(n)' <=> RowWaits(n)
      BY <2>1 DEF Doubt, Answering, Whole, Busy, RowWaits
    <2>3. QED
      BY <2>1, <2>2, FileListsSame, KeptStays
  <1>8. QED
    BY <1>1, <1>2, <1>3, <1>4, <1>5, <1>6, <1>7 DEF Next, Serve, Load

(***************************************************************************)
(* The mapping                                                             *)
(***************************************************************************)

Open == Whole({"create", "drop"})
Mapped == DOMAIN acked \ Open

(* A table as a restarted server would show it.                            *)
Filed(cfile, fs, n) ==
  LET loc == IF cfile = NoFile THEN NotFound ELSE FirstMatch(cfile, n)
      types == IF loc = NotFound THEN << >> ELSE ColumnTypes(cfile, loc)
  IN  [types |-> types, rows |-> View(PageIn(fs, n), types)]

SnapFiled(fs, types, n) == [types |-> types, rows |-> View(PageIn(fs, n), types)]

ListsOf(cfile) == IF cfile = NoFile THEN << >> ELSE Listed(cfile)

RefInv ==
  /\ IInv /\ FlushedSoFar /\ SlotsPacked /\ CatalogInv
  /\ ListsInv /\ EntriesInv /\ KeptInv /\ AnswerInv

LEMMA FiledReads ==
  ASSUME NEW cfile, NEW fs, NEW n, n \in DOMAIN ListsOf(cfile), n \in DOMAIN fs
  PROVE  Filed(cfile, fs, n) = [types |-> ListsOf(cfile)[n],
                                rows |-> View(fs[n], ListsOf(cfile)[n])]
  <1>1. cfile # NoFile
    <2>1. DOMAIN << >> = {}
      OBVIOUS
    <2>2. QED
      BY <2>1 DEF ListsOf
  <1>2. FirstMatch(cfile, n) # NotFound
    BY <1>1 DEF ListsOf, Listed
  <1>3. ListsOf(cfile)[n] = ColumnTypes(cfile, FirstMatch(cfile, n))
    BY <1>1 DEF ListsOf, Listed
  <1>4. PageIn(fs, n) = fs[n]
    BY DEF PageIn
  <1>5. QED
    BY <1>1, <1>2, <1>3, <1>4 DEF Filed

LEMMA MappingIs ==
  /\ OnFile = [n \in Mapped |-> Filed(catFile, files, n)]
  /\ OnFile' = [n \in Mapped' |-> Filed(catFile', files', n)]
  /\ SnapsOnFile = [n \in DOMAIN snapped \ (Whole({"take"}) \ NotOnFile) |->
                      SnapFiled(snapFiles, snapped[n].types, n)]
  /\ SnapsOnFile' = [n \in DOMAIN snapped' \ (Whole({"take"})' \ NotOnFile') |->
                       SnapFiled(snapFiles', snapped'[n].types, n)]
  BY DEF OnFile, SnapsOnFile, Mapped, Open, Filed, SnapFiled

LEMMA NotOnFileIs ==
  /\ NotOnFile = Names \ (Open \cup DOMAIN FileLists)
  /\ NotOnFile' = Names \ (Open' \cup DOMAIN FileLists')
  <1>1. \A cfile, n : n \in Names =>
          (cfile = NoFile \/ FirstMatch(cfile, n) = NotFound <=> n \notin DOMAIN ListsOf(cfile))
    <2>1. DOMAIN << >> = {}
      OBVIOUS
    <2>2. QED
      BY <2>1 DEF ListsOf, Listed
  <1>2. FileLists = ListsOf(catFile) /\ FileLists' = ListsOf(catFile')
    BY DEF FileLists, ListsOf
  <1>3. NotOnFile = Names \ (Open \cup DOMAIN ListsOf(catFile))
    BY <1>1 DEF NotOnFile, Open
  <1>4. NotOnFile' = Names \ (Open' \cup DOMAIN ListsOf(catFile'))
    BY <1>1 DEF NotOnFile, Open
  <1>5. QED
    BY <1>2, <1>3, <1>4

(* What is mapped is on file.                                              *)
LEMMA MappedReads ==
  ASSUME KeptInv, orderly, NEW n \in Mapped
  PROVE  /\ OnDisk(n) /\ PageKept(n) /\ n \in DOMAIN FileLists /\ n \in DOMAIN files
         /\ n \in DOMAIN OnFile
         /\ OnFile[n] = [types |-> FileLists[n], rows |-> View(files[n], FileLists[n])]
  <1>1. n \in DOMAIN acked \ Doubt
    BY DEF Mapped, Open, Doubt
  <1>2. OnDisk(n) /\ PageKept(n) /\ n \in DOMAIN FileLists /\ n \in DOMAIN files
    BY <1>1 DEF KeptInv, OnDisk
  <1>3. FileLists = ListsOf(catFile)
    BY DEF FileLists, ListsOf
  <1>4. n \in DOMAIN OnFile /\ OnFile[n] = Filed(catFile, files, n)
    BY MappingIs
  <1>5. QED
    BY <1>2, <1>3, <1>4, FiledReads

(* Steps that leave what is mapped as it is on file.                       *)
LEMMA SameFiled ==
  ASSUME KeptInv, orderly,
         \A n \in Mapped : /\ n \in DOMAIN FileLists' /\ FileLists'[n] = FileLists[n]
                           /\ n \in DOMAIN files' /\ files'[n] = files[n]
  PROVE  \A n \in Mapped : Filed(catFile', files', n) = Filed(catFile, files, n)
  <1> SUFFICES ASSUME NEW n \in Mapped
               PROVE  Filed(catFile', files', n) = Filed(catFile, files, n)
    OBVIOUS
  <1>1. n \in DOMAIN FileLists /\ n \in DOMAIN files
    BY MappedReads
  <1>2. FileLists = ListsOf(catFile) /\ FileLists' = ListsOf(catFile')
    BY DEF FileLists, ListsOf
  <1>3. Filed(catFile, files, n) = [types |-> FileLists[n], rows |-> View(files[n], FileLists[n])]
    BY <1>1, <1>2, FiledReads
  <1>4. Filed(catFile', files', n) =
          [types |-> FileLists'[n], rows |-> View(files'[n], FileLists'[n])]
    BY <1>2, FiledReads
  <1>5. QED
    BY <1>3, <1>4

Told == IF pc = "reply" THEN reply ELSE NoReply

LEMMA Stutters ==
  ASSUME KeptInv, orderly, orderly', acked' = acked, query' = query, snapped' = snapped,
         DOMAIN FileLists' \cup Open = DOMAIN FileLists \cup Open,
         \A n \in Mapped : /\ FileLists'[n] = FileLists[n]
                           /\ n \in DOMAIN files' /\ files'[n] = files[n],
         \A n \in DOMAIN SnapsOnFile : PageIn(snapFiles', n) = PageIn(snapFiles, n)
  PROVE  OnFile' = OnFile /\ NotOnFile' = NotOnFile /\ SnapsOnFile' = SnapsOnFile
  <1>1. Open' = Open /\ Mapped' = Mapped /\ Whole({"take"})' = Whole({"take"})
    BY DEF Open, Whole, Busy, Mapped
  <1>2. \A n \in Mapped : n \in DOMAIN FileLists'
    <2>1. \A n \in Mapped : n \in DOMAIN FileLists /\ n \notin Open
      BY MappedReads DEF Mapped
    <2>2. QED
      BY <2>1
  <1>3. OnFile' = OnFile
    BY <1>1, <1>2, SameFiled, MappingIs
  <1>4. NotOnFile' = NotOnFile
    BY <1>1, NotOnFileIs
  <1>5. SnapsOnFile' = SnapsOnFile
    <2>1. PICK D : D = DOMAIN snapped \ (Whole({"take"}) \ NotOnFile)
      OBVIOUS
    <2>2. \A n \in D : SnapFiled(snapFiles', snapped[n].types, n) =
                       SnapFiled(snapFiles, snapped[n].types, n)
      BY <2>1, MappingIs DEF SnapFiled
    <2>3. QED
      BY <1>1, <1>4, <2>1, <2>2, MappingIs
  <1>6. QED
    BY <1>3, <1>4, <1>5

(* Steps in which nothing is asked, inserted or answered.                  *)
LEMMA StutterVars ==
  ASSUME OnFile' = OnFile, NotOnFile' = NotOnFile, SnapsOnFile' = SnapsOnFile,
         query' = query, Inserted' = Inserted, orderly' = orderly,
         Told' = Told
  PROVE  UNCHANGED Promise!vars
  BY DEF Promise!vars, Told

LEMMA LoadMaps ==
  ASSUME RefInv, Load, orderly
  PROVE  UNCHANGED Promise!vars
  <1>1. /\ acked' = acked /\ query' = query /\ snapped' = snapped /\ orderly' = orderly
        /\ catFile' = catFile /\ snapFiles' = snapFiles
        /\ pc \in {"load", "walk"} /\ pc' \in {"load", "walk", "exec"}
    BY DEF Load, LoadSkip, LoadNoFile, LoadCatalog, LoadRecord, LoadDone, fileVars, history
  <1>2. FileLists' = FileLists /\ KeptInv
    BY <1>1, FileListsSame DEF RefInv
  <1>3. files' = files \/ \E ref : files' = OpenCreate(files, ref)
    BY DEF Load, LoadSkip, LoadNoFile, LoadCatalog, LoadRecord, LoadDone, fileVars
  <1>4. \A n \in Mapped : n \in DOMAIN files' /\ files'[n] = files[n]
    BY <1>2, <1>3, MappedReads DEF OpenCreate, Put
  <1>5. Inserted' = Inserted /\ Told' = Told
    BY <1>1 DEF Inserted, Told
  <1>6. OnFile' = OnFile /\ NotOnFile' = NotOnFile /\ SnapsOnFile' = SnapsOnFile
    <2>1. \A n : PageIn(snapFiles', n) = PageIn(snapFiles, n)
      BY <1>1
    <2>2. QED
      BY <1>1, <1>2, <1>4, <2>1, Stutters
  <1>7. QED
    BY <1>1, <1>5, <1>6, StutterVars

(* A table that is known, or not known, in memory is so on file, unless it *)
(* is being created or dropped.                                            *)
LEMMA KnownOnFile ==
  ASSUME CatalogInv, ListsInv, orderly, Loaded, query.name \in Names \ Doubt
  PROVE  Known <=> query.name \in DOMAIN FileLists
  <1>1. query.name \in DOMAIN Listed(cat) <=> query.name \in DOMAIN FileLists
    BY DEF ListsInv, HasRead, SameLists
  <1>2. QED
    BY <1>1, LoadedLists DEF Known

LEMMA ExecuteMaps ==
  ASSUME RefInv, Execute, ~Abort, orderly'
  PROVE  UNCHANGED Promise!vars
  <1> USE DEF RefInv
  <1>1. /\ orderly /\ acked' = acked /\ snapped' = snapped
    <2>1. CASE Create \/ Drop
      BY <2>1 DEF Create, Drop, Judge
    <2>2. CASE \/ InsertRefused \/ InsertRow \/ Select \/ DropUnknown \/ TakeSnap \/ ShowSnap
               \/ Unimplemented \/ Hang
      BY <2>2, Zenon DEF InsertRefused, InsertRow, Select, DropUnknown, TakeSnap, ShowSnap,
         Unimplemented, Hang, history
    <2>3. QED
      BY <2>1, <2>2 DEF Execute
  <1>2. /\ catFile' = catFile /\ query' = query /\ pc = "exec" /\ pc' \in {"flush", "hung"}
        /\ files' = files \/ (Drop /\ files' = Without(files, query.name))
        /\ \/ snapFiles' = snapFiles
           \/ ShowSnap /\ snapFiles' = OpenCreate(snapFiles, query.name)
           \/ /\ TakeSnap /\ Known
              /\ snapFiles' = Put(snapFiles, query.name, PageOf(query.name))
    BY Zenon DEF Execute, Create, Drop, InsertRefused, InsertRow, Select, DropUnknown, TakeSnap,
       ShowSnap, Unimplemented, Hang, fileVars, Running, Answer, PageOf
  <1>3. query \in Query /\ query # NoQuery /\ query.name \in Names
    BY <1>2, NoneAssumption DEF IInv, TypeOK, Query
  <1>4. FileLists' = FileLists
    BY <1>2, FileListsSame
  <1>5. \A n \in Mapped : n \in DOMAIN files' /\ files'[n] = files[n]
    <2>1. \A n \in Mapped : n \in DOMAIN files
      BY <1>1, MappedReads
    <2>2. CASE files' = files
      BY <2>1, <2>2
    <2>3. CASE Drop /\ files' = Without(files, query.name)
      <3>1. query.kind = "drop"
        BY <2>3 DEF Drop, Running
      <3>2. query.name \notin Mapped
        BY <1>3, <3>1 DEF Mapped, Open, Whole, Busy
      <3>3. QED
        BY <2>1, <2>3, <3>2 DEF Without, Restrict
    <2>4. QED
      BY <1>2, <2>2, <2>3
  <1>6. \A n \in DOMAIN SnapsOnFile : PageIn(snapFiles', n) = PageIn(snapFiles, n)
    <2>1. CASE snapFiles' = snapFiles
      BY <2>1
    <2>2. CASE snapFiles' = OpenCreate(snapFiles, query.name)
      BY <2>2, OpenCreateReads
    <2>3. CASE /\ TakeSnap /\ Known
               /\ snapFiles' = Put(snapFiles, query.name, PageOf(query.name))
      <3>1. query.kind = "take"
        BY <2>3, Zenon DEF TakeSnap, Running
      <3>2. query.name \notin NotOnFile
        BY <1>1, <1>2, <1>3, <2>3, KnownOnFile, NotOnFileIs DEF Doubt, Answering, Loaded
      <3>3. query.name \notin DOMAIN SnapsOnFile
        BY <1>3, <3>1, <3>2, MappingIs DEF Whole, Busy
      <3>4. QED
        BY <2>3, <3>3 DEF Put, PageIn
    <2>4. QED
      BY <1>2, <2>1, <2>2, <2>3
  <1>7. Inserted' = Inserted /\ Told' = Told /\ orderly' = orderly
    BY <1>1, <1>2 DEF Inserted, Told, IInv, TypeOK
  <1>8. OnFile' = OnFile /\ NotOnFile' = NotOnFile /\ SnapsOnFile' = SnapsOnFile
    BY <1>1, <1>2, <1>4, <1>5, <1>6, Stutters
  <1>9. QED
    BY <1>2, <1>7, <1>8, StutterVars

(* A reader of a page finds a row more after a row is added to it.         *)
LEMMA ViewAppend ==
  ASSUME NEW page \in Page, NEW types, NEW data, Legible(page, types)
  PROVE  View(Append1(page, types, data), types) =
           Append(View(page, types), Stored(types, data))
  <1> DEFINE row == [layout |-> Layout(types), data |-> Stored(types, data)]
  <1>1. PICK rows : rows = page.rows /\ rows \in Seq(Row)
    BY DEF Page
  <1>2. PICK r, d : r = row /\ d = Stored(types, data) /\ r.data = d
    <2>1. row.data = Stored(types, data)
      OBVIOUS
    <2>2. QED
      BY <2>1
  <1>3. PICK more : more = Append(rows, r)
    OBVIOUS
  <1>4. /\ DOMAIN rows = 1 .. Len(rows) /\ Len(rows) \in Nat
        /\ DOMAIN more = 1 .. Len(rows) + 1 /\ more # << >>
        /\ \A i \in DOMAIN rows : more[i] = rows[i]
        /\ more[Len(rows) + 1] = r
    BY <1>1, <1>3
  <1>5. PICK old : old = View(page, types)
    OBVIOUS
  <1>6. old = [i \in 1 .. Len(rows) |-> rows[i].data]
    <2>1. CASE rows = << >>
      <3>1. Len(rows) = 0 /\ old = << >>
        BY <1>1, <1>5, <2>1 DEF View
      <3>2. QED
        BY <3>1
    <2>2. CASE rows # << >>
      BY <1>1, <1>4, <1>5, <2>2 DEF View, Legible
    <2>3. QED
      BY <2>1, <2>2
  <1>7. /\ Append1(page, types, data).start = page.start
        /\ Append1(page, types, data).rows = more
    BY <1>1, <1>2, <1>3 DEF Append1, Page
  <1>8. Legible(Append1(page, types, data), types)
    BY LegibleAppend
  <1>9. View(Append1(page, types, data), types) = [i \in DOMAIN more |-> more[i].data]
    BY <1>4, <1>7, <1>8 DEF View, Legible
  <1>10. [i \in DOMAIN more |-> more[i].data] = Append(old, d)
    <2>1. Len(old) = Len(rows)
      BY <1>4, <1>6
    <2>2. PICK new : new = [i \in DOMAIN more |-> more[i].data]
      OBVIOUS
    <2>3. \A i \in 1 .. Len(rows) + 1 : new[i] = IF i <= Len(rows) THEN old[i] ELSE d
      BY <1>2, <1>4, <1>6, <2>2
    <2>4. Append(old, d) = [i \in 1 .. Len(rows) + 1 |-> IF i <= Len(rows) THEN old[i] ELSE d]
      BY <1>4, <1>6, <2>1
    <2>5. QED
      BY <1>4, <2>2, <2>3, <2>4
  <1>11. QED
    BY <1>2, <1>5, <1>9, <1>10

(* The write of the page that holds the inserted row: the insertion.       *)
LEMMA InsertMaps ==
  ASSUME RefInv, FlushTable, orderly, query.name \in Mapped, RowWaits(query.name),
         query.name \notin pending'
  PROVE  Promise!Insert
  <1> USE DEF RefInv
  <1> DEFINE name == query.name
  <1>1. PICK m \in pending :
          /\ files' = IF m = NoText THEN files ELSE Put(files, m, PageOf(m))
          /\ pending' = pending \ {m}
    BY DEF FlushTable, PageOf
  <1>2. /\ acked' = acked /\ query' = query /\ snapped' = snapped /\ orderly' = orderly
        /\ catFile' = catFile /\ snapFiles' = snapFiles /\ pc = "tables" /\ pc' = "tables"
        /\ reply' = reply
    BY DEF FlushTable, history
  <1>3. /\ query.kind = "insert" /\ query # NoQuery /\ name \in pending /\ m = name
        /\ reply.said = "INSERT SUCCESS"
    BY <1>1, <1>2, NoneAssumption DEF RowWaits, IInv, TypeOK
  <1>4. FileLists' = FileLists /\ Mapped' = Mapped /\ Open' = Open /\ Open = {}
    BY <1>2, <1>3, FileListsSame DEF Mapped, Open, Whole, Busy
  <1>5. /\ OnDisk(name) /\ PageKept(name) /\ name \in DOMAIN OnFile
        /\ OnFile[name] = [types |-> FileLists[name], rows |-> View(files[name], FileLists[name])]
    BY MappedReads
  <1>6. PICK types, page, data :
          types = FileLists[name] /\ page = files[name] /\ data = query.data
    OBVIOUS
  <1>7. name \in DOMAIN tableLoc /\ name \in Names /\ name # NoText
    BY <1>2, <1>3, TextAssumption DEF IInv, TypeOK, Query
  <1>8. /\ PageOf(name) = Append1(page, types, data)
        /\ Len(data) = Len(types) /\ NumbersOnly(types, data)
    BY <1>5, <1>6, <1>7 DEF PageKept, RowAhead
  <1>9. page \in Page /\ Legible(page, types)
    BY <1>5, <1>6 DEF OnDisk, IInv, TypeOK, Pages
  <1>10. PICK seen, row : seen = View(page, types) /\ row = Stored(types, data)
    OBVIOUS
  <1>11. View(PageOf(name), types) = Append(seen, row)
    BY <1>8, <1>9, <1>10, ViewAppend
  <1>12. /\ DOMAIN files' = DOMAIN files \cup {name} /\ files'[name] = PageOf(name)
         /\ \A n \in DOMAIN files : n # name => files'[n] = files[n]
    BY <1>1, <1>3, <1>7 DEF Put
  <1>13. OnFile' = [OnFile EXCEPT ![name] = [types |-> types, rows |-> Append(seen, row)]]
    <2>1. FileLists = ListsOf(catFile) /\ FileLists' = ListsOf(catFile')
      BY DEF FileLists, ListsOf
    <2>2. ASSUME NEW n \in Mapped
          PROVE  Filed(catFile', files', n) =
                   IF n = name THEN [types |-> types, rows |-> Append(seen, row)] ELSE OnFile[n]
      <3>1. n \in DOMAIN FileLists /\ n \in DOMAIN files' /\ n \in DOMAIN files
        BY <1>12, MappedReads
      <3>2. Filed(catFile', files', n) =
              [types |-> FileLists[n], rows |-> View(files'[n], FileLists[n])]
        BY <1>4, <2>1, <3>1, FiledReads
      <3>3. CASE n = name
        BY <1>6, <1>11, <1>12, <3>2, <3>3
      <3>4. CASE n # name
        BY <1>12, <3>1, <3>2, <3>4, MappedReads
      <3>5. QED
        BY <3>3, <3>4
    <2>3. PICK G : G = OnFile
      OBVIOUS
    <2>4. DOMAIN G = Mapped /\ G = [n \in Mapped |-> G[n]]
      BY <2>3, MappingIs
    <2>5. OnFile' = [n \in Mapped |-> Filed(catFile', files', n)]
      BY <1>4, MappingIs
    <2>6. OnFile' = [n \in Mapped |->
                       IF n = name THEN [types |-> types, rows |-> Append(seen, row)] ELSE G[n]]
      BY <2>2, <2>3, <2>5
    <2>7. QED
      BY <2>3, <2>4, <2>6
  <1>14. PICK e : e = OnFile[name]
    OBVIOUS
  <1>15. e = [types |-> types, rows |-> seen]
    BY <1>5, <1>6, <1>10, <1>14
  <1>16. [e EXCEPT !.rows = Append(@, Stored(e.types, data))] =
           [types |-> types, rows |-> Append(seen, row)]
    BY <1>10, <1>15
  <1>17. OnFile' = [OnFile EXCEPT ![name].rows = Append(@, Stored(OnFile[name].types, data))]
    BY <1>13, <1>14, <1>16
  <1>18. NotOnFile' = NotOnFile
    BY <1>4, NotOnFileIs
  <1>19. SnapsOnFile' = SnapsOnFile
    BY <1>2, <1>18 DEF SnapsOnFile, Whole, Busy
  <1>20. ~Inserted /\ Inserted'
    <2>1. name \in DOMAIN acked
      BY DEF Mapped
    <2>2. QED
      BY <1>1, <1>2, <1>3, <2>1 DEF Inserted, Busy
  <1>21. e.types = types
    BY <1>15
  <1>22. QED
    BY <1>2, <1>3, <1>5, <1>6, <1>8, <1>14, <1>17, <1>18, <1>19, <1>20, <1>21
       DEF Promise!Insert, Promise!There, Promise!Table

(* Every other write puts what is there already, or what is in doubt.      *)
LEMMA FlushMaps ==
  ASSUME MissingIsNoContents, RefInv, FlushOpen \/ FlushCatalog \/ FlushTable, orderly
  PROVE  UNCHANGED Promise!vars \/ Promise!Insert
  <1> USE DEF RefInv
  <1>1. /\ acked' = acked /\ query' = query /\ snapped' = snapped /\ orderly' = orderly
        /\ snapFiles' = snapFiles /\ reply' = reply
        /\ pc \in {"flush", "write", "tables"} /\ pc' \in {"write", "tables"}
        /\ tableLoc' = tableLoc
    BY DEF FlushOpen, FlushCatalog, FlushTable, history, memVars
  <1>2. /\ Told' = Told /\ Mapped \cap Doubt = {} /\ Doubt = Open
        /\ \A n : PageIn(snapFiles', n) = PageIn(snapFiles, n)
    BY <1>1 DEF Told, Doubt, Answering, Open, Mapped
  <1>3. ASSUME DOMAIN FileLists' \cup Open = DOMAIN FileLists \cup Open,
               \A n \in Mapped : FileLists'[n] = FileLists[n] /\ n \in DOMAIN files'
                                   /\ files'[n] = files[n],
               Inserted' = Inserted
        PROVE  UNCHANGED Promise!vars
    <2>1. OnFile' = OnFile /\ NotOnFile' = NotOnFile /\ SnapsOnFile' = SnapsOnFile
      BY <1>1, <1>2, <1>3, Stutters
    <2>2. QED
      BY <1>1, <1>2, <1>3, <2>1, StutterVars
  <1>4. \A n \in Mapped : n \in DOMAIN FileLists /\ n \in DOMAIN files
    BY MappedReads
  <1>5. CASE FlushOpen
    <2>1. /\ FileLists' = FileLists /\ files' = files /\ pc = "flush" /\ pc' = "write"
      BY <1>5, OpenedLists DEF FlushOpen
    <2>2. Inserted' = Inserted
      BY <2>1 DEF Inserted
    <2>3. QED
      BY <1>3, <1>4, <2>1, <2>2
  <1>6. CASE FlushCatalog
    <2>1. /\ files' = files /\ pc = "write" /\ pc' = "tables" /\ pending' = DOMAIN tableLoc
      BY <1>6 DEF FlushCatalog
    <2>2. FileLists' = Listed(cat)
      BY <1>6, FlushedLists
    <2>3. SameLists(Listed(cat), FileLists, Open)
      BY <1>2, <2>1 DEF ListsInv, HasRead, Loaded
    <2>4. DOMAIN FileLists \subseteq Names /\ DOMAIN Listed(cat) \subseteq Names
      <3>1. DOMAIN << >> = {}
        OBVIOUS
      <3>2. QED
        BY <3>1 DEF FileLists, Listed
    <2>5. DOMAIN FileLists' \cup Open = DOMAIN FileLists \cup Open
      BY <2>2, <2>3, <2>4 DEF SameLists
    <2>6. \A n \in Mapped : FileLists'[n] = FileLists[n]
      BY <1>4, <2>2, <2>3, <2>4 DEF SameLists, Mapped
    <2>7. Inserted' = Inserted
      <3>1. ~Inserted
        BY <2>1 DEF Inserted
      <3>2. ASSUME Inserted' PROVE FALSE
        <4>1. query.name \in DOMAIN acked /\ query.name \notin DOMAIN tableLoc
          BY <1>1, <2>1, <3>2, Zenon DEF Inserted
        <4>2. query.kind = "insert"
          BY <1>1, <3>2, Zenon DEF Inserted, Busy
        <4>3. query.name \in DOMAIN acked \ Doubt
          BY <1>2, <4>1, <4>2 DEF Open, Whole, Busy
        <4>4. QED
          BY <2>1, <4>1, <4>3, AckedKnown DEF Loaded
      <3>3. QED
        BY <3>1, <3>2, Zenon DEF Inserted
    <2>8. QED
      BY <1>3, <1>4, <2>1, <2>5, <2>6, <2>7
  <1>7. CASE FlushTable
    <2>1. PICK m \in pending :
            /\ files' = IF m = NoText THEN files ELSE Put(files, m, PageOf(m))
            /\ pending' = pending \ {m}
      BY <1>7 DEF FlushTable, PageOf
    <2>2. pc = "tables" /\ pc' = "tables" /\ catFile' = catFile /\ FileLists' = FileLists
      BY <1>7, FileListsSame DEF FlushTable
    <2>3. m \in DOMAIN tableLoc
      BY <2>1, <2>2 DEF IInv, TypeOK
    <2>4. CASE m \in Mapped /\ RowWaits(m)
      <3>1. m = query.name
        BY <2>4 DEF RowWaits
      <3>2. QED
        BY <1>7, <2>1, <2>4, <3>1, InsertMaps
    <2>5. CASE ~(m \in Mapped /\ RowWaits(m))
      <3>1. m \in Mapped => PageOf(m) = files[m]
        BY <2>3, <2>5, MappedReads DEF PageKept
      <3>2. \A n \in Mapped : n \in DOMAIN files' /\ files'[n] = files[n]
        BY <1>4, <2>1, <3>1 DEF Put
      <3>3. Inserted' <=> Inserted
        <4>1. ASSUME Busy({"insert"}), reply.said = "INSERT SUCCESS",
                     query.name \in DOMAIN acked
              PROVE  m # query.name
          <5>1. query.kind = "insert"
            BY <4>1 DEF Busy
          <5>2. query.name \in Mapped
            BY <4>1, <5>1 DEF Mapped, Open, Whole, Busy
          <5>3. m = query.name => RowWaits(m)
            BY <2>1, <2>2, <4>1, <5>1 DEF RowWaits, Answering
          <5>4. QED
            BY <2>5, <5>2, <5>3
        <4>2. QED
          BY <1>1, <2>1, <2>2, <4>1 DEF Inserted, Busy
      <3>4. Inserted' = Inserted
        BY <3>3, Zenon DEF Inserted
      <3>5. QED
        BY <1>3, <1>4, <2>2, <3>2, <3>4
    <2>6. QED
      BY <2>4, <2>5
  <1>8. QED
    BY <1>5, <1>6, <1>7

(* What a query about a table that is there is answered.                   *)
LEMMA ThereKnown ==
  ASSUME RefInv, orderly, pc \in {"tables", "reply"}, pending = {}, query.name \in DOMAIN OnFile
  PROVE  /\ Known /\ Meta = FileLists[query.name]
         /\ PageOf(query.name) = files[query.name]
         /\ OnFile[query.name] =
              [types |-> Meta, rows |-> View(PageOf(query.name), Meta)]
  <1> USE DEF RefInv
  <1>1. query.name \in Mapped
    BY MappingIs
  <1>2. /\ PageKept(query.name)
        /\ OnFile[query.name] = [types |-> FileLists[query.name],
                                 rows |-> View(files[query.name], FileLists[query.name])]
    BY <1>1, MappedReads
  <1>3. query.name \in DOMAIN acked \ Doubt
    BY <1>1 DEF Mapped, Open, Doubt
  <1>4. /\ Known /\ query.name \in Names
        /\ query.name \in DOMAIN Listed(cat) /\ Listed(cat)[query.name] = FileLists[query.name]
    BY <1>3, AckedKnown DEF Loaded, Known
  <1>5. Meta = FileLists[query.name]
    BY <1>4, FoundLists DEF Loaded
  <1>6. ~RowWaits(query.name)
    BY DEF RowWaits
  <1>7. PageOf(query.name) = files[query.name]
    BY <1>2, <1>4, <1>6 DEF PageKept, Known
  <1>8. QED
    BY <1>2, <1>4, <1>5, <1>7

LEMMA RightAnswer ==
  ASSUME RefInv, orderly, pc = "tables", pending = {}
  PROVE  Promise!Right(reply)
  <1> USE DEF RefInv
  <1>1. query \in Query /\ query # NoQuery /\ query.name \in Names /\ Answering
    BY NoneAssumption DEF IInv, TypeOK, Query, Answering
  <1>2. ASSUME query.kind = "insert", query.name \in DOMAIN OnFile
        PROVE  reply.said = IF Inserted THEN "INSERT SUCCESS"
                            ELSE "!!Incorrectly formatted data!!"
    <2>1. Known
      BY <1>2, ThereKnown
    <2>2. reply.said \in {"INSERT SUCCESS", "!!Incorrectly formatted data!!"}
      BY <1>1, <1>2, <2>1, Zenon DEF AnswerInv, InsertDone
    <2>3. query.name \in DOMAIN acked
      BY <1>2, MappingIs DEF Mapped
    <2>4. Inserted <=> reply.said = "INSERT SUCCESS"
      BY <1>1, <1>2, <2>3 DEF Inserted, Busy
    <2>5. QED
      BY <2>2, <2>4, Zenon
  <1>3. ASSUME query.kind = "select", query.name \in DOMAIN OnFile
        PROVE  reply.said = "TABLE" /\ reply.rows = OnFile[query.name].rows
    <2>1. Known /\ OnFile[query.name].rows = View(PageOf(query.name), Meta)
      BY <1>3, ThereKnown
    <2>2. SelectDone
      BY <1>1, <1>3 DEF AnswerInv
    <2>3. reply = Shown(View(PageOf(query.name), Meta))
      BY <2>1, <2>2, Zenon DEF SelectDone
    <2>4. QED
      BY <2>1, <2>3 DEF Shown
  <1>4. ASSUME query.kind = "view", query.name \in DOMAIN OnFile,
               query.name \in DOMAIN SnapsOnFile,
               OnFile[query.name].types = SnapsOnFile[query.name].types
        PROVE  reply.rows = SnapsOnFile[query.name].rows
    <2>1. OnFile[query.name].types = Meta
      BY <1>4, ThereKnown
    <2>2. reply = Shown(View(PageIn(snapFiles, query.name), Meta))
      BY <1>1, <1>4 DEF AnswerInv, ViewDone
    <2>3. SnapsOnFile[query.name] = SnapFiled(snapFiles, snapped[query.name].types, query.name)
      BY <1>4, MappingIs
    <2>4. PICK types, page : types = snapped[query.name].types
                             /\ page = PageIn(snapFiles, query.name)
      OBVIOUS
    <2>5. SnapsOnFile[query.name] = [types |-> types, rows |-> View(page, types)]
      BY <2>3, <2>4 DEF SnapFiled
    <2>6. PICK e, rows : e = SnapsOnFile[query.name] /\ rows = View(page, types)
      OBVIOUS
    <2>7. e.types = types /\ e.rows = rows
      BY ONLY <2>5, <2>6
    <2>8. types = Meta
      BY <1>4, <2>1, <2>6, <2>7
    <2>9. reply.rows = rows
      BY <2>2, <2>4, <2>6, <2>8 DEF Shown
    <2>10. QED
      BY <2>6, <2>7, <2>9
  <1>5. ASSUME query.kind \in {"insert", "take", "select"}, query.name \in NotOnFile
        PROVE  ~Known
    <2>1. Doubt = {}
      BY <1>5 DEF Doubt, Whole, Busy
    <2>2. QED
      BY <1>1, <1>5, <2>1, NotOnFileIs, KnownOnFile DEF Loaded
  <1>6. ASSUME query.kind \in {"insert", "take"}, query.name \in NotOnFile
        PROVE  reply.said = "!!Table Not Found!!"
    <2>1. CASE query.kind = "insert"
      BY <1>1, <1>5, <1>6, <2>1, Zenon DEF AnswerInv, InsertDone
    <2>2. CASE query.kind = "take"
      BY <1>1, <1>5, <1>6, <2>2, Zenon DEF AnswerInv, TakeDone
    <2>3. QED
      BY <1>6, <2>1, <2>2
  <1>7. ASSUME query.kind = "select", query.name \in NotOnFile
        PROVE  reply.said = "!! TABLE DOESN'T EXIST !!!!"
    <2>1. SelectDone
      BY <1>1, <1>7 DEF AnswerInv
    <2>2. reply = NoSuchTable
      BY <1>5, <1>7, <2>1 DEF SelectDone
    <2>3. QED
      BY <2>2, ReplyTypes, SayingsAre, Zenon DEF NoSuchTable
  <1>8. QED
    BY <1>2, <1>3, <1>4, <1>6, <1>7, Zenon DEF Promise!Right, Promise!There, Promise!Table

IsRight(r) == Promise!Right(r)

LEMMA SettleMaps ==
  ASSUME RefInv, FlushDone, orderly
  PROVE  Promise!Settle
  <1> USE DEF RefInv
  <1>1. /\ acked' = acked /\ query' = query /\ snapped' = snapped /\ orderly' = orderly
        /\ catFile' = catFile /\ files' = files /\ snapFiles' = snapFiles /\ reply' = reply
        /\ pc = "tables" /\ pc' = "reply" /\ pending = {} /\ pending' = pending
    BY DEF FlushDone, history, fileVars
  <1>2. query # NoQuery
    BY <1>1, NoneAssumption DEF IInv, TypeOK
  <1>3. reply # NoReply
    BY <1>1, NoneAssumption DEF AnswerInv, Answering
  <1>4. IsRight(reply)
    BY <1>1, RightAnswer DEF IsRight
  <1>5. OnFile' = OnFile /\ NotOnFile' = NotOnFile /\ SnapsOnFile' = SnapsOnFile
    <2>1. FileLists' = FileLists
      BY <1>1, FileListsSame
    <2>2. /\ \A n \in Mapped : n \in DOMAIN files' /\ files'[n] = files[n]
          /\ \A n : PageIn(snapFiles', n) = PageIn(snapFiles, n)
      BY <1>1, MappedReads
    <2>3. QED
      BY <1>1, <2>1, <2>2, Stutters
  <1>6. Inserted' = Inserted
    BY <1>1 DEF Inserted, Busy
  <1>7. QED
    BY <1>1, <1>2, <1>3, <1>4, <1>5, <1>6, Zenon DEF Promise!Settle, IsRight

(* A query is received: what it may replace is in doubt from now on.       *)
LEMMA AskMaps ==
  ASSUME RefInv, Receive, orderly
  PROVE  Promise!Ask
  <1> USE DEF RefInv
  <1>1. /\ acked' = acked /\ snapped' = snapped /\ orderly' = orderly
        /\ catFile' = catFile /\ files' = files /\ snapFiles' = snapFiles
        /\ pc = "idle" /\ pc' = "load" /\ query' \in Query
    BY DEF Receive, history, fileVars
  <1>2. query = NoQuery /\ query' # NoQuery
    BY <1>1, NoneAssumption DEF IInv, TypeOK
  <1>3. FileLists' = FileLists
    BY <1>1, FileListsSame
  <1>4. /\ Open = {} /\ Whole({"take"}) = {}
        /\ Open' = IF query'.kind \in {"create", "drop"} THEN {query'.name} ELSE {}
        /\ Whole({"take"})' = IF query'.kind = "take" THEN {query'.name} ELSE {}
    BY <1>2 DEF Open, Whole, Busy
  <1>5. Mapped' = Mapped \ Open'
    BY <1>1, <1>4 DEF Mapped
  <1>6. \A n \in Mapped : Filed(catFile', files', n) = Filed(catFile, files, n)
    BY <1>1
  <1>7. OnFile' = [n \in DOMAIN OnFile \ Open' |-> OnFile[n]]
    <2>1. OnFile' = [n \in Mapped \ Open' |-> Filed(catFile, files, n)]
      BY <1>1, <1>5, MappingIs
    <2>2. DOMAIN OnFile = Mapped /\ \A n \in Mapped : OnFile[n] = Filed(catFile, files, n)
      BY MappingIs
    <2>3. QED
      BY <2>1, <2>2
  <1>8. NotOnFile' = NotOnFile \ Open'
    BY <1>3, <1>4, NotOnFileIs
  <1>9. PICK taken : taken = IF query'.kind = "take" THEN {query'.name} \ NotOnFile ELSE {}
    OBVIOUS
  <1>10. Whole({"take"})' \ NotOnFile' = taken
    BY <1>4, <1>8, <1>9
  <1>11. SnapsOnFile' = [n \in DOMAIN SnapsOnFile \ taken |-> SnapsOnFile[n]]
    <2>1. SnapsOnFile' = [n \in DOMAIN snapped \ taken |->
                            SnapFiled(snapFiles, snapped[n].types, n)]
      BY <1>1, <1>10, MappingIs
    <2>2. /\ DOMAIN SnapsOnFile = DOMAIN snapped
          /\ \A n \in DOMAIN snapped :
               SnapsOnFile[n] = SnapFiled(snapFiles, snapped[n].types, n)
      BY <1>4, MappingIs
    <2>3. QED
      BY <2>1, <2>2
  <1>12. Inserted' = Inserted
    BY <1>1 DEF Inserted
  <1>13. Told = NoReply /\ Told' = NoReply
    BY <1>1 DEF Told
  <1>14. QED
    BY <1>2, <1>4, <1>7, <1>8, <1>9, <1>11, <1>12, <1>13
       DEF Promise!Ask, Promise!Drop1, Told

LEMMA SnappedReply ==
  ASSUME IInv, AnswerInv, orderly, Reply
  PROVE  /\ query.kind = "take" =>
              snapped' = IF ~Known THEN snapped
                         ELSE IF query.name \in DOMAIN acked
                              THEN Put(snapped, query.name, acked[query.name])
                              ELSE Without(snapped, query.name)
         /\ query.kind # "take" => snapped' = snapped
  <1>1. snapped' = SnappedAfter(query, reply, acked, snapped) /\ pc = "reply"
    BY DEF Reply
  <1>2. Answering /\ query \in Query
    BY <1>1 DEF Answering, IInv, TypeOK
  <1>3. CASE query.kind = "take"
    <2>1. TakeDone
      BY <1>2, <1>3 DEF AnswerInv
    <2>2. Known <=> reply.said = "SNAP TAKEN"
      BY <2>1, Zenon DEF TakeDone
    <2>3. QED
      BY <1>1, <1>3, <2>2 DEF SnappedAfter
  <1>4. CASE query.kind # "take"
    <2>1. reply.said # "SNAP TAKEN"
      <3>1. CASE query.kind = "create"
        BY <1>2, <3>1, Zenon DEF AnswerInv, CreateDone
      <3>2. CASE query.kind = "drop"
        BY <1>2, <3>2, Zenon DEF AnswerInv, DropDone
      <3>3. CASE query.kind = "insert"
        BY <1>2, <3>3, Zenon DEF AnswerInv, InsertDone
      <3>4. CASE query.kind \in {"select", "view", "update", "delete", "unknown"}
        <4>1. reply.said \in OtherSays
          BY <1>2, <3>4, SaidBy
        <4>2. QED
          BY <4>1, Zenon DEF OtherSays
      <3>5. QED
        BY <1>2, <1>4, <3>1, <3>2, <3>3, <3>4 DEF Query
    <2>2. QED
      BY <1>1, <1>4, <2>1 DEF SnappedAfter
  <1>5. QED
    BY <1>3, <1>4

(* The reply arrives: what was in doubt is as it was asked.                *)
LEMMA ReplyMaps ==
  ASSUME MissingIsNoContents, RefInv, Reply, orderly
  PROVE  Promise!Reply
  <1> USE DEF RefInv
  <1> DEFINE name == query.name
             created == [types |-> query.types, rows |-> << >>]
  <1>1. /\ orderly' = orderly /\ catFile' = catFile /\ files' = files
        /\ snapFiles' = snapFiles /\ pc = "reply" /\ pc' = "idle" /\ query' = NoQuery
    BY DEF Reply, fileVars
  <1>2. /\ query \in Query /\ query # NoQuery /\ name \in Names /\ pending = {} /\ Answering
    BY <1>1, NoneAssumption DEF IInv, TypeOK, Query, Answering
  <1>3. /\ Open = IF query.kind \in {"create", "drop"} THEN {name} ELSE {}
        /\ Whole({"take"}) = IF query.kind = "take" THEN {name} ELSE {}
        /\ Open' = {} /\ Whole({"take"})' = {} /\ Doubt = Open
    BY <1>1, <1>2 DEF Open, Whole, Busy, Doubt
  <1>4. FileLists' = FileLists /\ FileLists = Listed(cat) /\ Loaded
    BY <1>1, FileListsSame, WrittenLists DEF FlushedSoFar, Loaded
  <1>5. Known <=> name \in DOMAIN FileLists
    BY <1>2, <1>4, LoadedLists DEF Known
  <1>6. Mapped' = IF query.kind = "create" THEN Mapped \cup {name} ELSE Mapped
    <2>1. CASE query.kind = "create"
      <3>1. PICK x : x = created
        OBVIOUS
      <3>2. acked' = Put(acked, name, x)
        BY <2>1, <3>1, AckedReply
      <3>3. DOMAIN acked' = DOMAIN acked \cup {name}
        BY <3>2 DEF Put
      <3>4. QED
        BY <1>3, <2>1, <3>3 DEF Mapped
    <2>2. CASE query.kind = "drop"
      BY <1>3, <2>2, AckedReply DEF Mapped
    <2>3. CASE query.kind \notin {"create", "drop"}
      BY <1>3, <2>3, AckedReply DEF Mapped
    <2>4. QED
      BY <2>1, <2>2, <2>3
  <1>7. OnFile' = IF query.kind = "create" THEN Promise!Put1(OnFile, name, created) ELSE OnFile
    <2>1. /\ DOMAIN OnFile = Mapped /\ \A n \in Mapped : OnFile[n] = Filed(catFile, files, n)
          /\ OnFile = [n \in Mapped |-> Filed(catFile, files, n)]
          /\ OnFile' = [n \in Mapped' |-> Filed(catFile, files, n)]
      BY <1>1, MappingIs
    <2>2. CASE query.kind = "create"
      <3>1. /\ name \in DOMAIN FileLists /\ FileLists[name] = query.types
            /\ name \in DOMAIN files /\ files[name] = FreshPage
        BY <1>1, <2>2, CreatedOnFile
      <3>2. FileLists = ListsOf(catFile)
        BY DEF FileLists, ListsOf
      <3>3. Filed(catFile, files, name) =
              [types |-> query.types, rows |-> View(FreshPage, query.types)]
        BY <3>1, <3>2, FiledReads
      <3>4. View(FreshPage, query.types) = << >>
        BY DEF View, FreshPage
      <3>5. Filed(catFile, files, name) = created
        BY <3>3, <3>4
      <3>6. OnFile' = [n \in Mapped \cup {name} |-> Filed(catFile, files, n)]
        BY <1>6, <2>1, <2>2
      <3>7. PICK x : x = created
        OBVIOUS
      <3>8. PICK G : G = OnFile
        OBVIOUS
      <3>9. OnFile' = [n \in DOMAIN G \cup {name} |-> IF n = name THEN x ELSE G[n]]
        BY <2>1, <3>5, <3>6, <3>7, <3>8
      <3>10. QED
        BY <2>2, <3>7, <3>8, <3>9 DEF Promise!Put1
    <2>3. CASE query.kind # "create"
      BY <1>6, <2>1, <2>3
    <2>4. QED
      BY <2>2, <2>3
  <1>8. NotOnFile' = IF query.kind = "drop" THEN NotOnFile \cup {name} ELSE NotOnFile
    <2>1. CASE query.kind = "create"
      <3>1. name \in DOMAIN FileLists
        BY <1>1, <2>1, CreatedOnFile
      <3>2. QED
        BY <1>3, <1>4, <2>1, <3>1, NotOnFileIs
    <2>2. CASE query.kind = "drop"
      <3>1. ~Known
        BY <1>2, <2>2 DEF AnswerInv, DropDone
      <3>2. QED
        BY <1>2, <1>3, <1>4, <1>5, <2>2, <3>1, NotOnFileIs
    <2>3. CASE query.kind \notin {"create", "drop"}
      BY <1>3, <1>4, <2>3, NotOnFileIs
    <2>4. QED
      BY <2>1, <2>2, <2>3
  <1>9. SnapsOnFile' = IF query.kind = "take" /\ name \in DOMAIN OnFile
                       THEN Promise!Put1(SnapsOnFile, name, OnFile[name]) ELSE SnapsOnFile
    <2>1. SnapsOnFile' = [n \in DOMAIN snapped' |-> SnapFiled(snapFiles, snapped'[n].types, n)]
      BY <1>1, <1>3, MappingIs
    <2>2. PICK D : D = DOMAIN snapped \ (Whole({"take"}) \ NotOnFile)
      OBVIOUS
    <2>3. /\ SnapsOnFile = [n \in D |-> SnapFiled(snapFiles, snapped[n].types, n)]
          /\ DOMAIN SnapsOnFile = D
      BY <2>2, MappingIs
    <2>4. CASE query.kind # "take"
      <3>1. snapped' = snapped
        BY <2>4, SnappedReply
      <3>2. QED
        BY <1>3, <2>1, <2>2, <2>3, <2>4, <3>1
    <2>5. CASE query.kind = "take"
      <3>1. name \in NotOnFile <=> ~Known
        BY <1>2, <1>3, <1>5, <2>5, NotOnFileIs
      <3>2. name \in DOMAIN OnFile <=> name \in DOMAIN acked
        BY <1>3, <2>5, MappingIs DEF Mapped
      <3>3. CASE ~Known
        <4>1. name \notin DOMAIN OnFile
          BY <1>1, <1>2, <3>3, ThereKnown
        <4>2. snapped' = snapped
          BY <2>5, <3>3, SnappedReply
        <4>3. D = DOMAIN snapped
          BY <1>3, <2>2, <2>5, <3>1, <3>3
        <4>4. QED
          BY <2>1, <2>3, <2>5, <4>1, <4>2, <4>3
      <3>4. CASE Known /\ name \notin DOMAIN acked
        <4>1. snapped' = Without(snapped, name)
          BY <2>5, <3>4, SnappedReply
        <4>2. D = DOMAIN snapped \ {name}
          BY <1>3, <2>2, <2>5, <3>1, <3>4
        <4>3. DOMAIN snapped' = D /\ \A n \in D : snapped'[n] = snapped[n]
          BY <4>1, <4>2 DEF Without, Restrict
        <4>4. QED
          BY <2>1, <2>3, <2>5, <3>2, <3>4, <4>3
      <3>5. CASE Known /\ name \in DOMAIN acked
        <4>1. PICK x : x = acked[name]
          OBVIOUS
        <4>2. snapped' = Put(snapped, name, x)
          BY <2>5, <3>5, <4>1, SnappedReply
        <4>3. D = DOMAIN snapped \ {name}
          BY <1>3, <2>2, <2>5, <3>1, <3>5
        <4>4. /\ DOMAIN snapped' = D \cup {name} /\ snapped'[name] = x
              /\ \A n \in D : snapped'[n] = snapped[n]
          BY <4>2, <4>3 DEF Put
        <4>5. SnapFiled(snapFiles, x.types, name) = OnFile[name]
          <5>1. /\ OnFile[name] = [types |-> Meta, rows |-> View(PageOf(name), Meta)]
                /\ Meta = FileLists[name]
            BY <1>1, <1>2, <3>2, <3>5, ThereKnown
          <5>2. name \in Mapped
            BY <3>2, <3>5, MappingIs
          <5>3. x.types = Meta
            BY <4>1, <5>1, <5>2, MappedReads DEF OnDisk
          <5>4. TakeDone
            BY <1>2, <2>5 DEF AnswerInv
          <5>5. name \in DOMAIN snapFiles /\ snapFiles[name] = PageOf(name)
            BY <3>5, <5>4, Zenon DEF TakeDone
          <5>6. PageIn(snapFiles, name) = PageOf(name)
            BY <5>5 DEF PageIn
          <5>7. QED
            BY <5>1, <5>3, <5>6 DEF SnapFiled
        <4>6. PICK G, e : G = SnapsOnFile /\ e = OnFile[name]
          OBVIOUS
        <4>7. SnapsOnFile' = [n \in D \cup {name} |-> IF n = name THEN e ELSE G[n]]
          BY <2>1, <2>3, <4>3, <4>4, <4>5, <4>6
        <4>8. QED
          BY <2>3, <2>5, <3>2, <3>5, <4>6, <4>7 DEF Promise!Put1
      <3>6. QED
        BY <3>3, <3>4, <3>5
    <2>6. QED
      BY <2>4, <2>5
  <1>10. ~Inserted'
    BY <1>1 DEF Inserted
  <1>11. Told # NoReply /\ Told' = NoReply
    BY <1>1, <1>2, NoneAssumption DEF Told, AnswerInv
  <1>12. QED
    BY <1>1, <1>7, <1>8, <1>9, <1>10, <1>11, Zenon
       DEF Promise!Reply, Promise!There, Promise!Table, Told, Inserted

(* The process ends: what was in doubt is open, the rest is as it was.     *)
LEMMA GoneMaps ==
  ASSUME RefInv, ProcessGone, pc' \in {"down", "aborted"}, orderly'
  PROVE  Promise!Crash
  <1> USE DEF RefInv
  <1>1. /\ orderly /\ catFile' = catFile /\ files' = files /\ snapFiles' = snapFiles
        /\ query' = NoQuery
        /\ acked' = IF query # NoQuery /\ query.kind \in {"create", "drop"}
                    THEN Without(acked, query.name) ELSE acked
        /\ snapped' = IF query # NoQuery /\ query.kind = "take"
                      THEN Without(snapped, query.name) ELSE snapped
    BY DEF ProcessGone, fileVars
  <1>2. FileLists' = FileLists
    BY <1>1, FileListsSame
  <1>3. Open' = {} /\ Whole({"take"})' = {} /\ Promise!Taking = Whole({"take"})
    BY <1>1 DEF Open, Whole, Busy, Promise!Taking
  <1>4. Mapped' = Mapped
    <2>1. CASE query # NoQuery /\ query.kind \in {"create", "drop"}
      <3>1. DOMAIN acked' = DOMAIN acked \ {query.name}
        BY <1>1, <2>1 DEF Without, Restrict
      <3>2. Open = {query.name}
        BY <2>1 DEF Open, Whole, Busy
      <3>3. QED
        BY <1>3, <3>1, <3>2 DEF Mapped
    <2>2. CASE ~(query # NoQuery /\ query.kind \in {"create", "drop"})
      <3>1. Open = {}
        BY <2>2 DEF Open, Whole, Busy
      <3>2. QED
        BY <1>1, <1>3, <2>2, <3>1 DEF Mapped
    <2>3. QED
      BY <2>1, <2>2
  <1>5. OnFile' = OnFile
    BY <1>1, <1>4, MappingIs
  <1>6. NotOnFile \subseteq NotOnFile' /\ NotOnFile' \subseteq Names \ DOMAIN OnFile
    <2>1. DOMAIN OnFile \subseteq DOMAIN FileLists
      BY <1>1, MappedReads, MappingIs
    <2>2. QED
      BY <1>2, <1>3, <2>1, NotOnFileIs
  <1>7. SnapsOnFile' \in {SnapsOnFile, Promise!Drop1(SnapsOnFile, Promise!Taking)}
    <2>1. SnapsOnFile' = [n \in DOMAIN snapped' |-> SnapFiled(snapFiles, snapped'[n].types, n)]
      BY <1>1, <1>3, MappingIs
    <2>2. PICK D : D = DOMAIN snapped \ (Whole({"take"}) \ NotOnFile)
      OBVIOUS
    <2>3. /\ SnapsOnFile = [n \in D |-> SnapFiled(snapFiles, snapped[n].types, n)]
          /\ DOMAIN SnapsOnFile = D
          /\ \A n \in D : SnapsOnFile[n] = SnapFiled(snapFiles, snapped[n].types, n)
      BY <2>2, MappingIs
    <2>4. CASE query # NoQuery /\ query.kind = "take"
      <3>1. Whole({"take"}) = {query.name}
        BY <2>4 DEF Whole, Busy
      <3>2. /\ DOMAIN snapped' = DOMAIN snapped \ {query.name}
            /\ \A n \in DOMAIN snapped' : snapped'[n] = snapped[n]
        BY <1>1, <2>4 DEF Without, Restrict
      <3>3. DOMAIN snapped' = D \ Promise!Taking
        BY <1>3, <2>2, <3>1, <3>2
      <3>4. SnapsOnFile' = [n \in D \ Promise!Taking |->
                              SnapFiled(snapFiles, snapped[n].types, n)]
        BY <2>1, <3>2, <3>3
      <3>5. SnapsOnFile' = [n \in D \ Promise!Taking |-> SnapsOnFile[n]]
        BY <2>3, <3>4
      <3>6. QED
        BY <2>3, <3>5 DEF Promise!Drop1
    <2>5. CASE ~(query # NoQuery /\ query.kind = "take")
      <3>1. Whole({"take"}) = {} /\ snapped' = snapped
        BY <1>1, <2>5 DEF Whole, Busy
      <3>2. QED
        BY <2>1, <2>2, <2>3, <3>1
    <2>6. QED
      BY <2>4, <2>5
  <1>8. ~Inserted' /\ Told' = NoReply
    BY DEF Inserted, Told
  <1>9. QED
    BY <1>1, <1>5, <1>6, <1>7, <1>8, Zenon DEF Promise!Crash, Told, Inserted

(***************************************************************************)
(* The theorem                                                             *)
(***************************************************************************)

LEMMA InitMaps == Init => RefInv /\ Promise!Init
  <1> SUFFICES ASSUME Init PROVE RefInv /\ Promise!Init
    OBVIOUS
  <1>1. DOMAIN << >> = {}
    OBVIOUS
  <1>2. /\ pc = "idle" /\ query = NoQuery /\ catFile = NoFile /\ acked = << >>
        /\ snapped = << >> /\ tableLoc = << >> /\ cat = << >> /\ reply = NoReply /\ orderly
    BY DEF Init
  <1>3. IInv
    BY InitTypes
  <1>4. FlushedSoFar /\ CatalogInv /\ SlotsPacked
    BY <1>1, <1>2, NaturalFacts DEF FlushedSoFar, CatalogInv, Loaded, SlotsPacked
  <1>5. FileLists = << >>
    BY <1>2 DEF FileLists
  <1>6. ListsInv
    BY <1>1, <1>2, <1>5 DEF ListsInv, WholeLists, HasRead, Loaded
  <1>7. EntriesInv /\ KeptInv /\ AnswerInv
    BY <1>1, <1>2 DEF EntriesInv, IsEntries, KeptInv, AnswerInv, Answering
  <1>8. Open = {} /\ Whole({"take"}) = {} /\ Mapped = {}
    BY <1>1, <1>2 DEF Open, Whole, Busy, Mapped
  <1>9. OnFile = << >>
    BY <1>8, MappingIs
  <1>10. NotOnFile = Names
    BY <1>1, <1>5, <1>8, NotOnFileIs
  <1>11. SnapsOnFile = << >>
    BY <1>1, <1>2, <1>8, MappingIs
  <1>12. ~Inserted
    BY <1>2 DEF Inserted
  <1>13. QED
    BY <1>2, <1>3, <1>4, <1>6, <1>7, <1>9, <1>10, <1>11, <1>12, Zenon
       DEF RefInv, Promise!Init, Inserted

LEMMA RefStep ==
  ASSUME MissingIsNoContents, RefInv, [Next]_vars
  PROVE  RefInv'
  BY NextTypes, FlushedStep, PackedStep, CatalogStep, ListsStep, EntriesStep, KeptStep,
     AnswerStep DEF RefInv

(* Every step of the store is a step of the promise or none.               *)
LEMMA NextMaps ==
  ASSUME MissingIsNoContents, RefInv, [Next]_vars
  PROVE  [Promise!Next]_(Promise!vars)
  <1>1. CASE ~orderly'
    BY <1>1 DEF Promise!Next
  <1>2. CASE orderly'
    <2>1. orderly
      <3>1. CASE Create \/ Drop
        BY <1>2, <3>1 DEF Create, Drop, Judge
      <3>2. CASE Abort \/ Kill
        BY <1>2, <3>2 DEF Abort, Kill, ProcessGone
      <3>3. CASE \/ Receive \/ Load \/ Flush \/ Restart \/ UNCHANGED vars \/ Reply
                 \/ InsertRefused \/ InsertRow \/ Select \/ DropUnknown \/ TakeSnap \/ ShowSnap
                 \/ Unimplemented \/ Hang
        BY <1>2, <3>3, Zenon DEF Receive, Load, LoadSkip, LoadNoFile, LoadCatalog, LoadRecord,
           LoadDone, Flush, FlushOpen, FlushCatalog, FlushTable, FlushDone, Restart, vars,
           history, InsertRefused, InsertRow, Select, DropUnknown, TakeSnap, ShowSnap,
           Unimplemented, Hang, Reply
      <3>4. QED
        BY <3>1, <3>2, <3>3 DEF Next, Serve, Execute
    <2>2. SUFFICES Promise!Promised \/ UNCHANGED Promise!vars
      BY <1>2, <2>1 DEF Promise!Next
    <2>3. CASE Receive
      BY <2>1, <2>3, AskMaps DEF Promise!Promised
    <2>4. CASE Load
      BY <2>1, <2>4, LoadMaps
    <2>5. CASE Execute /\ ~Abort
      BY <1>2, <2>5, ExecuteMaps
    <2>6. CASE FlushOpen \/ FlushCatalog \/ FlushTable
      BY <2>1, <2>6, FlushMaps DEF Promise!Promised
    <2>7. CASE FlushDone
      BY <2>1, <2>7, SettleMaps DEF Promise!Promised
    <2>8. CASE Reply
      BY <2>1, <2>8, ReplyMaps DEF Promise!Promised
    <2>9. CASE Abort \/ Kill
      BY <1>2, <2>9, GoneMaps DEF Abort, Kill, Promise!Promised
    <2>10. CASE Restart \/ UNCHANGED vars
      <3>1. /\ query' = query /\ orderly' = orderly /\ acked' = acked /\ snapped' = snapped
            /\ catFile' = catFile /\ files' = files /\ snapFiles' = snapFiles /\ reply' = reply
            /\ pending' = pending
            /\ pc' = pc \/ (pc \in {"down", "aborted"} /\ pc' = "idle")
        BY <2>10 DEF Restart, vars, memVars, fileVars, history
      <3>2. FileLists' = FileLists
        BY <3>1, FileListsSame
      <3>3. \A n \in Mapped : n \in DOMAIN files' /\ files'[n] = files[n]
        BY <2>1, <3>1, MappedReads DEF RefInv
      <3>4. \A n : PageIn(snapFiles', n) = PageIn(snapFiles, n)
        BY <3>1
      <3>5. OnFile' = OnFile /\ NotOnFile' = NotOnFile /\ SnapsOnFile' = SnapsOnFile
        BY <1>2, <2>1, <3>1, <3>2, <3>3, <3>4, Stutters DEF RefInv
      <3>6. Inserted' = Inserted /\ Told' = Told
        BY <3>1 DEF Inserted, Busy, Told
      <3>7. QED
        BY <3>1, <3>5, <3>6, StutterVars
    <2>11. QED
      BY <2>3, <2>4, <2>5, <2>6, <2>7, <2>8, <2>9, <2>10 DEF Next, Serve, Flush
  <1>3. QED
    BY <1>1, <1>2

(* For any tables, schemas, rows and queries, and through any crashes: the *)
(* store implements TableStore.  A query takes effect at most once and at  *)
(* one moment before its answer, what was answered stays, SELECT shows the *)
(* rows inserted and VIEW SNAPSHOT those of the last answered snapshot.    *)
THEOREM StoreKeepsPromise ==
  ASSUME MissingIsNoContents
  PROVE  Spec => KeepsPromise
  <1>1. Init => RefInv /\ Promise!Init
    BY InitMaps
  <1>2. RefInv /\ [Next]_vars => RefInv'
    BY RefStep
  <1>3. RefInv /\ [Next]_vars => [Promise!Next]_(Promise!vars)
    BY NextMaps
  <1>4. QED
    BY <1>1, <1>2, <1>3, PTL DEF Spec, KeepsPromise, Promise!Spec
==============================================================================

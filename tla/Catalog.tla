------------------------------ MODULE Catalog ------------------------------
(***************************************************************************)
(* The layout of NormDB's catalogue, the array `table' of disk.cpp.        *)
(*                                                                         *)
(* `table' is an array of pointers, so `table + x' counts machine words,   *)
(* while records are laid out as if x counted bytes: an integer written at *)
(* x occupies part of word x, a 32-byte text occupies words x .. x+3, and  *)
(* the next cell is at least four words away.  Cells therefore never       *)
(* overlap, and the array is a function from the positions written so far  *)
(* to cells; a position never written reads as zero bytes.                 *)
(*                                                                         *)
(*    0        the free position `fin'                                     *)
(*    x        the size of a record, 64 * columns + 36                     *)
(*    x + 4    the name of its table                                       *)
(*    x + 36   the name of its first column,  x + 68  its type, ...        *)
(*                                                                         *)
(* Nothing marks a cell as text or integer: a walk that lands on the wrong *)
(* position reads one as the other.                                        *)
(***************************************************************************)
EXTENDS Integers, Sequences, FiniteSets, Functions

CONSTANTS
  Text,         \* every text a cell can hold or a query can carry
  Names,        \* the texts that queries use as table names
  Types,        \* the texts that queries use as column types
  IntType,      \* the type text "int"
  NoText,       \* the empty text, read where nothing was written
  Debris,       \* what the bytes of an integer read as: a text no query uses
  ColumnText,   \* stands for the name of any column
  Cstr,         \* the first 31 characters of a text: what is stored of it
  TableWords,   \* words of the array in memory (PAGE_SIZE)
  PageWords     \* words that one write of PAGE_SIZE bytes covers

ASSUME TextAssumption ==
  /\ Names \subseteq Text
  /\ Types \subseteq Text
  /\ {IntType, NoText, Debris, ColumnText} \subseteq Text
  /\ {NoText, Debris, ColumnText} \cap Names = {}
  /\ Cstr \in [Text -> Text]
  /\ \A s \in Text : Cstr[Cstr[s]] = Cstr[s]

ASSUME SizeAssumption ==
  /\ TableWords \in Nat /\ PageWords \in Nat
  /\ 0 < PageWords /\ PageWords <= TableWords

----------------------------------------------------------------------------
(* Partial functions: one key set, and one function laid over another.     *)

Put(f, k, v) == [x \in DOMAIN f \cup {k} |-> IF x = k THEN v ELSE f[x]]

Over(g, f) ==
  [x \in DOMAIN g \cup DOMAIN f |-> IF x \in DOMAIN g THEN g[x] ELSE f[x]]

Without(f, k) == Restrict(f, DOMAIN f \ {k})

----------------------------------------------------------------------------
(* Cells and how they read                                                 *)

IntSize == 4
StrSize == 32

IntCell(n) == [int |-> n]
StrCell(s) == [str |-> s]
Cell == [int : Int] \cup [str : Text]

IsCatalog(cat) ==
  /\ DOMAIN cat \subseteq Int
  /\ \A p \in DOMAIN cat : cat[p] \in Cell

(* The characters of a text of three or more, read as an integer, are      *)
(* larger than any position.                                               *)
Garbage == TableWords

IntAt(cat, p) ==
  IF p \notin DOMAIN cat THEN 0
  ELSE IF "int" \in DOMAIN cat[p] THEN cat[p].int
  ELSE IF cat[p].str = NoText THEN 0 ELSE Garbage

TextAt(cat, p) ==
  IF p \notin DOMAIN cat THEN NoText
  ELSE IF "str" \in DOMAIN cat[p] THEN cat[p].str
  ELSE IF cat[p].int = 0 THEN NoText ELSE Debris

Fin(cat) == IntAt(cat, 0)

RecordSize(types) == 2 * StrSize * Len(types) + IntSize + StrSize

----------------------------------------------------------------------------
(* Walking the records                                                     *)

FirstRecord == 4
NotFound == -1
Endless  == -2      \* a record of size 0: the walk stays where it is

(* The first record whose name is `name'.                                  *)
FirstMatch(cat, name) ==
  LET walk[loc \in Nat] ==
        IF loc >= Fin(cat) THEN NotFound
        ELSE IF TextAt(cat, loc + IntSize) = name THEN loc
        ELSE IF IntAt(cat, loc) = 0 THEN Endless
        ELSE walk[loc + IntAt(cat, loc)]
  IN  walk[FirstRecord]

(* Every record a walk visits, in order, and the position it ends at; a    *)
(* walk that never ends stops at its first record of size 0.               *)
Chain(cat) ==
  LET walk[loc \in Nat] ==
        IF loc >= Fin(cat) \/ IntAt(cat, loc) = 0 THEN <<loc>>
        ELSE <<loc>> \o walk[loc + IntAt(cat, loc)]
  IN  walk[FirstRecord]

(* The column types of the record at `loc'; none when there is no record.  *)
ColumnTypes(cat, loc) ==
  IF loc < 0 THEN <<>>
  ELSE [i \in 1 .. ((IntAt(cat, loc) - IntSize - StrSize) \div (2 * StrSize)) |->
          TextAt(cat, loc + IntSize + 2 * StrSize * i)]

----------------------------------------------------------------------------
(* Adding and dropping a record                                            *)

AddRecord(cat, name, types) ==
  LET x == Fin(cat)
      cols == [p \in {x + IntSize + StrSize * k : k \in 1 .. 2 * Len(types)} |->
                 LET k == (p - x - IntSize) \div StrSize
                 IN  StrCell(IF k % 2 = 1 THEN ColumnText
                             ELSE Cstr[types[k \div 2]])]
      named == Put(Over(cols, cat), x + IntSize, StrCell(Cstr[name]))
  IN  Put(Put(named, x, IntCell(RecordSize(types))),
          0, IntCell(x + RecordSize(types)))

(* The size of the record that follows the one at `loc', as it reads.      *)
NextSize(cat, loc) == IntAt(cat, loc + IntAt(cat, loc))

(* Mutants of the definitions of a module stand before them; nothing else  *)
(* uses them.  This one leaves `fin' where it was.                         *)
DropRecordKeepsFin(cat, loc) ==
  LET l == IntAt(cat, loc)
      p == NextSize(cat, loc)
      texts == {loc + IntSize + StrSize * i : i \in 0 .. (p \div StrSize) - 1}
      moved == [q \in texts |-> StrCell(Cstr[TextAt(cat, q + l)])]
  IN  Put(Over(moved, cat), loc, IntCell(p))

(* Mutant: `fin' moves down by the size of the wrong record.               *)
DropRecordWrongSize(cat, loc) ==
  LET l == IntAt(cat, loc)
      p == NextSize(cat, loc)
      texts == {loc + IntSize + StrSize * i : i \in 0 .. (p \div StrSize) - 1}
      moved == [q \in texts |-> StrCell(Cstr[TextAt(cat, q + l)])]
  IN  Put(Put(Over(moved, cat), loc, IntCell(p)), 0, IntCell(Fin(cat) - p))

(* Only the next record moves down; the ones after it stay where they are, *)
(* and `fin' moves down by the size of the record dropped.                 *)
DropRecord(cat, loc) ==
  LET l == IntAt(cat, loc)
      p == NextSize(cat, loc)
      texts == {loc + IntSize + StrSize * i : i \in 0 .. (p \div StrSize) - 1}
      moved == [q \in texts |-> StrCell(Cstr[TextAt(cat, q + l)])]
  IN  Put(Put(Over(moved, cat), loc, IntCell(p)), 0, IntCell(Fin(cat) - l))

----------------------------------------------------------------------------
(* The catalogue and its file                                              *)

(* flush writes PAGE_SIZE bytes of the array, load reads them back over    *)
(* the same part of it.                                                    *)
Persisted(cat) == Restrict(cat, {p \in DOMAIN cat : p < PageWords})

ReadOver(file, cat) ==
  Over(file, Restrict(cat, {p \in DOMAIN cat : p >= PageWords}))
============================================================================

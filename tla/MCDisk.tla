------------------------------- MODULE MCDisk -------------------------------
(* Instances of Disk for TLC.                                              *)
EXTENDS Disk, TLC

CONSTANTS t1, t2, t3, one, word, long, cut, int, text, column, empty, debris

MCText == {t1, t2, t3, one, word, long, cut, int, text, column, empty, debris}

(* `long' has more than 31 characters.                                     *)
MCCstr == [s \in MCText |-> IF s = long THEN cut ELSE s]

(* The numeral `word' has a leading zero or a tail: it reads back as `one'.*)
MCIntOf == [s \in {one, word} |-> one]

OneInt  == <<int>>
OneText == <<text>>
IntText == <<int, text>>

MCUniform == {OneInt}
MCUniform2 == {OneInt, OneText}
MCMixed   == {OneInt, IntText}

OnlyOrderly == orderly

(* Bound: when queries are not orderly, the catalogue array has been       *)
(* written in at most so many places: fewer when there are rows, and when  *)
(* the process has been killed.                                            *)
NoRows == \A name \in DOMAIN files : files[name].rows = << >>
MostCells == IF ~NoRows THEN 12 ELSE IF crashes > 0 THEN 14 ELSE 15
OrderlyOrFew == orderly \/ Cardinality(DOMAIN cat) <= MostCells

NameSymmetry == Permutations({t1, t2, t3})
============================================================================

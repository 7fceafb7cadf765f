------------------------------ MODULE MCParser ------------------------------
(* Queries and tables for Parser: every query that is left of a well-formed  *)
(* one when some of its words are dropped.                                   *)
EXTENDS Parser

Kept(words, places) ==
  [i \in 1 .. Cardinality(places) |->
     words[CHOOSE p \in places : Cardinality({q \in places : q <= p}) = i]]
Subsequences(words) == {Kept(words, places) : places \in SUBSET DOMAIN words}

MCInputs == UNION {Subsequences(words) : words \in {
  <<"SELECT", "*", "from", "t", "where", "A=1;", "order", "by", "b">>,
  <<"select", "*", "from", "t", "order", "by", "a", "where", "b=2">>,
  <<"create", "table", "t", "(a", "int,", "b", "int);">>,
  <<"insert", "into", "t", "values", "(10,", "2)">>,
  <<"drop", "table", "t">>, <<"take", "snapshot", "t">>, <<"view", "snapshot", "t">>,
  <<"delete", "from", "t", "where", "a=1">>,
  <<"update", "t", "set", "a=1", ",", "b=2", "where", "b=2">>}}

MCLower == [w \in {"SELECT", "A=1;"} |-> IF w = "SELECT" THEN "select" ELSE "a=1;"]
MCBare ==
  [w \in {"a=1;", "(a", "int,", "int);", "(10,", "2)", ","} |->
     CASE w = "a=1;" -> "a=1" [] w = "(a" -> "a" [] w = "(10," -> "10" [] w = "2)" -> "2"
       [] w = "," -> "" [] OTHER -> "int"]
MCEquation ==
  [w \in {"a=1", "a=1;", "b=2"} |-> IF w = "b=2" THEN [column |-> "b", value |-> "2"]
                                   ELSE [column |-> "a", value |-> "1"]]

(* "10" sorts before "2".                                                    *)
MCRank == [w \in {"1", "10", "2", "a", "b"} |->
             CASE w = "1" -> 1 [] w = "10" -> 2 [] w = "2" -> 3 [] w = "a" -> 4 [] w = "b" -> 5]
MCWidth == [w \in {"1", "10", "2", "a", "b"} |-> IF w = "10" THEN 2 ELSE 1]

MCStores ==
  {[name \in {"t"} |-> <<<<"a", "b">>>> \o rows] :
     rows \in UNION {[1 .. n -> {<<"1", "2">>, <<"2", "1">>, <<"1", "1">>, <<"10", "2">>}] : n \in 0 .. 3}}
=============================================================================

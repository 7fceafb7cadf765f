---------------------------- MODULE Parser_proofs ----------------------------
(* Theorems about the query parser, for any queries, tables and orders of    *)
(* strings: the functions for SELECT share one index and lose no word, the   *)
(* other queries call the operation with all that was sent, and WHERE and    *)
(* ORDER BY answer the rows they should.                                     *)
EXTENDS Parser, Induction, SequenceTheorems, TLAPS

Selecting == {"table", "condition", "sort", "view", "answered"}

(* What does not change during a query, and where its parsing begins.        *)
Parsed ==
  /\ query_token \in Seq(STRING) /\ stored \in Stores
  /\ pc = "start" => idx_token = 2 /\ mat = << >>
  /\ pc \in Selecting => query_token # << >> /\ query_token[1] = "select"

ColumnsTables(from, where) ==
  <<Clause("column_name", Between(2, from)), Clause("table_name", Between(from + 1, where))>>
Conditioned(from, where, order) ==
  ColumnsTables(from, where) \o Filled("condition", remove_punct(Between(where + 1, order)))
Whole(from, where, order) ==
  Conditioned(from, where, order)
    \o Filled("sort_column", Between(order + 2, Len(query_token) + 1))

(* Where each function leaves the index that it shares with the next.        *)
Reached(from, where, order) ==
  /\ pc = "table" => /\ mat = <<Clause("column_name", Between(2, from))>>
                     /\ idx_token = from + 1
  /\ pc = "condition" => mat = ColumnsTables(from, where) /\ idx_token = where + 1
  /\ pc = "sort" => mat = Conditioned(from, where, order) /\ idx_token = order + 1
  /\ pc = "view" => mat = Whole(from, where, order)
  /\ pc \in {"condition", "sort", "view"} => tabelname = query_token[where - 1]

Parting ==
  \A from, where, order \in Places : InOrder(from, where, order) => Reached(from, where, order)

ParserInv == Parsed /\ Parting

----------------------------------------------------------------------------
(* Sequences and positions                                                   *)

LEMMA SmallestIs ==
  ASSUME NEW S \in SUBSET Int, NEW e \in S, \A y \in S : e <= y
  PROVE  Min(S) = e
  <1>1. \E x \in S : \A y \in S : x <= y
    OBVIOUS
  <1>2. Min(S) \in S /\ \A y \in S : Min(S) <= y
    BY <1>1 DEF Min
  <1>3. Min(S) <= e /\ e <= Min(S) /\ Min(S) \in Int /\ e \in Int
    BY <1>2
  <1>4. QED
    BY <1>3

LEMMA UntilIs ==
  ASSUME query_token \in Seq(STRING), NEW words, NEW i \in Nat, NEW e \in i .. Len(query_token) + 1,
         e <= Len(query_token) => query_token[e] \in words,
         \A j \in i .. e - 1 : query_token[j] \notin words
  PROVE  Until(words, i) = e
  <1> DEFINE S == {j \in i .. Len(query_token) : query_token[j] \in words}
                    \cup {Len(query_token) + 1}
  <1>1. S \in SUBSET Int /\ e \in S
    OBVIOUS
  <1>2. \A y \in S : e <= y
    OBVIOUS
  <1>3. Min(S) = e
    <2> HIDE DEF S
    <2>1. QED
      BY <1>1, <1>2, SmallestIs
  <1>4. QED
    BY <1>3 DEF Until

LEMMA EmptyIs ==
  /\ remove_punct(<< >>) = << >>
  /\ \A label : Filled(label, << >>) = << >>
  /\ \A i, j \in Int : j <= i => Between(i, j) = << >>
  <1>1. remove_punct(<< >>) = << >>
    <2>1. DOMAIN << >> = {} /\ DOMAIN << >> = 1 .. 0
      OBVIOUS
    <2>2. remove_punct(<< >>) \in [1 .. 0 -> STRING]
      BY <2>1 DEF remove_punct
    <2>3. remove_punct(<< >>) \in Seq(STRING) /\ Len(remove_punct(<< >>)) = 0
      BY <2>2
    <2>4. QED
      BY <2>3, EmptySeq
  <1>2. \A label : Filled(label, << >>) = << >>
    BY DEF Filled
  <1>3. ASSUME NEW i \in Int, NEW j \in Int, j <= i PROVE Between(i, j) = << >>
    BY <1>3, SubSeqEmpty DEF Between
  <1>4. QED
    BY <1>1, <1>2, <1>3

LEMMA AppendTuples ==
  /\ \A a : Append(<< >>, a) = <<a>>
  /\ \A a, b : Append(<<a>>, b) = <<a, b>>
  <1>1. ASSUME NEW a PROVE Append(<< >>, a) = <<a>>
    <2>1. << >> \in Seq({a}) /\ <<a>> \in Seq({a})
      OBVIOUS
    <2>2. QED
      BY <2>1, AppendIsConcat, ConcatEmptySeq
  <1>2. ASSUME NEW a, NEW b PROVE Append(<<a>>, b) = <<a, b>>
    <2>1. /\ <<a>> \in Seq({a, b}) /\ Len(<<a>>) = 1 /\ <<a>>[1] = a
          /\ <<a, b>> \in Seq({a, b}) /\ Len(<<a, b>>) = 2
          /\ <<a, b>>[1] = a /\ <<a, b>>[2] = b
      OBVIOUS
    <2>2. PICK s : s = <<a>>
      OBVIOUS
    <2>3. /\ Append(s, b) \in Seq({a, b}) /\ Len(Append(s, b)) = 2
          /\ Append(s, b)[1] = a /\ Append(s, b)[2] = b
      BY <2>1, <2>2, AppendProperties
    <2>4. PICK p : p = Append(s, b)
      OBVIOUS
    <2>5. PICK q : q = <<a, b>>
      OBVIOUS
    <2>6. \A i \in 1 .. Len(p) : p[i] = q[i]
      BY <2>1, <2>3, <2>4, <2>5
    <2>7. p = q
      BY <2>1, <2>3, <2>4, <2>5, <2>6, SeqEqual
    <2>8. QED
      BY <2>2, <2>4, <2>5, <2>7
  <1>3. QED
    BY <1>1, <1>2

(* What a clause adds, if it has words.                                      *)
LEMMA AppendFilled ==
  ASSUME NEW S, NEW s \in Seq(S), NEW label, NEW words, Clause(label, words) \in S
  PROVE  s \o Filled(label, words) =
           IF words = << >> THEN s ELSE Append(s, Clause(label, words))
  <1>1. CASE words = << >>
    BY <1>1, ConcatEmptySeq DEF Filled
  <1>2. CASE words # << >>
    BY <1>2, AppendIsConcat DEF Filled
  <1>3. QED
    BY <1>1, <1>2

----------------------------------------------------------------------------
(* SELECT                                                                    *)

(* Where the key words of an ordered SELECT are.                             *)
Keyed(from, where, order) ==
  /\ from \in Nat /\ where \in Nat /\ order \in Nat /\ Len(query_token) \in Nat
  /\ 2 < from /\ from + 1 < where /\ where <= order /\ order <= Len(query_token) + 1
  /\ Until({"from"}, 2) = from
  /\ Until({"where", "order"}, from + 1) = where
  /\ where < order => Until({"order"}, where + 1) = order
  /\ "from" \in clause_set
  /\ "where" \in clause_set <=> where < order
  /\ "order" \in clause_set <=> Has(order)
  /\ Has(order) => query_token[order + 1] = "by"

LEMMA KeyWords ==
  ASSUME query_token \in Seq(STRING), NEW from \in Places, NEW where \in Places,
         NEW order \in Places, InOrder(from, where, order)
  PROVE  Keyed(from, where, order)
  <1>1. /\ from \in Nat /\ where \in Nat /\ order \in Nat /\ Len(query_token) \in Nat
        /\ DOMAIN query_token = 1 .. Len(query_token)
    BY DEF Places
  <1>2. \A i \in 1 .. Len(query_token) :
          query_token[i] \in all_clause_set => i \in {1, from, where, order, order + 1}
    BY DEF InOrder
  <1>3. /\ 2 < from /\ from + 1 < where /\ where <= order /\ order <= Len(query_token) + 1
        /\ query_token[1] = "select" /\ query_token[from] = "from"
        /\ where < order => query_token[where] = "where"
        /\ order <= Len(query_token) => /\ query_token[order] = "order"
                                       /\ order + 1 <= Len(query_token)
                                       /\ query_token[order + 1] = "by"
    BY <1>1 DEF InOrder, Has, Places
  <1>4. Until({"from"}, 2) = from
    <2>1. \A j \in 2 .. from - 1 : query_token[j] \notin {"from"}
      BY <1>1, <1>2, <1>3 DEF all_clause_set
    <2>2. QED
      BY <1>1, <1>3, <2>1, UntilIs
  <1>5. Until({"where", "order"}, from + 1) = where
    <2>1. \A j \in from + 1 .. where - 1 : query_token[j] \notin {"where", "order"}
      BY <1>1, <1>2, <1>3 DEF all_clause_set
    <2>2. where <= Len(query_token) => query_token[where] \in {"where", "order"}
      BY <1>1, <1>3
    <2>3. QED
      BY <1>1, <1>3, <2>1, <2>2, UntilIs
  <1>6. ASSUME where < order PROVE Until({"order"}, where + 1) = order
    <2>1. \A j \in where + 1 .. order - 1 : query_token[j] \notin {"order"}
      BY <1>1, <1>2, <1>3 DEF all_clause_set
    <2>2. QED
      BY <1>1, <1>3, <1>6, <2>1, UntilIs
  <1>7. \A w \in all_clause_set :
          w \in clause_set <=> \E i \in 1 .. Len(query_token) : query_token[i] = w
    BY <1>1 DEF clause_set, ToSet
  <1>8. "from" \in clause_set
    BY <1>1, <1>3, <1>7 DEF all_clause_set
  <1>9. "where" \in clause_set <=> where < order
    BY <1>1, <1>2, <1>3, <1>7 DEF all_clause_set
  <1>10. "order" \in clause_set <=> Has(order)
    BY <1>1, <1>2, <1>3, <1>7 DEF all_clause_set, Has
  <1>11. QED
    BY <1>1, <1>3, <1>4, <1>5, <1>6, <1>8, <1>9, <1>10 DEF Keyed, Has

(* The clauses of an ordered SELECT, as the functions build them.            *)
Built(from, where, order) ==
  /\ Append(<< >>, Clause("column_name", Between(2, from)))
       = <<Clause("column_name", Between(2, from))>>
  /\ Append(<<Clause("column_name", Between(2, from))>>,
            Clause("table_name", Between(from + 1, where)))
       = ColumnsTables(from, where)
  /\ where < order =>
       Condition(where + 1, ColumnsTables(from, where)) = Conditioned(from, where, order)
  /\ where = order => Conditioned(from, where, order) = ColumnsTables(from, where)
  /\ Has(order) =>
       Whole(from, where, order) =
         IF Between(order + 2, Len(query_token) + 1) = << >>
           THEN Conditioned(from, where, order)
           ELSE Append(Conditioned(from, where, order),
                       Clause("sort_column", Between(order + 2, Len(query_token) + 1)))
  /\ ~Has(order) => Whole(from, where, order) = Conditioned(from, where, order)

LEMMA Building ==
  ASSUME query_token \in Seq(STRING), NEW from \in Places, NEW where \in Places,
         NEW order \in Places, InOrder(from, where, order)
  PROVE  Built(from, where, order)
  <1> DEFINE columns == Clause("column_name", Between(2, from))
             tables  == Clause("table_name", Between(from + 1, where))
             words   == remove_punct(Between(where + 1, order))
             rest    == Between(order + 2, Len(query_token) + 1)
             S == {columns, tables, Clause("condition", words), Clause("sort_column", rest)}
  <1>1. /\ from \in Nat /\ where \in Nat /\ order \in Nat /\ Len(query_token) \in Nat
        /\ where < order => Until({"order"}, where + 1) = order
        /\ order <= Len(query_token) + 1
    BY KeyWords DEF Keyed
  <1>2. /\ Append(<< >>, columns) = <<columns>> /\ Append(<<columns>>, tables) = <<columns, tables>>
    <2> HIDE DEF columns, tables
    <2>1. QED
      BY AppendTuples
  <1>s. /\ columns \in S /\ tables \in S
        /\ Clause("condition", words) \in S /\ Clause("sort_column", rest) \in S
    OBVIOUS
  <1>t. <<columns, tables>> \in Seq(S)
    <2> HIDE DEF columns, tables, S
    <2>1. QED
      BY <1>s
  <1>3. ColumnsTables(from, where) = <<columns, tables>>
    BY DEF ColumnsTables
  <1>4. /\ Conditioned(from, where, order) = <<columns, tables>> \o Filled("condition", words)
        /\ Whole(from, where, order) =
             Conditioned(from, where, order) \o Filled("sort_column", rest)
    BY <1>3 DEF Conditioned, Whole
  <1>5. Conditioned(from, where, order) =
          IF words = << >> THEN <<columns, tables>>
          ELSE Append(<<columns, tables>>, Clause("condition", words))
    <2> HIDE DEF columns, tables, words, S
    <2>1. ASSUME NEW s \in Seq(S), NEW label, NEW w, Clause(label, w) \in S
          PROVE  s \o Filled(label, w) =
                   IF w = << >> THEN s ELSE Append(s, Clause(label, w))
      BY <2>1, AppendFilled
    <2>2. <<columns, tables>> \o Filled("condition", words) =
            IF words = << >> THEN <<columns, tables>> ELSE Append(<<columns, tables>>, Clause("condition", words))
      BY <1>s, <1>t, <2>1
    <2>3. QED
      BY <1>4, <2>2
  <1>6. Conditioned(from, where, order) \in Seq(S)
    <2> HIDE DEF columns, tables, words, S
    <2>1. QED
      BY <1>s, <1>t, <1>5, AppendProperties
  <1>7. Whole(from, where, order) =
          IF rest = << >> THEN Conditioned(from, where, order)
          ELSE Append(Conditioned(from, where, order), Clause("sort_column", rest))
    <2> HIDE DEF columns, tables, words, rest, S
    <2>1. ASSUME NEW s \in Seq(S), NEW label, NEW w, Clause(label, w) \in S
          PROVE  s \o Filled(label, w) =
                   IF w = << >> THEN s ELSE Append(s, Clause(label, w))
      BY <2>1, AppendFilled
    <2>2. Conditioned(from, where, order) \o Filled("sort_column", rest) =
            IF rest = << >> THEN Conditioned(from, where, order) ELSE Append(Conditioned(from, where, order), Clause("sort_column", rest))
      BY <1>s, <1>6, <2>1
    <2>3. QED
      BY <1>4, <2>2
  <1>8. where < order =>
          Condition(where + 1, ColumnsTables(from, where)) = Conditioned(from, where, order)
    BY <1>1, <1>3, <1>5 DEF Condition
  <1>9. where = order => words = << >>
    BY <1>1, EmptyIs
  <1>10. ~Has(order) => rest = << >>
    BY <1>1, EmptyIs DEF Has
  <1>11. QED
    BY <1>2, <1>3, <1>5, <1>7, <1>8, <1>9, <1>10 DEF Built

Others == \/ extract_create \/ extract_insert \/ extract_drop \/ Snapshot
          \/ extract_delete \/ extract_update \/ Unknown \/ NoToken

Answers == AnswerWhere \/ AnswerOrder \/ AnswerAll

Ended == {"undefined", "answered", "called", "printed", "refused"}

(* The query and the tables stay, and what is no SELECT ends at once.        *)
LEMMA Endings ==
  /\ Next => query_token' = query_token /\ stored' = stored
  /\ Answers => pc = "view" /\ pc' \in {"undefined", "answered"}
  /\ Others => pc = "start" /\ pc' \in Ended \ {"answered"}
  <1>1. Answers => /\ query_token' = query_token /\ stored' = stored
                   /\ pc = "view" /\ pc' \in {"undefined", "answered"}
    BY DEF Answers, AnswerWhere, AnswerOrder, AnswerAll, vectorToCharPointer, Undefined
  <1>2. Others => /\ query_token' = query_token /\ stored' = stored
                  /\ pc = "start" /\ pc' \in Ended \ {"answered"}
    BY DEF Others, Is, extract_create, extract_insert, extract_drop, Snapshot, extract_delete,
           extract_update, Unknown, NoToken, Calls, Printed, Undefined, Ended
  <1>3. extract_column \/ extract_table \/ extract_condition \/ extract_sort_column
          => query_token' = query_token /\ stored' = stored
    BY DEF extract_column, extract_table, extract_condition, extract_sort_column, Parsing
  <1>4. QED
    BY <1>1, <1>2, <1>3 DEF Next, Select, Answers, Others

LEMMA ParsedStep ==
  ASSUME Parsed, [Next]_vars
  PROVE  Parsed'
  <1>1. CASE extract_column
    BY <1>1 DEF extract_column, Parsed, Parsing, Is, Selecting
  <1>2. CASE extract_table \/ extract_condition \/ extract_sort_column
    BY <1>2 DEF extract_table, extract_condition, extract_sort_column, Parsed, Parsing,
                Selecting
  <1>3. CASE Answers
    BY <1>3, Endings DEF Parsed, Selecting, Answers, Next, Select
  <1>4. CASE Others
    BY <1>4, Endings DEF Parsed, Selecting, Ended, Others, Next
  <1>5. CASE UNCHANGED vars
    BY <1>5 DEF vars, Parsed
  <1>6. QED
    BY <1>1, <1>2, <1>3, <1>4, <1>5 DEF Next, Select, Answers, Others

LEMMA PartingStep ==
  ASSUME Parsed, Parting, [Next]_vars
  PROVE  Parting'
  <1>1. query_token' = query_token
    BY Endings DEF vars
  <1>2. \A from, where, order : InOrder(from, where, order)' = InOrder(from, where, order)
    BY <1>1 DEF InOrder, Has
  <1> SUFFICES ASSUME NEW from \in Places, NEW where \in Places, NEW order \in Places,
                        InOrder(from, where, order), Reached(from, where, order)
                 PROVE  Reached(from, where, order)'
    BY <1>1, <1>2 DEF Parting, Places
  <1>4. /\ query_token \in Seq(STRING)
        /\ Between(2, from)' = Between(2, from)
        /\ ColumnsTables(from, where)' = ColumnsTables(from, where)
        /\ Conditioned(from, where, order)' = Conditioned(from, where, order)
        /\ Whole(from, where, order)' = Whole(from, where, order)
    BY <1>1 DEF Parsed, Between, ColumnsTables, Conditioned, Whole
  <1>5. Keyed(from, where, order) /\ Built(from, where, order)
    BY <1>4, KeyWords, Building
  <1>6. CASE extract_column
    <2>1. mat' = <<Clause("column_name", Between(2, from))>> /\ idx_token' = from + 1
      BY <1>5, <1>6 DEF extract_column, Parsed, Is, Keyed, Built
    <2>2. pc' = "table"
      BY <1>6 DEF extract_column
    <2>3. QED
      BY <1>4, <2>1, <2>2 DEF Reached
  <1>7. CASE extract_table
    <2>1. mat' = ColumnsTables(from, where) /\ idx_token' = where + 1
          /\ tabelname' = query_token[where - 1]
      BY <1>5, <1>7 DEF extract_table, Reached, Keyed, Built
    <2>2. pc' = "condition"
      BY <1>7 DEF extract_table
    <2>3. QED
      BY <1>1, <1>4, <2>1, <2>2 DEF Reached
  <1>8. CASE extract_condition
    <2>1. mat = ColumnsTables(from, where) /\ idx_token = where + 1
      BY <1>8 DEF extract_condition, Reached
    <2>2. mat' = Conditioned(from, where, order) /\ idx_token' = order + 1
      <3>1. CASE where < order
        <4>1. AfterCondition(where + 1) = order + 1
          BY <1>5, <3>1 DEF AfterCondition, Larger, Keyed
        <4>2. "where" \in clause_set
          BY <1>5, <3>1 DEF Keyed
        <4>3. QED
          BY <1>5, <1>8, <2>1, <3>1, <4>1, <4>2 DEF extract_condition, Built
      <3>2. CASE where = order
        <4>1. "where" \notin clause_set
          BY <1>5, <3>2 DEF Keyed
        <4>2. QED
          BY <1>5, <1>8, <2>1, <3>2, <4>1 DEF extract_condition, Built, Keyed
      <3>3. QED
        BY <1>5, <3>1, <3>2 DEF Keyed
    <2>3. pc' = "sort" /\ tabelname' = tabelname /\ tabelname = query_token[where - 1]
      BY <1>8 DEF extract_condition, Reached
    <2>4. QED
      BY <1>1, <1>4, <2>2, <2>3 DEF Reached
  <1>9. CASE extract_sort_column
    <2>1. mat = Conditioned(from, where, order) /\ idx_token = order + 1
      BY <1>9 DEF extract_sort_column, Reached
    <2>2. mat' = Whole(from, where, order)
      <3>1. CASE Has(order)
        <4>1. /\ "order" \in clause_set
              /\ Has(idx_token) => query_token[idx_token] = "by"
          BY <1>5, <2>1, <3>1 DEF Keyed
        <4>2. SubSeq(query_token, idx_token + 1, Len(query_token))
                = Between(order + 2, Len(query_token) + 1)
          BY <1>5, <2>1 DEF Between, Keyed
        <4>3. QED
          BY <1>5, <1>9, <2>1, <3>1, <4>1, <4>2 DEF extract_sort_column, Built
      <3>2. CASE ~Has(order)
        BY <1>5, <1>9, <2>1, <3>2 DEF extract_sort_column, Built, Keyed
      <3>3. QED
        BY <3>1, <3>2
    <2>3. pc' = "view" /\ tabelname' = tabelname /\ tabelname = query_token[where - 1]
      BY <1>9 DEF extract_sort_column, Reached
    <2>4. QED
      BY <1>1, <1>4, <2>2, <2>3 DEF Reached
  <1>10. CASE Answers \/ Others
    <2>1. pc' \notin {"table", "condition", "sort", "view"}
      BY <1>10, Endings DEF Ended
    <2>2. QED
      BY <2>1 DEF Reached
  <1>11. CASE UNCHANGED vars
    BY <1>4, <1>11 DEF vars, Reached
  <1>12. QED
    BY <1>6, <1>7, <1>8, <1>9, <1>10, <1>11 DEF Next, Select, Answers, Others

LEMMA Tokens == Init => query_token \in Seq(STRING)
  <1> SUFFICES ASSUME NEW input \in Inputs,
                      query_token = [i \in DOMAIN input |-> Converted(Lower, input[i])]
               PROVE  query_token \in Seq(STRING)
    BY DEF Init
  <1>1. input \in Seq(STRING)
    BY ParserAssumption
  <1>2. \A i \in DOMAIN input : Converted(Lower, input[i]) \in STRING
    BY <1>1, ParserAssumption DEF Converted
  <1>3. query_token \in [1 .. Len(input) -> STRING]
    BY <1>1, <1>2
  <1>4. QED
    BY <1>1, <1>3

THEOREM ParserHolds == Spec => []ParserInv
  <1>1. Init => ParserInv
    BY Tokens DEF Init, ParserInv, Parsed, Parting, Reached, Selecting
  <1>2. ParserInv /\ [Next]_vars => ParserInv'
    BY ParsedStep, PartingStep DEF ParserInv
  <1>3. QED
    BY <1>1, <1>2, PTL DEF Spec

(* Through four functions that hand on one index, every word of SELECT ends  *)
(* in the clause of the key word before it (choose_select, parser.cpp:16).   *)
THEOREM NoWordIsLost == Spec => []NothingLost
  <1>1. ParserInv => NothingLost
    BY DEF ParserInv, Parting, Reached, NothingLost, Whole, Conditioned, ColumnsTables
  <1>2. QED
    BY <1>1, ParserHolds, PTL

----------------------------------------------------------------------------
(* The other queries                                                         *)

LEMMA Halves ==
  ASSUME NEW n \in Nat, n % 2 = 0
  PROVE  /\ n \div 2 \in Nat /\ 2 * (n \div 2) = n
         /\ \A i \in 1 .. n :
              /\ (i + 1) \div 2 \in 1 .. n \div 2
              /\ IF i % 2 = 1 THEN 2 * ((i + 1) \div 2) - 1 = i ELSE 2 * ((i + 1) \div 2) = i
  OBVIOUS

LEMMA Begin3 ==
  ASSUME query_token \in Seq(STRING), NEW a, NEW b, NEW c, Begins(<<a, b, c>>)
  PROVE  /\ query_token # << >> /\ query_token[1] = a /\ query_token[3] = c
         /\ Len(query_token) \in Nat /\ Len(query_token) >= 3
  <1>1. PICK s : s = <<a, b, c>>
    OBVIOUS
  <1>2. Len(s) = 3 /\ DOMAIN s = 1 .. 3 /\ s[1] = a /\ s[3] = c
    BY <1>1
  <1>3. /\ Len(s) <= Len(query_token) /\ \A i \in DOMAIN s : query_token[i] = s[i]
        /\ Len(query_token) \in Nat
    BY <1>1, LenProperties DEF Begins
  <1>4. QED
    BY <1>2, <1>3

LEMMA Begin4 ==
  ASSUME query_token \in Seq(STRING), NEW a, NEW b, NEW c, NEW d, Begins(<<a, b, c, d>>)
  PROVE  /\ query_token # << >> /\ query_token[1] = a /\ query_token[3] = c
         /\ query_token[4] = d /\ Len(query_token) \in Nat /\ Len(query_token) >= 4
  <1>1. PICK s : s = <<a, b, c, d>>
    OBVIOUS
  <1>2. Len(s) = 4 /\ DOMAIN s = 1 .. 4 /\ s[1] = a /\ s[3] = c /\ s[4] = d
    BY <1>1
  <1>3. /\ Len(s) <= Len(query_token) /\ \A i \in DOMAIN s : query_token[i] = s[i]
        /\ Len(query_token) \in Nat
    BY <1>1, LenProperties DEF Begins
  <1>4. QED
    BY <1>2, <1>3

(* A query from a place on, with and without punctuation.                    *)
From(i) == SubSeq(query_token, i, Len(query_token))

RestIs(i) ==
  /\ Rest(i) \in Seq(STRING) /\ Len(Rest(i)) = Len(query_token) + 1 - i
  /\ \A k \in 1 .. Len(query_token) + 1 - i :
       Rest(i)[k] = Converted(Bare, query_token[i + k - 1])

LEMMA Rests ==
  ASSUME query_token \in Seq(STRING), NEW i \in Nat, i >= 1, i <= Len(query_token) + 1
  PROVE  RestIs(i)
  <1> PICK rest : rest = From(i)
    OBVIOUS
  <1>1. /\ rest \in Seq(STRING) /\ Len(rest) = Len(query_token) + 1 - i
        /\ \A k \in 1 .. Len(rest) : rest[k] = query_token[i + k - 1]
    <2>1. Len(query_token) \in Nat /\ \A k \in i .. Len(query_token) : query_token[k] \in STRING
      BY ElementOfSeq, LenProperties
    <2>2. QED
      BY <2>1, SubSeqProperties DEF From
  <1>2. \A w \in STRING : Converted(Bare, w) \in STRING
    BY ParserAssumption DEF Converted
  <1> PICK bare : bare = Rest(i)
    OBVIOUS
  <1> PICK n \in Nat : n = Len(rest)
    BY <1>1, LenProperties
  <1>3. bare = [k \in 1 .. n |-> Converted(Bare, rest[k])]
    BY <1>1 DEF remove_punct, Rest, From
  <1>4. \A k \in 1 .. n : Converted(Bare, rest[k]) \in STRING
    <2>1. \A k \in 1 .. n : rest[k] \in STRING
      BY <1>1, ElementOfSeq
    <2>2. QED
      BY <1>2, <2>1
  <1>5. bare \in [1 .. n -> STRING]
    BY <1>3, <1>4
  <1>6. bare \in Seq(STRING) /\ Len(bare) = n
    BY <1>5
  <1>7. QED
    BY <1>1, <1>3, <1>6 DEF RestIs

(* Where no ORDER BY follows, a condition reaches to the end.                *)
LEMMA ConditionIs ==
  ASSUME query_token \in Seq(STRING), NEW i \in Nat, i >= 1, i <= Len(query_token) + 1,
         "order" \notin Words
  PROVE  /\ Condition(i, << >>) = Filled("condition", Rest(i))
         /\ \A c : Condition(i, <<c>>) = <<c>> \o Filled("condition", Rest(i))
  <1>1. Len(query_token) \in Nat /\ DOMAIN query_token = 1 .. Len(query_token)
    BY LenProperties
  <1>2. \A j \in i .. Len(query_token) : query_token[j] \notin {"order"}
    BY <1>1 DEF Words, ToSet
  <1>3. Until({"order"}, i) = Len(query_token) + 1
    BY <1>1, <1>2, UntilIs
  <1>4. remove_punct(Between(i, Until({"order"}, i))) = Rest(i)
    BY <1>1, <1>3 DEF Between, Rest
  <1> PICK rest : rest = Rest(i)
    OBVIOUS
  <1>5. \A before : Condition(i, before) =
          IF rest = << >> THEN before ELSE Append(before, Clause("condition", rest))
    BY <1>4 DEF Condition
  <1>6. ASSUME NEW c PROVE Condition(i, <<c>>) = <<c>> \o Filled("condition", rest)
    <2> PICK e : e = Clause("condition", rest)
      OBVIOUS
    <2> DEFINE S == {c, e}
    <2>1. <<c>> \in Seq(S) /\ Clause("condition", rest) \in S
      OBVIOUS
    <2>2. <<c>> \o Filled("condition", rest) =
            IF rest = << >> THEN <<c>> ELSE Append(<<c>>, Clause("condition", rest))
      <3> HIDE DEF S
      <3>1. ASSUME NEW s \in Seq(S)
            PROVE  s \o Filled("condition", rest) =
                     IF rest = << >> THEN s ELSE Append(s, Clause("condition", rest))
        BY <2>1, AppendFilled
      <3>2. QED
        BY <2>1, <3>1
    <2>3. QED
      BY <1>5, <2>2
  <1>7. Condition(i, << >>) = Filled("condition", rest)
    <2>1. Append(<< >>, Clause("condition", rest)) = <<Clause("condition", rest)>>
      BY AppendTuples
    <2>2. QED
      BY <1>5, <2>1 DEF Filled
  <1>8. QED
    BY <1>6, <1>7

Paired(sent, values) ==
  /\ 2 * Len(values) = Len(sent)
  /\ \A i \in DOMAIN sent : sent[i] = values[(i + 1) \div 2][IF i % 2 = 1 THEN 1 ELSE 2]

(* The queries that are written in full.                                     *)
IsCreate(t) == Begins(<<"create", "table", t>>) /\ Len(query_token) % 2 = 1
IsInsert(t) == Begins(<<"insert", "into", t, "values">>)
IsDrop(t)   == Begins(<<"drop", "table", t>>)
IsTake(t)   == Begins(<<"take", "snapshot", t>>)
IsView(t)   == Begins(<<"view", "snapshot", t>>)
IsDelete(t) == Begins(<<"delete", "from", t, "where">>) /\ "order" \notin Words

Created(t) == Called("addTable", t, called.values) /\ Paired(Rest(4), called.values)
Inserted(t) == Called("insertInto", t, Tail(Rest(4)))
Deleted(t) == OnlyShown(t, Filled("condition", Rest(5)))
Updated(t, where) ==
  /\ mat # << >> /\ mat[1].label = "update_items"
  /\ OnlyShown(t, <<mat[1]>> \o Filled("condition", Rest(where + 1)))

(* What CalledAsSent says of a table name, part by part.                     *)
CalledFor(t) ==
  /\ IsCreate(t) => Created(t)
  /\ IsInsert(t) => Inserted(t)
  /\ IsDrop(t)   => Called("dropTable", t, << >>)
  /\ IsTake(t)   => Called("takeSnap", t, << >>)
  /\ IsView(t)   => Called("showSnap", t, << >>)
  /\ IsDelete(t) => Deleted(t)
  /\ \A where \in Places : UpdatesWhere(t, where) => Updated(t, where)

LEMMA CalledParts ==
  /\ CalledAsSent <=> (pc # "start" => \A t \in Words : CalledFor(t))
  /\ CalledAsSent' <=> (pc' # "start" => \A t \in Words' : CalledFor(t)')
  <1>1. CalledAsSent <=> (pc # "start" => \A t \in Words : CalledFor(t))
    BY SMTT(30)
    DEF CalledAsSent, IsCreate, IsInsert, IsDrop, IsTake, IsView, IsDelete, Created,
        Inserted, Deleted, Updated, Paired, CalledFor
  <1>2. CalledAsSent' <=> (pc' # "start" => \A t \in Words' : CalledFor(t)')
    BY SMTT(30)
    DEF CalledAsSent, IsCreate, IsInsert, IsDrop, IsTake, IsView, IsDelete, Created,
        Inserted, Deleted, Updated, Paired, CalledFor
  <1>3. QED
    BY <1>1, <1>2

(* INSERT: the values are the words from the fifth on.                       *)
LEMMA InsertWords ==
  ASSUME query_token \in Seq(STRING), Len(query_token) >= 4
  PROVE  Rest(5) = Tail(Rest(4))
  <1> PICK n : n = Len(query_token)
    OBVIOUS
  <1>1. n \in Nat /\ n >= 4
    BY LenProperties
  <1>2. RestIs(4) /\ RestIs(5)
    BY <1>1, Rests
  <1> PICK four : four = Rest(4)
    OBVIOUS
  <1> PICK five : five = Rest(5)
    OBVIOUS
  <1>5. /\ four \in Seq(STRING) /\ Len(four) = n - 3
        /\ \A k \in 1 .. n - 3 : four[k] = Converted(Bare, query_token[k + 3])
    <2>1. /\ four \in Seq(STRING) /\ Len(four) = n + 1 - 4
          /\ \A k \in 1 .. n + 1 - 4 : four[k] = Converted(Bare, query_token[4 + k - 1])
      BY <1>2 DEF RestIs
    <2>2. \A k \in 1 .. n - 3 : k \in 1 .. n + 1 - 4 /\ 4 + k - 1 = k + 3
      BY <1>1
    <2>3. QED
      BY <1>1, <2>1, <2>2
  <1>6. /\ five \in Seq(STRING) /\ Len(five) = n - 4
        /\ \A k \in 1 .. n - 4 : five[k] = Converted(Bare, query_token[k + 4])
    <2>1. /\ five \in Seq(STRING) /\ Len(five) = n + 1 - 5
          /\ \A k \in 1 .. n + 1 - 5 : five[k] = Converted(Bare, query_token[5 + k - 1])
      BY <1>2 DEF RestIs
    <2>2. \A k \in 1 .. n - 4 : k \in 1 .. n + 1 - 5 /\ 5 + k - 1 = k + 4
      BY <1>1
    <2>3. QED
      BY <1>1, <2>1, <2>2
  <1> PICK tail : tail = Tail(four)
    OBVIOUS
  <1>7. /\ tail \in Seq(STRING) /\ Len(tail) = n - 4
        /\ \A k \in 1 .. n - 4 : tail[k] = four[k + 1]
    <2>1. four # << >> /\ Len(four) - 1 = n - 4
      BY <1>1, <1>5
    <2>2. QED
      BY <1>5, <2>1, HeadTailProperties
  <1>8. \A k \in 1 .. Len(five) : five[k] = tail[k]
    <2>1. ASSUME NEW k \in 1 .. n - 4 PROVE five[k] = tail[k]
      <3>1. k + 1 \in 1 .. n - 3 /\ (k + 1) + 3 = k + 4
        BY <1>1
      <3>2. four[k + 1] = Converted(Bare, query_token[(k + 1) + 3])
        BY <1>5, <3>1
      <3>3. QED
        BY <1>6, <1>7, <3>1, <3>2
    <2>2. QED
      BY <1>6, <2>1
  <1>9. five = tail
    BY <1>6, <1>7, <1>8, SeqEqual
  <1>10. QED
    BY <1>9

LEMMA PairsAre ==
  ASSUME NEW sent \in Seq(STRING), Len(sent) % 2 = 0, NEW values,
         values = [i \in 1 .. Len(sent) \div 2 |-> <<sent[2 * i - 1], sent[2 * i]>>]
  PROVE  Paired(sent, values)
  <1> PICK n \in Nat : n = Len(sent)
    BY LenProperties
  <1>1. n % 2 = 0 /\ DOMAIN sent = 1 .. n
    BY LenProperties
  <1>2. values = [i \in 1 .. n \div 2 |-> <<sent[2 * i - 1], sent[2 * i]>>]
    OBVIOUS
  <1>3. n \div 2 \in Nat /\ 2 * (n \div 2) = n
    BY <1>1, Halves
  <1>4. Len(values) = n \div 2
    BY <1>2, <1>3
  <1>5. ASSUME NEW i \in 1 .. n
        PROVE  sent[i] = values[(i + 1) \div 2][IF i % 2 = 1 THEN 1 ELSE 2]
    <2>h. PICK h : h = (i + 1) \div 2
      OBVIOUS
    <2>1. h \in 1 .. n \div 2 /\ IF i % 2 = 1 THEN 2 * h - 1 = i ELSE 2 * h = i
      BY <1>1, <2>h, Halves
    <2>2. PICK a : a = sent[2 * h - 1]
      OBVIOUS
    <2>3. PICK b : b = sent[2 * h]
      OBVIOUS
    <2>4. PICK pair : pair = <<a, b>>
      OBVIOUS
    <2>5. values[h] = pair
      BY <1>2, <2>1, <2>2, <2>3, <2>4
    <2>6. pair[1] = a /\ pair[2] = b
      BY <2>4
    <2>7. CASE i % 2 = 1
      <3>1. a = sent[i]
        BY <2>1, <2>2, <2>7
      <3>2. QED
        BY <2>h, <2>5, <2>6, <2>7, <3>1
    <2>8. CASE i % 2 # 1
      <3>1. b = sent[i]
        BY <2>1, <2>3, <2>8
      <3>2. QED
        BY <2>h, <2>5, <2>6, <2>8, <3>1
    <2>9. QED
      BY <2>7, <2>8
  <1>6. QED
    BY <1>1, <1>3, <1>4, <1>5 DEF Paired

Uncalled == pc = "start" => called = NoCall

LEMMA UncalledStep ==
  ASSUME Uncalled, [Next]_vars
  PROVE  Uncalled'
  <1>1. Next => pc' # "start"
    BY Endings
    DEF Next, Select, Answers, Others, Ended, extract_column, extract_table,
        extract_condition, extract_sort_column
  <1>2. UNCHANGED vars => Uncalled'
    BY DEF Uncalled, vars
  <1>3. QED
    BY <1>1, <1>2 DEF Uncalled

(* What the first word allows.                                               *)
LEMMA FirstWord ==
  ASSUME query_token # << >>, Parsed, [Next]_vars, ~UNCHANGED vars
  PROVE  /\ query_token[1] = "create" => extract_create
         /\ query_token[1] = "insert" => extract_insert
         /\ query_token[1] = "drop" => extract_drop
         /\ query_token[1] \in {"take", "view"} => Snapshot
         /\ query_token[1] = "delete" => extract_delete
         /\ query_token[1] = "update" => extract_update
  <1>1. /\ Answers => query_token[1] = "select"
        /\ extract_column => query_token[1] = "select"
        /\ extract_table \/ extract_condition \/ extract_sort_column => query_token[1] = "select"
    BY Endings DEF Parsed, Selecting, extract_column, Is, extract_table, extract_condition,
                   extract_sort_column
  <1>2. /\ extract_create => query_token[1] = "create"
        /\ extract_insert => query_token[1] = "insert"
        /\ extract_drop => query_token[1] = "drop"
        /\ Snapshot => query_token[1] \in {"take", "view"}
        /\ extract_delete => query_token[1] = "delete"
        /\ extract_update => query_token[1] = "update"
        /\ Unknown => query_token[1] \notin Kinds
        /\ ~NoToken
    BY DEF extract_create, extract_insert, extract_drop, Snapshot, extract_delete,
           extract_update, Unknown, NoToken, Is
  <1>3. \/ Answers \/ extract_column
        \/ extract_table \/ extract_condition \/ extract_sort_column
        \/ extract_create \/ extract_insert \/ extract_drop \/ Snapshot
        \/ extract_delete \/ extract_update \/ Unknown \/ NoToken
    BY DEF Next, Select, Answers
  <1>4. QED
    BY <1>1, <1>2, <1>3 DEF Kinds

LEMMA CreateCalls ==
  ASSUME query_token \in Seq(STRING), NEW t, IsCreate(t), extract_create,
         query_token' = query_token
  PROVE  Created(t)'
  <1>1. Has(3) /\ query_token[3] = t /\ Len(query_token) \in Nat /\ Len(query_token) >= 3
    BY Begin3 DEF Has, IsCreate
  <1>2. RestIs(4)
    BY <1>1, Rests
  <1> PICK sent : sent = Rest(4)
    OBVIOUS
  <1> PICK n : n = Len(query_token)
    OBVIOUS
  <1>3. sent \in Seq(STRING) /\ Len(sent) = n + 1 - 4 /\ n % 2 = 1 /\ n \in Nat /\ n >= 3
    BY <1>1, <1>2 DEF RestIs, IsCreate
  <1>4. Len(sent) % 2 = 0
    BY <1>3
  <1> PICK values : values = [i \in 1 .. Len(sent) \div 2 |-> <<sent[2 * i - 1], sent[2 * i]>>]
    OBVIOUS
  <1>5. Calls("addTable", t, values)
    BY <1>1, <1>3 DEF extract_create, Rest
  <1>6. /\ pc' = "called" /\ called' = [do |-> "addTable", name |-> t, values |-> values]
        /\ called'.values = values
    BY <1>5 DEF Calls
  <1>7. Paired(sent, values)
    BY <1>3, <1>4, PairsAre
  <1>8. Rest(4)' = sent
    BY DEF Rest, remove_punct
  <1>9. QED
    BY <1>6, <1>7, <1>8 DEF Created, Called, Paired

LEMMA InsertCalls ==
  ASSUME query_token \in Seq(STRING), NEW t, IsInsert(t), extract_insert,
         query_token' = query_token
  PROVE  Inserted(t)'
  <1>1. Has(3) /\ query_token[3] = t /\ Rest(5) = Tail(Rest(4))
    BY Begin4, InsertWords DEF Has, IsInsert
  <1>2. Calls("insertInto", t, Rest(5))
    BY <1>1 DEF extract_insert, Rest
  <1>3. Rest(4)' = Rest(4)
    BY DEF Rest, remove_punct
  <1>4. QED
    BY <1>1, <1>2, <1>3 DEF Calls, Inserted, Called

LEMMA OthersCall ==
  ASSUME query_token \in Seq(STRING), NEW t
  PROVE  /\ IsDrop(t) /\ extract_drop => Called("dropTable", t, << >>)'
         /\ IsTake(t) /\ Snapshot => Called("takeSnap", t, << >>)'
         /\ IsView(t) /\ Snapshot => Called("showSnap", t, << >>)'
  <1>1. IsDrop(t) => Has(3) /\ query_token[3] = t
    BY Begin3 DEF Has, IsDrop
  <1>2. IsTake(t) => Has(3) /\ query_token[3] = t /\ query_token[1] = "take"
    BY Begin3 DEF Has, IsTake
  <1>3. IsView(t) => Has(3) /\ query_token[3] = t /\ query_token[1] = "view"
    BY Begin3 DEF Has, IsView
  <1>4. Snapshot => pc = "start" /\ query_token # << >>
    BY DEF Snapshot, Is
  <1>5. QED
    BY <1>1, <1>2, <1>3, <1>4 DEF extract_drop, Snapshot, Is, Calls, Called

LEMMA DeleteShows ==
  ASSUME Parsed, NEW t, IsDelete(t), extract_delete, called = NoCall,
         query_token' = query_token
  PROVE  Deleted(t)'
  <1>1. query_token \in Seq(STRING) /\ mat = << >>
    BY DEF Parsed, extract_delete, Is
  <1>2. /\ Has(4) /\ query_token[3] = t /\ query_token[4] = "where"
        /\ Len(query_token) \in Nat /\ Len(query_token) >= 4
    BY <1>1, Begin4 DEF Has, IsDelete
  <1>3. Condition(5, mat) = Filled("condition", Rest(5))
    BY <1>1, <1>2, ConditionIs DEF IsDelete
  <1>4. Printed(t, Filled("condition", Rest(5)))
    BY <1>2, <1>3 DEF extract_delete
  <1>5. Filled("condition", Rest(5))' = Filled("condition", Rest(5))
    BY DEF Filled, Clause, Rest, remove_punct
  <1>6. QED
    BY <1>4, <1>5 DEF Printed, Deleted, OnlyShown

LEMMA UpdateShows ==
  ASSUME Parsed, NEW t, NEW where \in Places, UpdatesWhere(t, where), extract_update,
         called = NoCall, query_token' = query_token
  PROVE  Updated(t, where)'
  <1>1. query_token \in Seq(STRING)
    BY DEF Parsed
  <1>2. /\ Has(3) /\ query_token[2] = t /\ query_token[3] = "set"
        /\ Len(query_token) \in Nat /\ where \in Nat /\ where <= Len(query_token) /\ 3 < where
    <2>1. PICK s : s = <<"update", t, "set">>
      OBVIOUS
    <2>2. Len(s) = 3 /\ DOMAIN s = 1 .. 3 /\ s[2] = t /\ s[3] = "set"
      BY <2>1
    <2>3. /\ Len(s) <= Len(query_token) /\ \A i \in DOMAIN s : query_token[i] = s[i]
          /\ Len(query_token) \in Nat
      BY <1>1, <2>1, LenProperties DEF UpdatesWhere, Begins
    <2>4. QED
      BY <2>2, <2>3 DEF Has, UpdatesWhere, Places
  <1>3. Until({"where"}, 4) = where
    BY <1>1, <1>2, UntilIs DEF UpdatesWhere
  <1> DEFINE things == Clause("update_items", Items(Between(4, where)))
             rest == Filled("condition", Rest(where + 1))
  <1>4. Condition(where + 1, <<things>>) = <<things>> \o rest
    <2> HIDE DEF things
    <2>1. where + 1 \in Nat /\ where + 1 >= 1 /\ where + 1 <= Len(query_token) + 1
      BY <1>2
    <2>2. PICK i \in Nat : i = where + 1
      BY <2>1
    <2>3. i >= 1 /\ i <= Len(query_token) + 1 /\ "order" \notin Words
      BY <2>1, <2>2 DEF UpdatesWhere
    <2>4. \A c : Condition(i, <<c>>) = <<c>> \o Filled("condition", Rest(i))
      BY <1>1, <2>3, ConditionIs, ZenonT(40)
    <2>5. QED
      BY <2>2, <2>4
  <1>5. Printed(t, Condition(where + 1, <<things>>))
    <2> HIDE DEF things
    <2>1. things = Clause("update_items", Items(Between(4, Until({"where"}, 4))))
      BY <1>3 DEF things
    <2>2. QED
      BY <1>2, <1>3, <2>1 DEF extract_update, UpdatesWhere
  <1>6. /\ pc' = "printed" /\ tabelname' = t /\ called' = NoCall
        /\ mat' = <<things>> \o rest
    <2> HIDE DEF things, rest
    <2>1. QED
      BY <1>4, <1>5 DEF Printed
  <1>7. mat' # << >> /\ mat'[1] = things
    <2> PICK e : e = Clause("condition", Rest(where + 1))
      OBVIOUS
    <2> DEFINE S == {things, e}
    <2>1. rest = << >> \/ rest = <<e>>
      BY DEF Filled
    <2>2. <<things>> \in Seq(S) /\ << >> \in Seq(S) /\ <<e>> \in Seq(S)
      <3> HIDE DEF things
      <3>1. QED
        OBVIOUS
    <2> HIDE DEF things, rest
    <2>3. Len(<<things>>) = 1 /\ <<things>>[1] = things
      OBVIOUS
    <2>4. <<things>> \in Seq(S) /\ rest \in Seq(S)
      BY <2>1, <2>2
    <2>5. PICK one : one = <<things>>
      OBVIOUS
    <2>6. /\ Len(one \o rest) = Len(one) + Len(rest)
          /\ (one \o rest)[1] = one[1]
      <3>1. Len(rest) \in Nat /\ Len(one) = 1
        BY <2>3, <2>4, <2>5, LenProperties
      <3>2. 1 \in 1 .. Len(one) + Len(rest)
        BY <3>1
      <3> HIDE DEF S
      <3>3. QED
        BY <2>4, <2>5, <3>1, <3>2, ConcatProperties
    <2>7. Len(rest) \in Nat
      BY <2>4, LenProperties
    <2>8. QED
      BY <1>6, <2>3, <2>5, <2>6, <2>7
  <1>8. things.label = "update_items"
    BY DEF Clause
  <1>9. rest' = rest
    BY DEF Filled, Clause, Rest, remove_punct
  <1>10. QED
    <2> HIDE DEF things
    <2>1. mat'[1].label = "update_items" /\ <<mat'[1]>> = <<things>>
      BY <1>7, <1>8
    <2>2. <<mat[1]>>' = <<mat'[1]>>
      OBVIOUS
    <2>3. QED
      BY <1>6, <1>7, <1>9, <2>1, <2>2 DEF Updated, OnlyShown

LEMMA CalledStep ==
  ASSUME Parsed, Uncalled, CalledAsSent, [Next]_vars
  PROVE  CalledAsSent'
  <1>1. query_token \in Seq(STRING) /\ query_token' = query_token
    BY Endings DEF Parsed, vars
  <1>2. /\ Words' = Words /\ Places' = Places
        /\ \A t : /\ IsCreate(t)' = IsCreate(t) /\ IsInsert(t)' = IsInsert(t)
                  /\ IsDrop(t)' = IsDrop(t) /\ IsTake(t)' = IsTake(t)
                  /\ IsView(t)' = IsView(t) /\ IsDelete(t)' = IsDelete(t)
        /\ \A t, where : UpdatesWhere(t, where)' = UpdatesWhere(t, where)
    BY <1>1 DEF Words, Places, Begins, Has, IsCreate, IsInsert, IsDrop, IsTake, IsView,
                IsDelete, UpdatesWhere
  <1>3. CASE UNCHANGED vars
    <2>1. /\ \A i : Rest(i)' = Rest(i)
          /\ UNCHANGED <<pc, called, tabelname, mat>>
      BY <1>1, <1>3 DEF vars, Rest, remove_punct
    <2>2. /\ \A t : Created(t)' = Created(t) /\ Inserted(t)' = Inserted(t)
          /\ \A do, t : Called(do, t, << >>)' = Called(do, t, << >>)
      BY <2>1 DEF Created, Inserted, Paired, Called
    <2>3. /\ \A t : Deleted(t)' = Deleted(t)
          /\ \A t, where : Updated(t, where)' = Updated(t, where)
      BY <2>1 DEF Deleted, Updated, OnlyShown, Filled, Clause
    <2>4. \A t : CalledFor(t)' <=> CalledFor(t)
      BY <1>2, <2>2, <2>3 DEF CalledFor
    <2>5. QED
      BY <1>2, <2>1, <2>4, CalledParts
  <1>4. CASE ~UNCHANGED vars
    <2>1. ASSUME NEW t \in Words PROVE CalledFor(t)'
      <3>1. IsCreate(t) => Created(t)'
        <4>1. IsCreate(t) => query_token # << >> /\ query_token[1] = "create"
          BY <1>1, Begin3 DEF IsCreate
        <4>2. QED
          BY <1>1, <1>4, <4>1, FirstWord, CreateCalls
      <3>2. IsInsert(t) => Inserted(t)'
        <4>1. IsInsert(t) => query_token # << >> /\ query_token[1] = "insert"
          BY <1>1, Begin4 DEF IsInsert
        <4>2. QED
          BY <1>1, <1>4, <4>1, FirstWord, InsertCalls
      <3>3. /\ IsDrop(t) => Called("dropTable", t, << >>)'
            /\ IsTake(t) => Called("takeSnap", t, << >>)'
            /\ IsView(t) => Called("showSnap", t, << >>)'
        <4>1. /\ IsDrop(t) => query_token # << >> /\ query_token[1] = "drop"
              /\ IsTake(t) => query_token # << >> /\ query_token[1] = "take"
              /\ IsView(t) => query_token # << >> /\ query_token[1] = "view"
          BY <1>1, Begin3 DEF IsDrop, IsTake, IsView
        <4>2. /\ IsDrop(t) => extract_drop
              /\ IsTake(t) => Snapshot
              /\ IsView(t) => Snapshot
          BY <1>4, <4>1, FirstWord
        <4>3. QED
          BY <1>1, <4>2, OthersCall
      <3>4. IsDelete(t) => Deleted(t)'
        <4>1. IsDelete(t) => query_token # << >> /\ query_token[1] = "delete"
          BY <1>1, Begin4 DEF IsDelete
        <4>2. IsDelete(t) => extract_delete
          BY <1>4, <4>1, FirstWord
        <4>3. extract_delete => called = NoCall
          BY DEF extract_delete, Is, Uncalled
        <4>4. QED
          BY <1>1, <4>2, <4>3, DeleteShows
      <3>5. ASSUME NEW where \in Places, UpdatesWhere(t, where) PROVE Updated(t, where)'
        <4>1. query_token # << >> /\ query_token[1] = "update"
          BY <1>1, <3>5, Begin3 DEF UpdatesWhere
        <4>2. extract_update
          BY <1>4, <4>1, FirstWord
        <4>3. called = NoCall
          BY <4>2 DEF extract_update, Is, Uncalled, Printed, Undefined
        <4>4. QED
          BY <1>1, <3>5, <4>2, <4>3, UpdateShows
      <3>6. QED
        BY <1>2, <3>1, <3>2, <3>3, <3>4, <3>5 DEF CalledFor
    <2>2. QED
      BY <1>2, <2>1, CalledParts
  <1>5. QED
    BY <1>3, <1>4

(* Every query but SELECT that is written in full (CREATE with a type for    *)
(* each column, DELETE and UPDATE with a WHERE) stays within its tokens and  *)
(* does what was sent: CREATE, INSERT, DROP, TAKE and VIEW call their        *)
(* operation with the table, every value and every pair, DELETE and UPDATE   *)
(* call nothing and keep the table and the condition (process_Query and the  *)
(* extract functions, parser.cpp).  How UPDATE cuts its items is not said.   *)
THEOREM CallsAreAsSent == Spec => []CalledAsSent
  <1>1. Init => CalledAsSent /\ Uncalled
    <2>1. Init => pc = "start" /\ called = NoCall
      BY DEF Init
    <2>2. QED
      BY <2>1, CalledParts DEF Uncalled
  <1>2. ParserInv /\ Uncalled /\ CalledAsSent /\ [Next]_vars => CalledAsSent'
    BY CalledStep DEF ParserInv
  <1>3. ParserInv /\ Uncalled /\ [Next]_vars => Uncalled'
    BY UncalledStep
  <1>4. QED
    BY <1>1, <1>2, <1>3, ParserHolds, PTL DEF Spec

----------------------------------------------------------------------------
(* The clauses of an answered SELECT                                         *)

(* The words of a query of which the first four are known.                   *)
LEMMA Front4Words ==
  ASSUME query_token \in Seq(STRING), NEW b, NEW t, NEW T, NEW rest \in Seq(T), NEW n \in Nat,
         query_token = <<"select", b, "from", t>> \o rest, Len(rest) = n
  PROVE  /\ Len(query_token) = n + 4 /\ query_token[1] = "select"
         /\ query_token[3] = "from" /\ query_token[4] = t
         /\ \A i \in 1 .. n : query_token[i + 4] = rest[i]
  <1> DEFINE S == T \cup {"select", b, "from", t}
  <1>1. PICK s : s = <<"select", b, "from", t>>
    OBVIOUS
  <1>2. /\ s \in Seq(S) /\ Len(s) = 4 /\ s[1] = "select" /\ s[3] = "from" /\ s[4] = t
        /\ rest \in Seq(S)
    BY <1>1
  <1>3. /\ Len(s \o rest) = Len(s) + Len(rest)
        /\ \A i \in 1 .. Len(s) + Len(rest) :
             (s \o rest)[i] = IF i <= Len(s) THEN s[i] ELSE rest[i - Len(s)]
    <2> HIDE DEF S
    <2>1. QED
      BY <1>2, ConcatProperties
  <1>4. Len(query_token) = n + 4 /\ query_token = s \o rest
    BY <1>1, <1>2, <1>3
  <1>5. /\ query_token[1] = s[1] /\ query_token[3] = s[3] /\ query_token[4] = s[4]
    <2>1. 1 \in 1 .. 4 + n /\ 3 \in 1 .. 4 + n /\ 4 \in 1 .. 4 + n
      OBVIOUS
    <2>2. QED
      BY <1>2, <1>3, <1>4, <2>1
  <1>6. ASSUME NEW i \in 1 .. n PROVE query_token[i + 4] = rest[i]
    <2>1. i + 4 \in 1 .. 4 + n /\ ~(i + 4 <= 4) /\ (i + 4) - 4 = i
      OBVIOUS
    <2>2. QED
      BY <1>2, <1>3, <1>4, <2>1
  <1>7. QED
    BY <1>2, <1>4, <1>5, <1>6

(* Where the clauses are, with a WHERE or none.                              *)
PlacedAt(where, order) ==
  /\ 3 \in Places /\ where \in Places /\ order \in Places /\ InOrder(3, where, order)

LEMMA PlacedFrom ==
  ASSUME query_token \in Seq(STRING), Len(query_token) >= 4, query_token[3] = "from",
         NEW from \in Places, NEW where \in Places, NEW order \in Places,
         InOrder(from, where, order)
  PROVE  from = 3
  <1>1. from \in Nat /\ where \in Nat /\ order \in Nat /\ Len(query_token) \in Nat
    BY LenProperties DEF Places
  <1>2. 2 < from /\ from + 1 < where /\ where <= order
    BY DEF InOrder
  <1>3. 3 \in {1, from, where, order, order + 1}
    <2>1. 3 \in 1 .. Len(query_token) /\ query_token[3] \in all_clause_set
      BY <1>1 DEF all_clause_set
    <2>2. QED
      BY <2>1 DEF InOrder
  <1>4. QED
    BY <1>1, <1>2, <1>3

LEMMA PlacedAll ==
  ASSUME query_token \in Seq(STRING), NEW t, Asked(t, << >>)
  PROVE  PlacedAt(5, 5) /\ Len(query_token) = 4 /\ query_token[4] = t
  <1>1. query_token = <<"select", "*", "from", t>> \o << >>
    BY DEF Asked
  <1>2. Len(query_token) = 4 /\ query_token[3] = "from" /\ query_token[4] = t
    <2>1. << >> \in Seq(STRING) /\ Len(<< >>) = 0
      OBVIOUS
    <2>2. QED
      BY <1>1, <2>1, Front4Words
  <1>3. PICK from, where, order \in Places : InOrder(from, where, order)
    BY DEF Asked
  <1>4. from = 3
    BY <1>2, <1>3, PlacedFrom
  <1>5. where \in 1 .. 5 /\ order \in 1 .. 5 /\ where > 4 /\ where <= order
    BY <1>2, <1>3, <1>4 DEF InOrder, Places
  <1>6. where = 5 /\ order = 5
    BY <1>5
  <1>7. QED
    BY <1>2, <1>3, <1>4, <1>6 DEF PlacedAt

LEMMA PlacedWhere ==
  ASSUME query_token \in Seq(STRING), NEW t, NEW c \in Words,
         NEW tail \in Sorted \cup {<< >>}, Asked(t, <<"where", c>> \o tail)
  PROVE  /\ PlacedAt(5, 7) /\ Len(query_token) \in Nat /\ Len(query_token) >= 6
         /\ query_token[4] = t /\ query_token[6] = c
  <1> DEFINE T == Words \cup {"where", "order", "by"}
  <1>1. tail \in Seq(T) /\ (Len(tail) = 0 \/ Len(tail) = 3)
        /\ (Len(tail) = 3 => tail[1] = "order")
    <2>1. CASE tail = << >>
      BY <2>1
    <2>2. CASE tail \in Sorted
      <3>1. PICK w \in Words : tail = <<"order", "by", w>>
        BY <2>2 DEF Sorted
      <3>2. QED
        BY <3>1
    <2>3. QED
      BY <2>1, <2>2
  <1> PICK two : two = <<"where", c>>
    OBVIOUS
  <1>2. two \in Seq(T) /\ Len(two) = 2 /\ two[1] = "where" /\ two[2] = c
    OBVIOUS
  <1> PICK n \in Nat : n = Len(tail)
    BY <1>1, LenProperties
  <1> PICK rest : rest = two \o tail
    OBVIOUS
  <1>3. /\ rest \in Seq(T) /\ Len(rest) = n + 2
        /\ rest[1] = "where" /\ rest[2] = c /\ n = 3 => rest[3] = "order"
    <2>1. /\ rest \in Seq(T) /\ Len(rest) = Len(two) + Len(tail)
          /\ \A i \in 1 .. Len(two) + Len(tail) :
               rest[i] = IF i <= Len(two) THEN two[i] ELSE tail[i - Len(two)]
      <3> HIDE DEF T
      <3>1. QED
        BY <1>1, <1>2, ConcatProperties
    <2>2. Len(rest) = n + 2 /\ \A i \in 1 .. n + 2 : rest[i] = IF i <= 2 THEN two[i] ELSE tail[i - 2]
      BY <1>2, <2>1
    <2>3. 1 \in 1 .. n + 2 /\ 2 \in 1 .. n + 2 /\ (n = 3 => 3 \in 1 .. n + 2)
      OBVIOUS
    <2>4. rest[1] = two[1] /\ rest[2] = two[2]
      BY <2>2, <2>3
    <2>5. n = 3 => rest[3] = tail[1]
      BY <2>2, <2>3
    <2>6. QED
      BY <1>1, <1>2, <2>1, <2>2, <2>4, <2>5
  <1>4. /\ Len(query_token) = n + 6 /\ query_token[3] = "from" /\ query_token[4] = t
        /\ query_token[5] = "where" /\ query_token[6] = c
        /\ n = 3 => query_token[7] = "order"
    <2>1. query_token = <<"select", "*", "from", t>> \o rest
      BY DEF Asked
    <2>2. n + 2 \in Nat /\ (n + 2) + 4 = n + 6
      OBVIOUS
    <2>3. /\ Len(query_token) = n + 6 /\ query_token[3] = "from" /\ query_token[4] = t
          /\ \A i \in 1 .. n + 2 : query_token[i + 4] = rest[i]
      <3> HIDE DEF T
      <3>1. QED
        BY <1>3, <2>1, <2>2, Front4Words
    <2>4. 1 \in 1 .. n + 2 /\ 2 \in 1 .. n + 2 /\ (n = 3 => 3 \in 1 .. n + 2)
      OBVIOUS
    <2>5. query_token[1 + 4] = rest[1] /\ query_token[2 + 4] = rest[2]
          /\ (n = 3 => query_token[3 + 4] = rest[3])
      BY <2>3, <2>4
    <2>6. QED
      BY <1>3, <2>3, <2>5
  <1>5. PICK from, where, order \in Places : InOrder(from, where, order)
    BY DEF Asked
  <1>6. from = 3
    BY <1>4, <1>5, PlacedFrom
  <1>7. /\ where \in Nat /\ order \in Nat /\ where > 4 /\ where <= order /\ order <= n + 7
        /\ order <= n + 6 => query_token[order] = "order" /\ query_token[order + 1] = "by"
        /\ \A i \in 1 .. n + 6 :
             query_token[i] \in all_clause_set => i \in {1, from, where, order, order + 1}
    BY <1>4, <1>5, <1>6 DEF InOrder, Places, Has
  <1>8. 5 \in {1, 3, where, order, order + 1}
    <2>1. 5 \in 1 .. n + 6 /\ query_token[5] \in all_clause_set
      BY <1>4 DEF all_clause_set
    <2>2. QED
      BY <1>6, <1>7, <2>1
  <1>9. where = 5 /\ order # 5
    BY <1>4, <1>7, <1>8
  <1>10. order = 7
    <2>1. CASE n = 0
      <3>1. order = 6 => query_token[7] = "by" /\ order + 1 <= Len(query_token)
        BY <1>4, <1>5, <1>7, <2>1 DEF InOrder, Has
      <3>2. QED
        BY <1>4, <1>7, <1>9, <2>1, <3>1
    <2>2. CASE n = 3
      <3>1. 7 \in {1, 3, where, order, order + 1}
        <4>1. 7 \in 1 .. n + 6 /\ query_token[7] \in all_clause_set
          BY <1>4, <2>2 DEF all_clause_set
        <4>2. QED
          BY <1>6, <1>7, <4>1
      <3>2. order = 6 => query_token[7] = "by"
        BY <1>7, <2>2
      <3>3. QED
        BY <1>4, <1>9, <2>2, <3>1, <3>2
    <2>3. QED
      BY <1>1, <2>1, <2>2
  <1>11. QED
    BY <1>4, <1>5, <1>6, <1>9, <1>10 DEF PlacedAt, Places

LEMMA PlacedOrder ==
  ASSUME query_token \in Seq(STRING), NEW t, NEW name,
         Asked(t, <<"order", "by", name>>)
  PROVE  /\ PlacedAt(5, 5) /\ Len(query_token) = 7 /\ query_token[4] = t
         /\ query_token[7] = name
  <1> PICK rest : rest = <<"order", "by", name>>
    OBVIOUS
  <1> DEFINE T == {"order", "by", name}
  <1>1. rest \in Seq(T) /\ Len(rest) = 3 /\ rest[1] = "order" /\ rest[3] = name
    OBVIOUS
  <1>2. /\ Len(query_token) = 7 /\ query_token[3] = "from" /\ query_token[4] = t
        /\ query_token[5] = "order" /\ query_token[7] = name
    <2>1. query_token = <<"select", "*", "from", t>> \o rest
      BY DEF Asked
    <2>2. /\ Len(query_token) = 3 + 4 /\ query_token[3] = "from" /\ query_token[4] = t
          /\ \A i \in 1 .. 3 : query_token[i + 4] = rest[i]
      <3> HIDE DEF T
      <3>1. QED
        BY <1>1, <2>1, Front4Words
    <2>3. query_token[1 + 4] = rest[1] /\ query_token[3 + 4] = rest[3]
      BY <2>2
    <2>4. QED
      BY <1>1, <2>2, <2>3
  <1>3. PICK from, where, order \in Places : InOrder(from, where, order)
    BY DEF Asked
  <1>4. from = 3
    BY <1>2, <1>3, PlacedFrom
  <1>5. /\ where \in Nat /\ order \in Nat /\ where > 4 /\ where <= order /\ order <= 8
        /\ where < order => query_token[where] = "where"
        /\ \A i \in 1 .. 7 :
             query_token[i] \in all_clause_set => i \in {1, from, where, order, order + 1}
    BY <1>2, <1>3, <1>4 DEF InOrder, Places
  <1>6. 5 \in {1, 3, where, order, order + 1}
    <2>1. query_token[5] \in all_clause_set
      BY <1>2 DEF all_clause_set
    <2>2. QED
      BY <1>4, <1>5, <2>1
  <1>7. where = 5 /\ order = 5
    BY <1>2, <1>5, <1>6
  <1>8. QED
    BY <1>2, <1>3, <1>4, <1>7 DEF PlacedAt

(* A clause of one word.                                                     *)
LEMMA OneWord ==
  ASSUME query_token \in Seq(STRING), NEW i \in Nat, i >= 1, i <= Len(query_token)
  PROVE  /\ Between(i, i + 1) # << >> /\ Between(i, i + 1)[1] = query_token[i]
         /\ remove_punct(Between(i, i + 1)) # << >>
         /\ remove_punct(Between(i, i + 1))[1] = Converted(Bare, query_token[i])
  <1> PICK words : words = Between(i, i + 1)
    OBVIOUS
  <1>1. words \in Seq(STRING) /\ Len(words) = 1 /\ words[1] = query_token[i]
    <2>1. Len(query_token) \in Nat
      BY LenProperties
    <2>2. ASSUME NEW j \in Int, j <= Len(query_token)
          PROVE  /\ SubSeq(query_token, i, j) \in Seq(STRING)
                 /\ Len(SubSeq(query_token, i, j)) = IF i <= j THEN j - i + 1 ELSE 0
                 /\ \A k \in 1 .. j - i + 1 : SubSeq(query_token, i, j)[k] = query_token[i + k - 1]
      <3>1. \A k \in i .. j : query_token[k] \in STRING
        BY <2>1, <2>2, ElementOfSeq
      <3>2. QED
        BY <2>1, <3>1, SubSeqProperties
    <2>3. words = SubSeq(query_token, i, i)
      BY DEF Between
    <2>4. 1 \in 1 .. i - i + 1 /\ i + 1 - 1 = i /\ i - i + 1 = 1
      OBVIOUS
    <2>i. i \in Int /\ i <= Len(query_token)
      OBVIOUS
    <2>5. /\ words \in Seq(STRING) /\ Len(words) = IF i <= i THEN i - i + 1 ELSE 0
          /\ \A k \in 1 .. i - i + 1 : words[k] = query_token[i + k - 1]
      BY <2>2, <2>3, <2>i, Zenon
    <2>6. words[1] = query_token[i + 1 - 1]
      BY <2>4, <2>5
    <2>7. QED
      BY <2>4, <2>5, <2>6
  <1>2. DOMAIN words = 1 .. 1 /\ words # << >>
    BY <1>1
  <1> PICK bare : bare = remove_punct(words)
    OBVIOUS
  <1>3. bare = [k \in 1 .. 1 |-> Converted(Bare, words[k])]
    BY <1>2 DEF remove_punct
  <1>4. bare[1] = Converted(Bare, words[1]) /\ bare # << >>
    <2>1. 1 \in 1 .. 1 /\ 1 \in DOMAIN bare /\ 1 \notin DOMAIN << >>
      BY <1>3
    <2>2. QED
      BY <1>3, <2>1
  <1>5. QED
    BY <1>1, <1>2, <1>4

(* The clause behind those of the columns and the tables.                    *)
LEMMA ThirdClause ==
  ASSUME NEW a, NEW b, NEW c, NEW T, NEW more \in Seq(T), NEW m,
         m = (<<a, b>> \o <<c>>) \o more
  PROVE  Len(m) \in Nat /\ Len(m) >= 3 /\ m[3] = c
  <1> DEFINE S == T \cup {a, b, c}
  <1> PICK two : two = <<a, b>>
    OBVIOUS
  <1> PICK one : one = <<c>>
    OBVIOUS
  <1> PICK n \in Nat : n = Len(more)
    BY LenProperties
  <1>1. /\ two \in Seq(S) /\ Len(two) = 2 /\ one \in Seq(S) /\ Len(one) = 1 /\ one[1] = c
        /\ more \in Seq(S)
    OBVIOUS
  <1> HIDE DEF S
  <1> PICK three : three = two \o one
    OBVIOUS
  <1>2. three \in Seq(S) /\ Len(three) = 3 /\ three[3] = c
    <2>1. /\ three \in Seq(S) /\ Len(three) = Len(two) + Len(one)
          /\ \A i \in 1 .. Len(two) + Len(one) :
               three[i] = IF i <= Len(two) THEN two[i] ELSE one[i - Len(two)]
      BY <1>1, ConcatProperties
    <2>2. 3 \in 1 .. 2 + 1 /\ ~(3 <= 2) /\ 3 - 2 = 1
      OBVIOUS
    <2>3. QED
      BY <1>1, <2>1, <2>2
  <1>3. /\ Len(m) = Len(three) + Len(more)
        /\ \A i \in 1 .. Len(three) + Len(more) :
             m[i] = IF i <= Len(three) THEN three[i] ELSE more[i - Len(three)]
    BY <1>1, <1>2, ConcatProperties
  <1>4. 3 \in 1 .. 3 + n /\ 3 <= 3
    OBVIOUS
  <1>5. QED
    BY <1>2, <1>3, <1>4

LEMMA SelectedParts ==
  ASSUME Parsed, Parting, pc = "view", NEW where, NEW order, PlacedAt(where, order)
  PROVE  /\ tabelname = query_token[where - 1] /\ Keyed(3, where, order)
         /\ mat = Whole(3, where, order)
  <1>1. query_token \in Seq(STRING)
    BY DEF Parsed
  <1>2. Reached(3, where, order)
    BY DEF Parting, PlacedAt
  <1>3. Keyed(3, where, order)
    BY <1>1, KeyWords DEF PlacedAt
  <1>4. QED
    BY <1>2, <1>3 DEF Reached

LEMMA SelectedAll ==
  ASSUME Parsed, Parting, pc = "view", NEW t, Asked(t, << >>)
  PROVE  tabelname = t /\ "where" \notin clause_set /\ "order" \notin clause_set
  <1>1. PlacedAt(5, 5) /\ Len(query_token) = 4 /\ query_token[4] = t
    BY PlacedAll DEF Parsed
  <1>2. tabelname = query_token[5 - 1] /\ Keyed(3, 5, 5)
    BY <1>1, SelectedParts
  <1>3. QED
    BY <1>1, <1>2 DEF Keyed, Has

LEMMA SelectedWhere ==
  ASSUME Parsed, Parting, pc = "view", NEW t, NEW c \in Words,
         NEW tail \in Sorted \cup {<< >>}, Asked(t, <<"where", c>> \o tail)
  PROVE  /\ tabelname = t /\ "where" \in clause_set
         /\ Len(mat) \in Nat /\ Len(mat) >= 3 /\ Third = Converted(Bare, c)
  <1>0. query_token \in Seq(STRING)
    BY DEF Parsed
  <1>1. /\ PlacedAt(5, 7) /\ Len(query_token) \in Nat /\ Len(query_token) >= 6
        /\ query_token[4] = t /\ query_token[6] = c
    BY <1>0, PlacedWhere
  <1>2. tabelname = query_token[5 - 1] /\ Keyed(3, 5, 7) /\ mat = Whole(3, 5, 7)
    BY <1>1, SelectedParts
  <1>3. "where" \in clause_set
    BY <1>2 DEF Keyed
  <1> PICK words : words = remove_punct(Between(6, 7))
    OBVIOUS
  <1>4. words # << >> /\ words[1] = Converted(Bare, c)
    <2>1. /\ remove_punct(Between(6, 6 + 1)) # << >>
          /\ remove_punct(Between(6, 6 + 1))[1] = Converted(Bare, query_token[6])
      BY <1>0, <1>1, OneWord
    <2>2. QED
      BY <1>1, <2>1
  <1> PICK more : more = Filled("sort_column", Between(9, Len(query_token) + 1))
    OBVIOUS
  <1> PICK a : a = Clause("column_name", Between(2, 3))
    OBVIOUS
  <1> PICK b : b = Clause("table_name", Between(4, 5))
    OBVIOUS
  <1> PICK d : d = Clause("condition", words)
    OBVIOUS
  <1>5. mat = (<<a, b>> \o <<d>>) \o more
    <2>1. Filled("condition", words) = <<d>>
      BY <1>4 DEF Filled
    <2>0. 3 + 1 = 4 /\ 5 + 1 = 6 /\ 7 + 2 = 9
      OBVIOUS
    <2>2. Conditioned(3, 5, 7) = <<a, b>> \o <<d>>
      BY <2>0, <2>1 DEF Conditioned, ColumnsTables
    <2>3. QED
      BY <1>2, <2>0, <2>2 DEF Whole
  <1>6. \E T : more \in Seq(T)
    <2> PICK last : last = Clause("sort_column", Between(9, Len(query_token) + 1))
      OBVIOUS
    <2>1. more = << >> \/ more = <<last>>
      BY DEF Filled
    <2>2. << >> \in Seq({last}) /\ <<last>> \in Seq({last})
      OBVIOUS
    <2>3. QED
      BY <2>1, <2>2
  <1>7. Len(mat) \in Nat /\ Len(mat) >= 3 /\ mat[3] = d
    BY <1>5, <1>6, ThirdClause
  <1>8. QED
    BY <1>1, <1>2, <1>3, <1>4, <1>7 DEF Third, Clause

LEMMA SelectedOrder ==
  ASSUME Parsed, Parting, pc = "view", NEW t, NEW name, Asked(t, <<"order", "by", name>>)
  PROVE  /\ tabelname = t /\ "where" \notin clause_set /\ "order" \in clause_set
         /\ Len(mat) \in Nat /\ Len(mat) >= 3 /\ Third = name
  <1>0. query_token \in Seq(STRING)
    BY DEF Parsed
  <1>1. PlacedAt(5, 5) /\ Len(query_token) = 7 /\ query_token[4] = t /\ query_token[7] = name
    BY <1>0, PlacedOrder
  <1>2. tabelname = query_token[5 - 1] /\ Keyed(3, 5, 5) /\ mat = Whole(3, 5, 5)
    BY <1>1, SelectedParts
  <1>3. "where" \notin clause_set /\ "order" \in clause_set
    BY <1>1, <1>2 DEF Keyed, Has
  <1> PICK words : words = Between(7, 8)
    OBVIOUS
  <1>4. words # << >> /\ words[1] = name
    <2>1. Between(7, 7 + 1) # << >> /\ Between(7, 7 + 1)[1] = query_token[7]
      BY <1>0, <1>1, OneWord
    <2>2. QED
      BY <1>1, <2>1
  <1> PICK a : a = Clause("column_name", Between(2, 3))
    OBVIOUS
  <1> PICK b : b = Clause("table_name", Between(4, 5))
    OBVIOUS
  <1> PICK d : d = Clause("sort_column", words)
    OBVIOUS
  <1>5. mat = (<<a, b>> \o << >>) \o <<d>>
    <2>1. Filled("condition", remove_punct(Between(6, 5))) = << >>
      BY EmptyIs
    <2>0. 3 + 1 = 4 /\ 5 + 1 = 6 /\ 5 + 2 = 7
      OBVIOUS
    <2>2. Conditioned(3, 5, 5) = <<a, b>> \o << >>
      BY <2>0, <2>1 DEF Conditioned, ColumnsTables
    <2>3. Filled("sort_column", Between(7, Len(query_token) + 1)) = <<d>>
      BY <1>1, <1>4 DEF Filled
    <2>4. QED
      BY <1>2, <2>0, <2>2, <2>3 DEF Whole
  <1>6. Len(mat) \in Nat /\ Len(mat) >= 3 /\ mat[3] = d
    <2>1. << >> \in Seq({d}) /\ <<a, b>> \in Seq({a, b}) /\ <<d>> \in Seq({d})
      OBVIOUS
    <2> PICK two : two = <<a, b>>
      OBVIOUS
    <2> PICK one : one = <<d>>
      OBVIOUS
    <2>2. two \o << >> = two
      BY <2>1, ConcatEmptySeq
    <2>3. one \o << >> = one /\ << >> \in Seq({d})
      BY <2>1, ConcatEmptySeq
    <2>4. (two \o one) \o << >> = two \o one
      <3>1. two \o one \in Seq({a, b, d})
        <4>1. two \in Seq({a, b, d}) /\ one \in Seq({a, b, d})
          OBVIOUS
        <4>2. QED
          BY <4>1, ConcatProperties
      <3>2. QED
        BY <3>1, ConcatEmptySeq
    <2>5. mat = (<<a, b>> \o <<d>>) \o << >>
      BY <1>5, <2>2, <2>4
    <2>6. QED
      BY <2>3, <2>5, ThirdClause
  <1>7. QED
    BY <1>1, <1>2, <1>3, <1>4, <1>6 DEF Third, Clause

----------------------------------------------------------------------------
(* WHERE                                                                     *)

LEMMA MaxIs ==
  ASSUME NEW S, IsFiniteSet(S), S # {}, S \subseteq Int
  PROVE  Max(S) \in S /\ \A x \in S : x <= Max(S)
  <1> PICK f : f = [x \in S |-> x]
    OBVIOUS
  <1>1. \A x \in S : f[x] \in Int /\ f[x] = x
    OBVIOUS
  <1>2. PICK m \in S : \A x \in S : f[x] <= f[m]
    BY <1>1, Greatest
  <1>3. \E y \in S : \A x \in S : y >= x
    BY <1>1, <1>2
  <1>4. Max(S) \in S /\ \A x \in S : Max(S) >= x
    BY <1>3 DEF Max
  <1>5. QED
    BY <1>4

LEMMA MinIs ==
  ASSUME NEW S \in SUBSET Nat, S # {}
  PROVE  Min(S) \in S /\ \A x \in S : Min(S) <= x
  <1>1. \E m \in S : \A x \in S : m <= x
    BY Least
  <1>2. QED
    BY <1>1 DEF Min

LEMMA Tables ==
  ASSUME stored \in Stores, NEW t \in DOMAIN stored
  PROVE  /\ stored[t] # << >> /\ Len(stored[t]) \in Nat /\ Len(stored[t]) >= 1
         /\ stored[t] \in Seq(Seq(Cells)) /\ DOMAIN stored[t] = 1 .. Len(stored[t])
         /\ Len(stored[t][1]) \in Nat /\ DOMAIN stored[t][1] = 1 .. Len(stored[t][1])
         /\ \A j \in DOMAIN stored[t] : /\ stored[t][j] \in Seq(Cells)
                                        /\ Len(stored[t][j]) = Len(stored[t][1])
                                        /\ DOMAIN stored[t][j] = DOMAIN stored[t][1]
  <1> PICK rows : rows = stored[t]
    OBVIOUS
  <1>1. /\ rows \in Seq(Seq(Cells)) /\ rows # << >>
        /\ \A j \in DOMAIN rows : Len(rows[j]) = Len(rows[1])
    BY ParserAssumption DEF IsTable
  <1>2. Len(rows) \in Nat /\ DOMAIN rows = 1 .. Len(rows) /\ Len(rows) >= 1
    BY <1>1, LenProperties, EmptySeq
  <1>3. \A j \in DOMAIN rows : rows[j] \in Seq(Cells)
    BY <1>1, <1>2, ElementOfSeq
  <1>4. \A j \in DOMAIN rows : Len(rows[j]) \in Nat /\ DOMAIN rows[j] = 1 .. Len(rows[j])
    BY <1>3, LenProperties
  <1>5. 1 \in DOMAIN rows
    BY <1>2
  <1>6. QED
    BY <1>1, <1>2, <1>3, <1>4, <1>5

(* A column is found by its name, the first if there are several.            *)
LEMMA ColumnFirst ==
  ASSUME stored \in Stores, NEW t \in DOMAIN stored, NEW name
  PROVE  /\ Named(stored[t], name) =>
              /\ Column(stored[t], name) \in DOMAIN stored[t][1]
              /\ IsColumn(t, name, Column(stored[t], name))
         /\ \A i \in DOMAIN stored[t][1] :
              IsColumn(t, name, i) => Named(stored[t], name) /\ Column(stored[t], name) = i
  <1> PICK head : head = stored[t][1]
    OBVIOUS
  <1> PICK n \in Nat : DOMAIN head = 1 .. n
    BY Tables
  <1> DEFINE S == {i \in DOMAIN head : head[i] = name}
  <1>0. Column(stored[t], name) = IF S # {} THEN Min(S) ELSE 0
    BY DEF Column
  <1>1. S \in SUBSET Nat /\ 0 \notin S
    OBVIOUS
  <1>2. S # {} => Min(S) \in S /\ \A x \in S : Min(S) <= x
    <2> HIDE DEF S
    <2>1. QED
      BY <1>1, MinIs
  <1>3. Named(stored[t], name) <=> S # {}
    <2>1. S # {} => Min(S) # 0
      BY <1>1, <1>2
    <2>2. QED
      BY <1>0, <2>1 DEF Named
  <1>4. ASSUME S # {}
        PROVE  Min(S) \in DOMAIN head /\ IsColumn(t, name, Min(S))
    <2>1. Min(S) \in DOMAIN head /\ head[Min(S)] = name
      BY <1>2, <1>4
    <2>2. \A x \in S : Min(S) <= x
      BY <1>2, <1>4
    <2> PICK m : m = Min(S)
      OBVIOUS
    <2>m. m \in 1 .. n /\ \A x \in 1 .. n : head[x] = name => m <= x
      BY <2>1, <2>2
    <2>3. \A k \in 1 .. m - 1 : head[k] # name
      <3> HIDE DEF S
      <3>1. \A k \in 1 .. m - 1 : k \in 1 .. n /\ ~(m <= k)
        BY <2>m
      <3>2. QED
        BY <2>m, <3>1
    <2>4. QED
      BY <2>1, <2>3 DEF IsColumn
  <1>5. ASSUME NEW i \in DOMAIN head, IsColumn(t, name, i) PROVE S # {} /\ Min(S) = i
    <2>1. i \in S
      BY <1>5 DEF IsColumn
    <2>2. Min(S) \in S /\ Min(S) <= i
      BY <1>2, <2>1
    <2>3. ~(Min(S) \in 1 .. i - 1)
      BY <1>5, <2>2 DEF IsColumn
    <2>4. QED
      BY <2>1, <2>2, <2>3
  <1> HIDE DEF S
  <1>6. QED
    BY <1>0, <1>3, <1>4, <1>5

(* What WHERE looks for is what the condition says.                          *)
LEMMA MatchingIs ==
  ASSUME stored \in Stores, NEW t \in DOMAIN stored, NEW c \in Conditions
  PROVE  /\ \A j \in 2 .. Len(stored[t]) :
              Satisfies(t, stored[t][j], c) <=>
                /\ Named(stored[t], Split(Converted(Bare, c)).column)
                /\ j \in Matching(stored[t], Split(Converted(Bare, c)))
         /\ Matching(stored[t], Split(Converted(Bare, c))) \subseteq 2 .. Len(stored[t])
  <1> PICK e : e = Equation[Converted(Bare, c)]
    OBVIOUS
  <1>1. Split(Converted(Bare, c)) = e
    BY DEF Split, Conditions
  <1> PICK column : column = e.column
    OBVIOUS
  <1>2. ASSUME NEW j \in 2 .. Len(stored[t])
        PROVE  Satisfies(t, stored[t][j], c) <=>
                 Named(stored[t], column) /\ j \in Matching(stored[t], e)
    <2>1. DOMAIN stored[t][j] = DOMAIN stored[t][1]
      BY Tables
    <2>2. /\ Named(stored[t], column) =>
               /\ Column(stored[t], column) \in DOMAIN stored[t][1]
               /\ IsColumn(t, column, Column(stored[t], column))
          /\ \A i \in DOMAIN stored[t][1] :
               IsColumn(t, column, i) =>
                 Named(stored[t], column) /\ Column(stored[t], column) = i
      BY ColumnFirst
    <2>3. Satisfies(t, stored[t][j], c) <=>
            \E i \in DOMAIN stored[t][1] :
              IsColumn(t, column, i) /\ stored[t][j][i] = e.value
      BY <2>1 DEF Satisfies
    <2>4. j \in Matching(stored[t], e) <=> stored[t][j][Column(stored[t], column)] = e.value
      BY DEF Matching
    <2>5. QED
      BY <2>2, <2>3, <2>4
  <1>3. Matching(stored[t], e) \subseteq 2 .. Len(stored[t])
    BY DEF Matching
  <1>4. QED
    BY <1>1, <1>2, <1>3

(* What WhereRight says of one query.                                        *)
WhereAnswers(t, c) ==
  /\ Len(reply) = 2 /\ reply[1] = stored[t][1]
  /\ \E j \in 2 .. Len(stored[t]) :
       /\ stored[t][j] = reply[2] /\ Satisfies(t, stored[t][j], c)
       /\ \A later \in j + 1 .. Len(stored[t]) : ~Satisfies(t, stored[t][later], c)

LEMMA WhereStep ==
  ASSUME Parsed, Parting, AnswerWhere, pc' = "answered", NEW t \in DOMAIN stored,
         NEW c \in Conditions, NEW tail \in Sorted \cup {<< >>},
         Asked(t, <<"where", c>> \o tail)
  PROVE  WhereAnswers(t, c)'
  <1>1. pc = "view" /\ stored' = stored /\ query_token' = query_token /\ stored \in Stores
    BY Endings DEF AnswerWhere, Answers, Next, Select, Parsed
  <1>2. tabelname = t /\ Third = Converted(Bare, c)
    BY <1>1, SelectedWhere DEF Conditions
  <1> PICK e : e = Split(Converted(Bare, c))
    OBVIOUS
  <1> PICK S : S = Matching(stored[t], e)
    OBVIOUS
  <1>3. viewTable = stored[t]
    BY <1>2 DEF viewTable
  <1>4. /\ Named(stored[t], e.column) /\ S # {}
        /\ reply' = <<stored[t][1], stored[t][Max(S)]>>
    BY <1>2, <1>3 DEF AnswerWhere, Undefined, vectorToCharPointer, conditionTable
  <1>5. S \subseteq 2 .. Len(stored[t]) /\ Len(stored[t]) \in Nat
    BY <1>1, MatchingIs, Tables
  <1>6. Max(S) \in S /\ \A x \in S : x <= Max(S)
    <2>1. IsFiniteSet(2 .. Len(stored[t]))
      BY <1>5, FS_Interval
    <2>2. IsFiniteSet(S) /\ S \subseteq Int
      BY <1>5, <2>1, FS_Subset
    <2>3. QED
      BY <1>4, <2>2, MaxIs
  <1> PICK j : j = Max(S)
    OBVIOUS
  <1>7. \A k \in 2 .. Len(stored[t]) : Satisfies(t, stored[t][k], c) <=> k \in S
    BY <1>1, <1>4, MatchingIs
  <1>8. /\ j \in 2 .. Len(stored[t]) /\ Satisfies(t, stored[t][j], c)
        /\ \A later \in j + 1 .. Len(stored[t]) : ~Satisfies(t, stored[t][later], c)
    <2>1. j \in 2 .. Len(stored[t]) /\ j \in S
      BY <1>5, <1>6
    <2>2. ASSUME NEW later \in j + 1 .. Len(stored[t]) PROVE ~Satisfies(t, stored[t][later], c)
      <3>1. later \in 2 .. Len(stored[t]) /\ ~(later <= j)
        BY <1>5, <2>1
      <3>2. QED
        BY <1>6, <1>7, <3>1
    <2>3. QED
      BY <1>7, <2>1, <2>2
  <1>9. Len(reply') = 2 /\ reply'[1] = stored[t][1] /\ reply'[2] = stored[t][j]
    BY <1>4
  <1>10. \A row : Satisfies(t, row, c)' = Satisfies(t, row, c)
    BY <1>1 DEF Satisfies, IsColumn
  <1>11. QED
    BY <1>1, <1>8, <1>9, <1>10 DEF WhereAnswers

LEMMA SameQuery ==
  ASSUME query_token' = query_token, stored' = stored
  PROVE  /\ Words' = Words /\ Conditions' = Conditions /\ Sorted' = Sorted
         /\ clause_set' = clause_set
         /\ \A t, clauses : Asked(t, clauses)' = Asked(t, clauses)
         /\ \A t, row, c : Satisfies(t, row, c)' = Satisfies(t, row, c)
         /\ \A t, name, i : IsColumn(t, name, i)' = IsColumn(t, name, i)
         /\ \A t, n : Fit(t, n)' = Fit(t, n)
  BY DEF Words, Conditions, Sorted, clause_set, Asked, InOrder, Places, Has, Satisfies,
         IsColumn, Fit, Widest

LEMMA AnsweredBy ==
  ASSUME Parsed, [Next]_vars, pc' = "answered"
  PROVE  (pc = "view" /\ Answers) \/ UNCHANGED vars
  <1>1. extract_column \/ extract_table \/ extract_condition \/ extract_sort_column
          => pc' # "answered"
    BY DEF extract_column, extract_table, extract_condition, extract_sort_column
  <1>2. QED
    BY <1>1, Endings DEF Next, Select, Answers, Others, Ended

LEMMA WhereKept ==
  ASSUME Parsed, Parting, WhereRight, [Next]_vars
  PROVE  WhereRight'
  <1>1. stored' = stored /\ query_token' = query_token
    BY Endings DEF vars
  <1> SUFFICES ASSUME NEW t \in DOMAIN stored, NEW c \in Conditions,
                      NEW tail \in Sorted \cup {<< >>}, pc' = "answered",
                      Asked(t, <<"where", c>> \o tail)
               PROVE  WhereAnswers(t, c)'
    BY <1>1, SameQuery DEF WhereRight, WhereAnswers
  <1>2. CASE UNCHANGED vars
    <2>1. pc = "answered" /\ reply' = reply
      BY <1>2 DEF vars
    <2>2. WhereAnswers(t, c)
      BY <2>1 DEF WhereRight, WhereAnswers
    <2>3. QED
      BY <1>1, <2>1, <2>2, SameQuery DEF WhereAnswers
  <1>3. CASE pc = "view" /\ Answers
    <2>1. "where" \in clause_set
      BY <1>3, SelectedWhere DEF Conditions
    <2>2. AnswerWhere
      BY <1>3, <2>1 DEF Answers, AnswerOrder, AnswerAll
    <2>3. QED
      BY <2>2, WhereStep
  <1>4. QED
    BY <1>2, <1>3, AnsweredBy

(* WHERE answers the header and the last row that satisfies the condition    *)
(* (conditionTable, parser.cpp:285).                                         *)
THEOREM WhereIsRight == Spec => []WhereRight
  <1>1. Init => WhereRight
    BY DEF Init, WhereRight
  <1>2. ParserInv /\ WhereRight /\ [Next]_vars => WhereRight'
    BY WhereKept DEF ParserInv
  <1>3. QED
    BY <1>1, <1>2, ParserHolds, PTL DEF Spec

----------------------------------------------------------------------------
(* ORDER BY                                                                  *)

LEMMA UpToIsFinite ==
  ASSUME NEW n \in Nat
  PROVE  IsFiniteSet(1 .. n) /\ Cardinality(1 .. n) = n
  <1>1. Cardinality(1 .. n) = IF 1 > n THEN 0 ELSE n - 1 + 1
    BY FS_Interval
  <1>2. IF 1 > n THEN 0 = n ELSE n - 1 + 1 = n
    OBVIOUS
  <1>3. QED
    BY <1>1, <1>2, FS_Interval

(* The places of the values before v in the order, and of those not after.   *)
Below(values, v) == {j \in DOMAIN values : Rank[values[j]] < Rank[v]}
UpTo(values, v) == {j \in DOMAIN values : Rank[values[j]] <= Rank[v]}
Same(values, v) == {j \in DOMAIN values : values[j] = v}

InPlace(values, v, i) ==
  Cardinality(Below(values, v)) < i /\ i <= Cardinality(UpTo(values, v))

Counted(values, v, w) ==
  /\ Cardinality(Below(values, v)) \in Nat /\ Cardinality(UpTo(values, v)) \in Nat
  /\ Cardinality(UpTo(values, v)) <= Len(values)
  /\ Cardinality(UpTo(values, v)) = Cardinality(Below(values, v)) + Cardinality(Same(values, v))
  /\ Rank[v] < Rank[w] => Cardinality(UpTo(values, v)) <= Cardinality(Below(values, w))

LEMMA Counting ==
  ASSUME NEW values \in Seq(Cells), NEW v \in Cells, NEW w \in Cells
  PROVE  Counted(values, v, w)
  <1> PICK n \in Nat : n = Len(values)
    BY LenProperties
  <1>1. DOMAIN values = 1 .. n /\ \A j \in 1 .. n : values[j] \in Cells
    BY ElementOfSeq, LenProperties
  <1>2. IsFiniteSet(1 .. n) /\ Cardinality(1 .. n) = n
    BY UpToIsFinite
  <1>3. \A x \in Cells : Rank[x] \in Int
    BY ParserAssumption
  <1> PICK below : below = Below(values, v)
    OBVIOUS
  <1> PICK same : same = Same(values, v)
    OBVIOUS
  <1> PICK upTo : upTo = UpTo(values, v)
    OBVIOUS
  <1> PICK far : far = Below(values, w)
    OBVIOUS
  <1>4. /\ below \in SUBSET (1 .. n) /\ upTo \in SUBSET (1 .. n)
        /\ far \in SUBSET (1 .. n) /\ same \in SUBSET (1 .. n)
    BY <1>1 DEF Below, UpTo, Same
  <1>5. /\ IsFiniteSet(below) /\ IsFiniteSet(upTo) /\ IsFiniteSet(far) /\ IsFiniteSet(same)
        /\ Cardinality(below) \in Nat /\ Cardinality(upTo) \in Nat
        /\ Cardinality(same) \in Nat /\ Cardinality(upTo) <= n
    BY <1>2, <1>4, FS_Subset, FS_CardinalityType
  <1>6. upTo = below \cup same /\ below \cap same = {}
    <2>1. \A j \in 1 .. n : /\ j \in below <=> Rank[values[j]] < Rank[v]
                            /\ j \in same <=> values[j] = v
                            /\ j \in upTo <=> Rank[values[j]] <= Rank[v]
      BY <1>1 DEF Below, UpTo, Same
    <2>2. \A j \in 1 .. n : Rank[values[j]] = Rank[v] <=> values[j] = v
      BY <1>1, ParserAssumption
    <2>3. \A j \in 1 .. n : Rank[values[j]] \in Int /\ Rank[v] \in Int
      BY <1>1, <1>3
    <2>4. \A j \in 1 .. n : (j \in upTo <=> j \in below \/ j \in same)
                            /\ ~(j \in below /\ j \in same)
      BY <2>1, <2>2, <2>3
    <2>5. QED
      BY <1>4, <2>4
  <1>7. Cardinality(upTo) = Cardinality(below) + Cardinality(same)
    <2>1. Cardinality(below \cup same) =
            Cardinality(below) + Cardinality(same) - Cardinality(below \cap same)
      BY <1>5, FS_Union
    <2>2. Cardinality(below \cap same) = 0
      BY <1>6, FS_EmptySet
    <2>3. QED
      BY <1>5, <1>6, <2>1, <2>2
  <1>8. ASSUME Rank[v] < Rank[w] PROVE Cardinality(upTo) <= Cardinality(far)
    <2>1. ASSUME NEW j \in upTo PROVE j \in far
      <3>1. j \in 1 .. n /\ Rank[values[j]] <= Rank[v]
        BY <1>4 DEF UpTo
      <3>2. Rank[values[j]] \in Int /\ Rank[v] \in Int /\ Rank[w] \in Int
        BY <1>1, <1>3, <3>1
      <3>3. Rank[values[j]] < Rank[w]
        BY <1>8, <3>1, <3>2
      <3>4. QED
        BY <1>1, <3>1, <3>3 DEF Below
    <2>2. upTo \in SUBSET far
      BY <2>1
    <2>3. QED
      BY <1>5, <2>2, FS_Subset
  <1>9. QED
    BY <1>5, <1>7, <1>8 DEF Counted

(* Every place belongs to a value.                                           *)
LEMMA PlaceTaken ==
  ASSUME NEW values \in Seq(Cells), NEW i \in 1 .. Len(values)
  PROVE  \E v \in ToSet(values) : InPlace(values, v, i)
  <1> PICK n \in Nat : n = Len(values)
    BY LenProperties
  <1>1. /\ DOMAIN values = 1 .. n /\ \A j \in 1 .. n : values[j] \in Cells
        /\ i \in 1 .. n
    BY ElementOfSeq, LenProperties
  <1>2. IsFiniteSet(1 .. n) /\ Cardinality(1 .. n) = n
    BY UpToIsFinite
  <1> PICK rank : rank = [j \in 1 .. n |-> Rank[values[j]]]
    OBVIOUS
  <1>3. \A j \in 1 .. n : rank[j] = Rank[values[j]] /\ rank[j] \in Int
    BY <1>1, ParserAssumption
  <1> DEFINE card(j) == Cardinality(UpTo(values, values[j]))
             S == {j \in 1 .. n : i <= card(j)}
  <1>4. S # {}
    <2>1. PICK m \in 1 .. n : \A j \in 1 .. n : rank[j] <= rank[m]
      <3>1. 1 .. n # {}
        BY <1>1
      <3>2. QED
        BY <1>2, <1>3, <3>1, Greatest
    <2>2. UpTo(values, values[m]) = 1 .. n
      BY <1>1, <1>3, <2>1 DEF UpTo
    <2>3. QED
      BY <1>1, <1>2, <2>2
  <1>5. IsFiniteSet(S) /\ S \subseteq 1 .. n
    BY <1>2, FS_Subset
  <1>6. PICK m \in S : \A j \in S : rank[m] <= rank[j]
    <2>1. \A j \in S : rank[j] \in Int
      BY <1>3
    <2> HIDE DEF S
    <2>2. QED
      BY <1>4, <1>5, <2>1, Smallest
  <1> PICK below : below = Below(values, values[m])
    OBVIOUS
  <1>7. below \in SUBSET (1 .. n) /\ IsFiniteSet(below) /\ Cardinality(below) \in Nat
    <2>1. below \in SUBSET (1 .. n)
      BY <1>1 DEF Below
    <2>2. QED
      BY <1>2, <2>1, FS_Subset, FS_CardinalityType
  <1>8. Cardinality(below) < i
    <2> SUFFICES ASSUME ~(Cardinality(below) < i) PROVE FALSE
      OBVIOUS
    <2>1. below # {}
      <3>1. Cardinality({}) = 0 /\ i \in Int /\ i >= 1 /\ 0 < i
        BY <1>1, FS_EmptySet
      <3>2. below = {} => Cardinality(below) < i
        BY <3>1, Zenon
      <3>3. QED
        BY <3>2
    <2>2. PICK k \in below : \A j \in below : rank[j] <= rank[k]
      <3>1. \A j \in below : rank[j] \in Int
        BY <1>3, <1>7
      <3>2. QED
        BY <1>7, <2>1, <3>1, Greatest
    <2>3. k \in 1 .. n /\ m \in 1 .. n /\ rank[k] < rank[m]
      <3>1. k \in 1 .. n /\ m \in 1 .. n
        BY <1>5, <1>6, <1>7
      <3>2. QED
        BY <1>3, <3>1 DEF Below
    <2>4. below \in SUBSET UpTo(values, values[k])
      BY <1>1, <1>3, <1>7, <2>2, <2>3 DEF UpTo
    <2>5. card(k) \in Nat /\ Cardinality(below) <= card(k)
      <3>1. UpTo(values, values[k]) \in SUBSET (1 .. n)
        BY <1>1 DEF UpTo
      <3>2. QED
        BY <1>2, <2>4, <3>1, FS_Subset, FS_CardinalityType
    <2>6. k \in S
      <3>1. i <= card(k)
        <4> HIDE DEF card
        <4>1. QED
          BY <1>1, <1>7, <2>5
      <3>2. QED
        BY <2>3, <3>1
    <2>7. QED
      BY <1>3, <1>6, <2>3, <2>6
  <1>9. values[m] \in ToSet(values) /\ i <= Cardinality(UpTo(values, values[m]))
    BY <1>1, <1>6 DEF ToSet
  <1>10. QED
    BY <1>8, <1>9 DEF InPlace

LEMMA AscendingPlaces ==
  ASSUME NEW values \in Seq(Cells)
  PROVE  /\ Ascending(values) \in [DOMAIN values -> ToSet(values)]
         /\ \A i \in DOMAIN values : /\ Ascending(values)[i] \in ToSet(values)
                                     /\ InPlace(values, Ascending(values)[i], i)
  <1> PICK sorted : sorted = [i \in DOMAIN values |->
                                CHOOSE v \in ToSet(values) : InPlace(values, v, i)]
    OBVIOUS
  <1>1. Ascending(values) = sorted
    BY DEF Ascending, InPlace, Below, UpTo
  <1>2. ASSUME NEW i \in DOMAIN values
        PROVE  sorted[i] \in ToSet(values) /\ InPlace(values, sorted[i], i)
    <2>1. \E v \in ToSet(values) : InPlace(values, v, i)
      BY PlaceTaken, LenProperties
    <2>2. sorted[i] = CHOOSE v \in ToSet(values) : InPlace(values, v, i)
      OBVIOUS
    <2>3. QED
      BY <2>1, <2>2
  <1>3. sorted \in [DOMAIN values -> ToSet(values)]
    BY <1>2
  <1>4. QED
    BY <1>1, <1>2, <1>3

(* sort leaves the values in ascending order, each as often as before.       *)
LEMMA AscendingSorts ==
  ASSUME NEW values \in Seq(Cells), NEW sorted, sorted = Ascending(values)
  PROVE  /\ \A i \in DOMAIN values :
              i + 1 \in DOMAIN values => Rank[sorted[i]] <= Rank[sorted[i + 1]]
         /\ \A v \in ToSet(values) : Cardinality(Same(sorted, v)) = Cardinality(Same(values, v))
  <1> PICK n \in Nat : n = Len(values)
    BY LenProperties
  <1>1. /\ DOMAIN values = 1 .. n /\ \A j \in 1 .. n : values[j] \in Cells
        /\ ToSet(values) \subseteq Cells
    BY ElementOfSeq, LenProperties DEF ToSet
  <1>2. /\ DOMAIN sorted = 1 .. n
        /\ \A i \in 1 .. n : sorted[i] \in Cells /\ InPlace(values, sorted[i], i)
    BY <1>1, AscendingPlaces
  <1>3. \A x \in Cells : Rank[x] \in Int
    BY ParserAssumption
  <1> DEFINE b(v) == Cardinality(Below(values, v))
             u(v) == Cardinality(UpTo(values, v))
  <1>4. \A v, w \in Cells :
          /\ b(v) \in Nat /\ u(v) \in Nat /\ u(v) <= n
          /\ u(v) = b(v) + Cardinality(Same(values, v))
          /\ Rank[v] < Rank[w] => u(v) <= b(w)
    BY Counting DEF Counted
  <1>5. \A i \in 1 .. n : sorted[i] \in Cells /\ b(sorted[i]) < i /\ i <= u(sorted[i])
    BY <1>2 DEF InPlace
  <1> HIDE DEF b, u
  <1>6. ASSUME NEW i \in 1 .. n, i + 1 \in 1 .. n PROVE Rank[sorted[i]] <= Rank[sorted[i + 1]]
    <2> PICK v : v = sorted[i]
      OBVIOUS
    <2> PICK w : w = sorted[i + 1]
      OBVIOUS
    <2>1. /\ v \in Cells /\ w \in Cells /\ b(v) < i /\ i + 1 <= u(w)
          /\ b(v) \in Nat /\ u(w) \in Nat /\ Rank[v] \in Int /\ Rank[w] \in Int
      BY <1>3, <1>4, <1>5, <1>6
    <2>2. Rank[w] < Rank[v] => u(w) <= b(v)
      BY <1>4, <2>1
    <2>3. Rank[v] <= Rank[w]
      BY <2>1, <2>2
    <2>4. QED
      BY <2>3
  <1>7. ASSUME NEW v \in Cells PROVE Cardinality(Same(sorted, v)) = Cardinality(Same(values, v))
    <2>1. b(v) \in Nat /\ u(v) \in Nat /\ u(v) <= n /\ u(v) = b(v) + Cardinality(Same(values, v))
      BY <1>4
    <2>2. ASSUME NEW i \in 1 .. n PROVE sorted[i] = v <=> b(v) < i /\ i <= u(v)
      <3> PICK w : w = sorted[i]
        OBVIOUS
      <3>1. w \in Cells /\ b(w) < i /\ i <= u(w) /\ b(w) \in Nat /\ u(w) \in Nat
        BY <1>4, <1>5
      <3>2. /\ Rank[w] \in Int /\ Rank[v] \in Int /\ (Rank[w] = Rank[v] => w = v)
        BY <1>3, <3>1, ParserAssumption
      <3>3. /\ Rank[v] < Rank[w] => u(v) <= b(w)
            /\ Rank[w] < Rank[v] => u(w) <= b(v)
        BY <1>4, <3>1
      <3>4. b(v) < i /\ i <= u(v) => w = v
        BY <2>1, <3>1, <3>2, <3>3
      <3>5. QED
        BY <3>1, <3>4
    <2>3. Same(sorted, v) = b(v) + 1 .. u(v)
      <3>1. \A i : i \in Same(sorted, v) <=> i \in 1 .. n /\ sorted[i] = v
        BY <1>2 DEF Same
      <3>2. \A i : i \in b(v) + 1 .. u(v) <=> i \in 1 .. n /\ b(v) < i /\ i <= u(v)
        BY <2>1
      <3>3. QED
        BY <2>2, <3>1, <3>2
    <2>4. Cardinality(b(v) + 1 .. u(v)) = IF b(v) + 1 > u(v) THEN 0 ELSE u(v) - (b(v) + 1) + 1
      <3>1. b(v) + 1 \in Int /\ u(v) \in Int
        BY <2>1
      <3>2. QED
        BY <3>1, FS_Interval
    <2>5. Cardinality(Same(values, v)) \in Nat
      <3>1. Same(values, v) \in SUBSET (1 .. n) /\ IsFiniteSet(1 .. n)
        BY <1>1, FS_Interval DEF Same
      <3>2. QED
        BY <3>1, FS_Subset, FS_CardinalityType
    <2>6. QED
      BY <2>1, <2>3, <2>4, <2>5
  <1>8. QED
    BY <1>1, <1>6, <1>7

(* The values of a column below the header, and the rows that ORDER BY puts  *)
(* in their order.                                                           *)
Value(col, rows) == [j \in 1 .. Len(rows) - 1 |-> rows[j + 1][col]]

RowsSorted(t, col, rows) ==
  /\ rows \in Seq(Seq(Cells)) /\ Len(rows) = Len(stored[t]) /\ ToSet(rows) \subseteq ToSet(stored[t])
  /\ \A j \in 1 .. Len(rows) : rows[j] \in ToSet(stored[t])
  /\ Value(col, rows) = Ascending(Value(col, stored[t]))

(* Of the rows with a value, the last.                                       *)
LastOf(values) == [v \in ToSet(values) |-> Max({j \in DOMAIN values : values[j] = v}) + 1]

Picked(data, values) ==
  [i \in DOMAIN Ascending(values) |-> data[LastOf(values)[Ascending(values)[i]]]]

LEMMA SortColumnIs ==
  ASSUME NEW data, NEW name
  PROVE  sortColumn(data, name) =
           <<data[1]>> \o Picked(data, Value(Column(data, name), data))
  BY DEF sortColumn, Value, LastOf, Picked

LEMMA FunctionIsSeq ==
  ASSUME NEW S, NEW n \in Nat, NEW f \in [1 .. n -> S]
  PROVE  f \in Seq(S) /\ Len(f) = n
  OBVIOUS

LEMMA Prepended ==
  ASSUME NEW S, NEW d \in S, NEW below \in Seq(S), NEW n \in Nat, n = Len(below),
         NEW rows, rows = <<d>> \o below
  PROVE  /\ rows \in Seq(S) /\ Len(rows) = n + 1 /\ rows[1] = d
         /\ \A j \in 1 .. n : rows[j + 1] = below[j]
  <1> PICK top : top = <<d>>
    OBVIOUS
  <1>1. top \in Seq(S) /\ Len(top) = 1 /\ top[1] = d
    OBVIOUS
  <1>2. /\ rows \in Seq(S) /\ Len(rows) = Len(top) + Len(below)
        /\ \A i \in 1 .. Len(top) + Len(below) :
             rows[i] = IF i <= Len(top) THEN top[i] ELSE below[i - Len(top)]
    BY <1>1, ConcatProperties
  <1>3. Len(rows) = 1 + n /\ \A i \in 1 .. 1 + n : rows[i] = IF i <= 1 THEN top[i] ELSE below[i - 1]
    BY <1>1, <1>2
  <1>4. \A j \in 1 .. n : j + 1 \in 1 .. 1 + n /\ ~(j + 1 <= 1) /\ (j + 1) - 1 = j
    OBVIOUS
  <1>5. \A j \in 1 .. n : rows[j + 1] = below[j]
    BY <1>3, <1>4
  <1>6. rows[1] = d
    BY <1>1, <1>3
  <1>7. QED
    BY <1>2, <1>3, <1>5, <1>6

LEMMA Sorting ==
  ASSUME stored \in Stores, NEW t \in DOMAIN stored, NEW name, Named(stored[t], name),
         NEW col, col = Column(stored[t], name)
  PROVE  RowsSorted(t, col, sortColumn(stored[t], name))
  <1> PICK data : data = stored[t]
    OBVIOUS
  <1> PICK N \in Nat : N = Len(data)
    BY Tables
  <1> PICK n \in Nat : n = N - 1
    BY Tables, SMTT(30)
  <1>1. /\ N = n + 1 /\ data \in Seq(Seq(Cells)) /\ DOMAIN data = 1 .. N
        /\ \A j \in 1 .. N : data[j] \in Seq(Cells) /\ col \in DOMAIN data[j]
    BY Tables, ColumnFirst
  <1>2. \A j \in 1 .. N : data[j][col] \in Cells
    BY <1>1, ElementOfSeq, LenProperties
  <1> PICK values : values = Value(col, data)
    OBVIOUS
  <1>3. values = [j \in 1 .. n |-> data[j + 1][col]]
    BY DEF Value
  <1>4. values \in Seq(Cells) /\ Len(values) = n /\ DOMAIN values = 1 .. n
    <2>1. \A j \in 1 .. n : data[j + 1][col] \in Cells
      BY <1>1, <1>2
    <2>2. values \in [1 .. n -> Cells]
      BY <1>3, <2>1
    <2>3. QED
      BY <2>2
  <1> PICK sorted : sorted = Ascending(values)
    OBVIOUS
  <1>5. sorted \in [1 .. n -> ToSet(values)]
    BY <1>4, AscendingPlaces
  <1> PICK index : index = LastOf(values)
    OBVIOUS
  <1>6. \A v \in ToSet(values) : index[v] \in 1 .. N /\ data[index[v]][col] = v
    <2> TAKE v \in ToSet(values)
    <2> DEFINE S == {j \in DOMAIN values : values[j] = v}
    <2>1. S \subseteq 1 .. n /\ S \subseteq Int /\ S # {}
      BY <1>4 DEF ToSet
    <2>2. IsFiniteSet(S)
      BY <2>1, UpToIsFinite, FS_Subset
    <2>3. Max(S) \in S
      <3> HIDE DEF S
      <3>1. QED
        BY <2>1, <2>2, MaxIs
    <2> PICK m : m = Max(S)
      OBVIOUS
    <2>4. m \in 1 .. n /\ values[m] = v
      BY <2>1, <2>3
    <2>5. index[v] = m + 1
      BY DEF LastOf
    <2>6. data[m + 1][col] = v /\ m + 1 \in 1 .. N
      BY <1>1, <1>3, <2>4
    <2>7. QED
      BY <2>5, <2>6
  <1> PICK below : below = Picked(data, values)
    OBVIOUS
  <1>7. /\ below \in Seq(Seq(Cells)) /\ Len(below) = n
        /\ \A i \in 1 .. n : below[i] \in ToSet(data) /\ below[i][col] = sorted[i]
    <2>1. \A i \in 1 .. n : /\ index[sorted[i]] \in 1 .. N
                            /\ data[index[sorted[i]]][col] = sorted[i]
      BY <1>5, <1>6
    <2>d. below = [i \in 1 .. n |-> data[index[sorted[i]]]]
      BY <1>5 DEF Picked
    <2>2. \A i \in 1 .. n : below[i] = data[index[sorted[i]]] /\ below[i] \in Seq(Cells)
      BY <1>1, <2>1, <2>d
    <2>3. below \in [1 .. n -> Seq(Cells)]
      BY <2>2, <2>d
    <2>4. below \in Seq(Seq(Cells)) /\ Len(below) = n
      BY <2>3, FunctionIsSeq
    <2>5. \A j \in 1 .. N : data[j] \in ToSet(data)
      BY <1>1 DEF ToSet
    <2>6. \A i \in 1 .. n : below[i] \in ToSet(data) /\ below[i][col] = sorted[i]
      BY <2>1, <2>2, <2>5
    <2>7. QED
      BY <2>4, <2>6
  <1> PICK rows : rows = sortColumn(data, name)
    OBVIOUS
  <1>9. /\ Len(rows) = N /\ rows \in Seq(Seq(Cells)) /\ rows[1] = data[1]
        /\ \A j \in 1 .. n : rows[j + 1] = below[j]
    <2>1. rows = <<data[1]>> \o below
      BY SortColumnIs
    <2>2. data[1] \in Seq(Cells) /\ n = Len(below) /\ N = n + 1
      BY <1>1, <1>7
    <2>3. /\ rows \in Seq(Seq(Cells)) /\ Len(rows) = n + 1 /\ rows[1] = data[1]
          /\ \A j \in 1 .. n : rows[j + 1] = below[j]
      BY <1>7, <2>1, <2>2, Prepended
    <2>4. QED
      BY <2>2, <2>3
  <1>10. \A j \in 1 .. N : rows[j] \in ToSet(data)
    <2> TAKE j \in 1 .. N
    <2>1. CASE j = 1
      BY <1>1, <1>9, <2>1 DEF ToSet
    <2>2. CASE j # 1
      <3>1. j - 1 \in 1 .. n /\ (j - 1) + 1 = j
        BY <1>1, <2>2
      <3>2. rows[(j - 1) + 1] = below[j - 1] /\ below[j - 1] \in ToSet(data)
        BY <1>7, <1>9, <3>1
      <3>3. QED
        BY <3>1, <3>2
    <2>3. QED
      BY <2>1, <2>2
  <1>11. ToSet(rows) \subseteq ToSet(data)
    <2>1. DOMAIN rows = 1 .. N
      BY <1>9, LenProperties
    <2>2. QED
      BY <1>10, <2>1 DEF ToSet
  <1>12. Value(col, rows) = sorted
    <2>1. Value(col, rows) = [j \in 1 .. n |-> rows[j + 1][col]]
      BY <1>1, <1>9 DEF Value
    <2>2. \A j \in 1 .. n : rows[j + 1][col] = sorted[j]
      BY <1>7, <1>9
    <2>3. QED
      BY <1>5, <2>1, <2>2
  <1>13. QED
    BY <1>9, <1>10, <1>11, <1>12 DEF RowsSorted

(* What OrderRight says of one query.                                        *)
OrderAnswers(t, col) ==
  /\ Len(reply) = Len(stored[t]) /\ ToSet(reply) \subseteq ToSet(stored[t])
  /\ \A v \in ToSet(Value(col, stored[t])) :
       Cardinality(Same(Value(col, reply), v)) = Cardinality(Same(Value(col, stored[t]), v))
  /\ \A j \in 1 .. Len(reply) - 2 : Rank[Value(col, reply)[j]] <= Rank[Value(col, reply)[j + 1]]

LEMMA OrderParts ==
  OrderRight <=>
    \A t \in DOMAIN stored : \A col \in DOMAIN stored[t][1] :
      pc = "answered" /\ IsColumn(t, stored[t][1][col], col)
        /\ Asked(t, <<"order", "by", stored[t][1][col]>>) => OrderAnswers(t, col)
  BY DEF OrderRight, OrderAnswers, Value, Same

LEMMA ColumnValues ==
  ASSUME stored \in Stores, NEW t \in DOMAIN stored, NEW col \in DOMAIN stored[t][1]
  PROVE  /\ Value(col, stored[t]) \in Seq(Cells)
         /\ Len(Value(col, stored[t])) = Len(stored[t]) - 1
  <1> PICK data : data = stored[t]
    OBVIOUS
  <1> PICK N \in Nat : N = Len(data)
    BY Tables
  <1>1. /\ N >= 1 /\ DOMAIN data = 1 .. N
        /\ \A j \in 1 .. N : data[j] \in Seq(Cells) /\ col \in DOMAIN data[j]
    BY Tables
  <1>2. \A j \in 1 .. N : data[j][col] \in Cells
    BY <1>1, ElementOfSeq, LenProperties
  <1> PICK n \in Nat : n = N - 1
    BY <1>1
  <1> PICK values : values = Value(col, data)
    OBVIOUS
  <1>3. values = [j \in 1 .. n |-> data[j + 1][col]]
    BY DEF Value
  <1>4. \A j \in 1 .. n : data[j + 1][col] \in Cells
    <2>1. \A j \in 1 .. n : j + 1 \in 1 .. N
      OBVIOUS
    <2>2. QED
      BY <1>2, <2>1
  <1>5. values \in [1 .. n -> Cells]
    BY <1>3, <1>4
  <1>6. values \in Seq(Cells) /\ Len(values) = n
    BY <1>5, FunctionIsSeq
  <1>7. QED
    BY <1>6

LEMMA OrderStep ==
  ASSUME Parsed, Parting, AnswerOrder, pc' = "answered", NEW t \in DOMAIN stored,
         NEW col \in DOMAIN stored[t][1], IsColumn(t, stored[t][1][col], col),
         Asked(t, <<"order", "by", stored[t][1][col]>>)
  PROVE  OrderAnswers(t, col)'
  <1> PICK name : name = stored[t][1][col]
    OBVIOUS
  <1>1. pc = "view" /\ stored' = stored /\ stored \in Stores
    BY Endings DEF AnswerOrder, Answers, Next, Select, Parsed
  <1>2. tabelname = t /\ Third = name
    BY <1>1, SelectedOrder
  <1>3. viewTable = stored[t]
    BY <1>2 DEF viewTable
  <1>4. Named(stored[t], name) /\ col = Column(stored[t], name)
    BY <1>1, ColumnFirst
  <1> PICK rows : rows = sortColumn(stored[t], name)
    OBVIOUS
  <1>5. reply' = rows
    BY <1>2, <1>3 DEF AnswerOrder, Undefined, vectorToCharPointer
  <1>6. RowsSorted(t, col, rows)
    BY <1>1, <1>4, Sorting
  <1> PICK values : values = Value(col, stored[t])
    OBVIOUS
  <1> PICK sorted : sorted = Ascending(values)
    OBVIOUS
  <1> PICK n \in Nat : n = Len(stored[t])
    BY <1>1, Tables
  <1>7. values \in Seq(Cells) /\ Len(values) = n - 1 /\ DOMAIN values = 1 .. n - 1
    BY <1>1, ColumnValues, LenProperties
  <1>8. /\ \A i \in DOMAIN values :
             i + 1 \in DOMAIN values => Rank[sorted[i]] <= Rank[sorted[i + 1]]
        /\ \A v \in ToSet(values) : Cardinality(Same(sorted, v)) = Cardinality(Same(values, v))
    BY <1>7, AscendingSorts
  <1>9. /\ Len(rows) = n /\ ToSet(rows) \subseteq ToSet(stored[t])
        /\ Value(col, rows) = sorted
    BY <1>6 DEF RowsSorted
  <1>10. \A j \in 1 .. n - 2 : Rank[sorted[j]] <= Rank[sorted[j + 1]]
    <2>1. \A j \in 1 .. n - 2 : j \in 1 .. n - 1 /\ j + 1 \in 1 .. n - 1
      OBVIOUS
    <2>2. QED
      BY <1>7, <1>8, <2>1
  <1>11. Value(col, reply)' = sorted /\ Value(col, stored[t])' = values
    BY <1>1, <1>5, <1>9 DEF Value
  <1>12. /\ Len(reply') = Len(stored[t]) /\ ToSet(reply') \subseteq ToSet(stored[t])
         /\ \A v \in ToSet(values) : Cardinality(Same(sorted, v)) = Cardinality(Same(values, v))
         /\ \A j \in 1 .. Len(reply') - 2 : Rank[sorted[j]] <= Rank[sorted[j + 1]]
    BY <1>5, <1>8, <1>9, <1>10
  <1>13. QED
    BY <1>1, <1>5, <1>9, <1>12 DEF OrderAnswers

LEMMA OrderKept ==
  ASSUME Parsed, Parting, OrderRight, [Next]_vars
  PROVE  OrderRight'
  <1>1. stored' = stored /\ query_token' = query_token
    BY Endings DEF vars
  <1>2. ASSUME NEW t \in DOMAIN stored, NEW col \in DOMAIN stored[t][1], pc' = "answered",
               IsColumn(t, stored[t][1][col], col),
               Asked(t, <<"order", "by", stored[t][1][col]>>)
        PROVE  OrderAnswers(t, col)'
    <2>1. CASE UNCHANGED vars
      <3>1. pc = "answered" /\ reply' = reply
        BY <1>2, <2>1 DEF vars
      <3>2. OrderAnswers(t, col)
        BY <1>2, <3>1, OrderParts
      <3>3. QED
        BY <1>1, <3>1, <3>2 DEF OrderAnswers
    <2>2. CASE pc = "view" /\ Answers
      <3>1. "where" \notin clause_set /\ "order" \in clause_set
        BY <1>2, <2>2, SelectedOrder
      <3>2. AnswerOrder
        BY <2>2, <3>1 DEF Answers, AnswerWhere, AnswerAll
      <3>3. QED
        BY <1>2, <3>2, OrderStep
    <2>3. QED
      BY <1>2, <2>1, <2>2, AnsweredBy
  <1>3. OrderRight' <=>
          \A t \in DOMAIN stored' : \A col \in DOMAIN stored'[t][1] :
            pc' = "answered" /\ IsColumn(t, stored[t][1][col], col)'
              /\ Asked(t, <<"order", "by", stored[t][1][col]>>)' => OrderAnswers(t, col)'
    BY DEF OrderRight, OrderAnswers, Value, Same
  <1>4. \A t, col : /\ IsColumn(t, stored[t][1][col], col)' = IsColumn(t, stored[t][1][col], col)
                    /\ Asked(t, <<"order", "by", stored[t][1][col]>>)'
                         = Asked(t, <<"order", "by", stored[t][1][col]>>)
    BY <1>1 DEF IsColumn, Asked, InOrder, Places, Has
  <1>5. QED
    BY <1>1, <1>2, <1>3, <1>4

(* ORDER BY answers as many rows as are stored, all of them stored, in       *)
(* ascending order and with the same values in the column (sortColumn,       *)
(* parser.cpp:325).                                                          *)
THEOREM OrderIsRight == Spec => []OrderRight
  <1>1. Init => OrderRight
    BY DEF Init, OrderRight
  <1>2. ParserInv /\ OrderRight /\ [Next]_vars => OrderRight'
    BY OrderKept DEF ParserInv
  <1>3. QED
    BY <1>1, <1>2, ParserHolds, PTL DEF Spec

----------------------------------------------------------------------------
(* The size of a reply                                                       *)

CellsOf(row) == SumFunction([i \in DOMAIN row |-> Width[row[i]] + 1])

LEMMA CharactersIs ==
  \A rows : Characters(rows) =
              SumFunctionOnSet([j \in DOMAIN rows |-> CellsOf(rows[j]) + 1], DOMAIN rows)
  BY DEF Characters, CellsOf, SumFunction

LEMMA CellsCount ==
  ASSUME NEW row \in Seq(Cells)
  PROVE  CellsOf(row) \in Int
  <1> PICK n \in Nat : n = Len(row)
    BY LenProperties
  <1> PICK f : f = [i \in DOMAIN row |-> Width[row[i]] + 1]
    OBVIOUS
  <1>1. DOMAIN row = 1 .. n /\ \A i \in 1 .. n : row[i] \in Cells
    BY ElementOfSeq, LenProperties
  <1>2. \A i \in 1 .. n : f[i] \in Int
    <2>1. \A w \in Cells : Width[w] \in Nat
      BY ParserAssumption
    <2>2. QED
      BY <1>1, <2>1
  <1>3. SumFunctionOnSet(f, 1 .. n) \in Int
    BY <1>2, UpToIsFinite, SumInt
  <1>4. CellsOf(row) = SumFunctionOnSet(f, 1 .. n)
    <2>1. DOMAIN f = 1 .. n
      BY <1>1
    <2>2. CellsOf(row) = SumFunctionOnSet(f, DOMAIN f)
      BY DEF CellsOf, SumFunction
    <2>3. QED
      BY <2>1, <2>2
  <1>5. QED
    BY <1>3, <1>4

LEMMA OneRow ==
  ASSUME NEW row \in Seq(Cells)
  PROVE  Characters(<<row>>) = CellsOf(row) + 1
  <1> PICK rows : rows = <<row>>
    OBVIOUS
  <1> PICK f : f = [j \in DOMAIN rows |-> CellsOf(rows[j]) + 1]
    OBVIOUS
  <1>1. DOMAIN rows = {1} /\ rows[1] = row
    OBVIOUS
  <1>2. f[1] = CellsOf(row) + 1 /\ f[1] \in Int
    BY <1>1, CellsCount
  <1>3. SumFunctionOnSet(f, {1}) = f[1]
    <2>1. IsFiniteSet({1}) /\ \A x \in {1} \ {1} : f[x] = 0
      BY FS_Singleton
    <2>2. QED
      BY <1>2, <2>1, SumOnly
  <1>4. Characters(rows) = SumFunctionOnSet(f, {1})
    BY <1>1, CharactersIs
  <1>5. QED
    BY <1>2, <1>3, <1>4

IsImage(S, f, N) ==
  /\ \A j \in 1 .. N : f[j] \in Int
  /\ \A x : x \in S <=> \E j \in 1 .. N : x = f[j]

LEMMA MaxOfImage ==
  ASSUME NEW N \in Nat, N >= 1, NEW f, NEW S, IsImage(S, f, N)
  PROVE  Max(S) \in Int /\ \A j \in 1 .. N : f[j] <= Max(S)
  <1> USE DEF IsImage
  <1>1. PICK m \in 1 .. N : \A j \in 1 .. N : f[j] <= f[m]
    <2>1. 1 .. N # {} /\ IsFiniteSet(1 .. N)
      BY UpToIsFinite, SMTT(30)
    <2>2. QED
      BY <2>1, Greatest
  <1>2. \E y \in S : \A x \in S : y >= x
    <2>1. f[m] \in S /\ f[m] \in Int
      OBVIOUS
    <2>2. \A x \in S : f[m] >= x
      BY <1>1, <2>1
    <2>3. QED
      BY <2>1, <2>2
  <1>3. Max(S) \in S /\ \A x \in S : Max(S) >= x
    BY <1>2 DEF Max
  <1>4. \A j \in 1 .. N : f[j] \in S
    OBVIOUS
  <1>5. QED
    BY <1>3, <1>4

(* No row of a table is wider than the widest.                               *)
LEMMA WidestIs ==
  ASSUME stored \in Stores, NEW t \in DOMAIN stored
  PROVE  /\ Widest(t) \in Int
         /\ \A row \in ToSet(stored[t]) : row \in Seq(Cells) /\ CellsOf(row) + 1 <= Widest(t)
  <1> PICK data : data = stored[t]
    OBVIOUS
  <1> PICK N \in Nat : N = Len(data)
    BY Tables
  <1>1. N >= 1 /\ DOMAIN data = 1 .. N /\ \A j \in 1 .. N : data[j] \in Seq(Cells)
    BY Tables
  <1> PICK f : f = [j \in 1 .. N |-> Characters(<<data[j]>>)]
    OBVIOUS
  <1>2. \A j \in 1 .. N : f[j] = CellsOf(data[j]) + 1 /\ f[j] \in Int
    <2>1. ASSUME NEW j \in 1 .. N PROVE f[j] = CellsOf(data[j]) + 1 /\ f[j] \in Int
      <3> PICK row : row = data[j]
        OBVIOUS
      <3>1. row \in Seq(Cells)
        BY <1>1
      <3>2. Characters(<<row>>) = CellsOf(row) + 1 /\ CellsOf(row) \in Int
        BY <3>1, OneRow, CellsCount
      <3>3. QED
        BY <3>2
    <2>2. QED
      BY <2>1
  <1> PICK S : S = {Characters(<<row>>) : row \in ToSet(data)}
    OBVIOUS
  <1>4. IsImage(S, f, N)
    <2>1. \A x : x \in S <=> \E j \in 1 .. N : x = f[j]
      BY <1>1 DEF ToSet
    <2>2. QED
      BY <1>2, <2>1 DEF IsImage
  <1>5. Max(S) \in Int /\ \A j \in 1 .. N : f[j] <= Max(S)
    BY <1>1, <1>4, MaxOfImage
  <1>6. Widest(t) = Max(S)
    BY DEF Widest
  <1>7. Widest(t) \in Int
    BY <1>5, <1>6
  <1>8. ASSUME NEW row \in ToSet(data)
        PROVE  row \in Seq(Cells) /\ CellsOf(row) + 1 <= Widest(t)
    <2>1. PICK j \in 1 .. N : row = data[j]
      BY <1>1 DEF ToSet
    <2>2. f[j] <= Widest(t) /\ f[j] = CellsOf(data[j]) + 1
      BY <1>2, <1>5, <1>6
    <2>3. QED
      BY <1>1, <2>1, <2>2
  <1>9. QED
    BY <1>7, <1>8

(* Rows of a table are together no wider than as many of the widest.         *)
LEMMA RowsWidth ==
  ASSUME stored \in Stores, NEW t \in DOMAIN stored, NEW rows, NEW n \in Nat,
         DOMAIN rows = 1 .. n, \A j \in 1 .. n : rows[j] \in ToSet(stored[t])
  PROVE  ~(Characters(rows) < MAX_INPUT_SIZE) => ~Fit(t, n)
  <1> PICK wide : wide = Widest(t)
    OBVIOUS
  <1>1. /\ wide \in Int
        /\ \A j \in 1 .. n : CellsOf(rows[j]) \in Int /\ CellsOf(rows[j]) + 1 <= wide
    <2>1. \A j \in 1 .. n : rows[j] \in Seq(Cells) /\ CellsOf(rows[j]) + 1 <= Widest(t)
      BY WidestIs
    <2>2. \A j \in 1 .. n : CellsOf(rows[j]) \in Int
      BY <2>1, CellsCount
    <2>3. QED
      BY <2>1, <2>2, WidestIs
  <1> PICK f : f = [j \in 1 .. n |-> CellsOf(rows[j]) + 1]
    OBVIOUS
  <1> PICK g : g = [j \in 1 .. n |-> wide]
    OBVIOUS
  <1>2. \A j \in 1 .. n : f[j] \in Int /\ g[j] \in Int /\ f[j] <= g[j] /\ g[j] = wide
    BY <1>1
  <1>3. IsFiniteSet(1 .. n) /\ Cardinality(1 .. n) = n
    BY UpToIsFinite
  <1>4. SumFunctionOnSet(f, 1 .. n) <= SumFunctionOnSet(g, 1 .. n)
    BY <1>2, <1>3, SumMonotone
  <1>5. SumFunctionOnSet(g, 1 .. n) = Cardinality(1 .. n) * wide
    BY <1>1, <1>2, <1>3, SumConstant
  <1>6. Characters(rows) = SumFunctionOnSet(f, 1 .. n)
    BY CharactersIs
  <1>7. SumFunctionOnSet(f, 1 .. n) \in Int
    BY <1>2, <1>3, SumInt
  <1> PICK product : product = n * wide
    OBVIOUS
  <1>8. product \in Int /\ Characters(rows) \in Int /\ Characters(rows) <= product
    BY <1>1, <1>3, <1>4, <1>5, <1>6, <1>7
  <1>9. MAX_INPUT_SIZE \in Nat
    BY ParserAssumption
  <1>10. Fit(t, n) <=> product < MAX_INPUT_SIZE
    BY DEF Fit
  <1>11. QED
    BY <1>8, <1>9, <1>10

----------------------------------------------------------------------------
(* A SELECT that is not answered                                             *)

Unserved(t) ==
  /\ Asked(t, << >>) => ~Fit(t, Len(stored[t]))
  /\ \A name \in ToSet(stored[t][1]) :
       Asked(t, <<"order", "by", name>>) => ~Fit(t, Len(stored[t]))
  /\ \A c \in Conditions, tail \in Sorted \cup {<< >>} :
       Asked(t, <<"where", c>> \o tail) =>
         (\A j \in 2 .. Len(stored[t]) : ~Satisfies(t, stored[t][j], c)) \/ ~Fit(t, 2)

LEMMA ServedParts == Served <=> (pc = "undefined" => \A t \in DOMAIN stored : Unserved(t))
  BY DEF Served, Unserved

(* What ends undefined is no SELECT, or its answer.                          *)
LEMMA UndefinedBy ==
  ASSUME Parsed, [Next]_vars, pc' = "undefined"
  PROVE  \/ pc = "view" /\ Answers
         \/ UNCHANGED vars
         \/ \A t, clauses : ~Asked(t, clauses)
  <1>1. extract_column \/ extract_table \/ extract_condition \/ extract_sort_column
          => pc' # "undefined"
    BY DEF extract_column, extract_table, extract_condition, extract_sort_column
  <1>2. Others => query_token = << >> \/ query_token[1] # "select"
    BY DEF Others, Is, extract_create, extract_insert, extract_drop, Snapshot, extract_delete,
           extract_update, Unknown, NoToken, Kinds
  <1>3. query_token = << >> \/ query_token[1] # "select" => \A t, clauses : ~Asked(t, clauses)
    BY DEF Asked, InOrder
  <1>4. QED
    BY <1>1, <1>2, <1>3, Endings DEF Next, Select, Answers, Others

LEMMA AllStep ==
  ASSUME Parsed, Parting, pc = "view", Answers, pc' = "undefined", NEW t \in DOMAIN stored,
         Asked(t, << >>)
  PROVE  ~Fit(t, Len(stored[t]))
  <1>1. stored \in Stores
    BY DEF Parsed
  <1>2. tabelname = t /\ "where" \notin clause_set /\ "order" \notin clause_set
    BY SelectedAll
  <1>3. AnswerAll
    BY <1>2 DEF Answers, AnswerWhere, AnswerOrder
  <1>4. ~(Characters(stored[t]) < MAX_INPUT_SIZE)
    BY <1>2, <1>3 DEF AnswerAll, viewTable, vectorToCharPointer
  <1> PICK n \in Nat : n = Len(stored[t])
    BY <1>1, Tables
  <1>5. DOMAIN stored[t] = 1 .. n /\ \A j \in 1 .. n : stored[t][j] \in ToSet(stored[t])
    BY <1>1, Tables DEF ToSet
  <1>6. QED
    BY <1>1, <1>4, <1>5, RowsWidth

LEMMA OrderUnserved ==
  ASSUME Parsed, Parting, pc = "view", Answers, pc' = "undefined", NEW t \in DOMAIN stored,
         NEW name \in ToSet(stored[t][1]), Asked(t, <<"order", "by", name>>)
  PROVE  ~Fit(t, Len(stored[t]))
  <1>1. stored \in Stores
    BY DEF Parsed
  <1>2. /\ tabelname = t /\ "where" \notin clause_set /\ "order" \in clause_set
        /\ Len(mat) \in Nat /\ Len(mat) >= 3 /\ Third = name
    BY SelectedOrder
  <1>3. AnswerOrder
    BY <1>2 DEF Answers, AnswerWhere, AnswerAll
  <1>4. viewTable = stored[t] /\ stored[t] # << >>
    BY <1>1, <1>2, Tables DEF viewTable
  <1>5. Named(stored[t], name)
    <2> DEFINE S == {i \in DOMAIN stored[t][1] : stored[t][1][i] = name}
    <2>1. S # {} /\ S \in SUBSET Nat /\ 0 \notin S
      BY <1>1, Tables DEF ToSet
    <2>2. Min(S) # 0
      <3> HIDE DEF S
      <3>1. QED
        BY <2>1, MinIs
    <2>3. Column(stored[t], name) = Min(S)
      BY <2>1 DEF Column
    <2> HIDE DEF S
    <2>4. QED
      BY <2>2, <2>3 DEF Named
  <1> PICK rows : rows = sortColumn(stored[t], name)
    OBVIOUS
  <1>6. ~(Characters(rows) < MAX_INPUT_SIZE)
    BY <1>2, <1>3, <1>4, <1>5 DEF AnswerOrder, vectorToCharPointer
  <1> PICK n \in Nat : n = Len(stored[t])
    BY <1>1, Tables
  <1> PICK col : col = Column(stored[t], name)
    OBVIOUS
  <1>7. RowsSorted(t, col, rows)
    BY <1>1, <1>5, Sorting
  <1>8. DOMAIN rows = 1 .. n /\ \A j \in 1 .. n : rows[j] \in ToSet(stored[t])
    <2>1. /\ rows \in Seq(Seq(Cells)) /\ Len(rows) = n
          /\ \A j \in 1 .. n : rows[j] \in ToSet(stored[t])
      BY <1>7 DEF RowsSorted
    <2>2. QED
      BY <2>1, LenProperties
  <1>9. QED
    BY <1>1, <1>6, <1>8, RowsWidth

LEMMA WhereUnserved ==
  ASSUME Parsed, Parting, pc = "view", Answers, pc' = "undefined", NEW t \in DOMAIN stored,
         NEW c \in Conditions, NEW tail \in Sorted \cup {<< >>},
         Asked(t, <<"where", c>> \o tail),
         NEW k \in 2 .. Len(stored[t]), Satisfies(t, stored[t][k], c)
  PROVE  ~Fit(t, 2)
  <1>1. stored \in Stores
    BY DEF Parsed
  <1>2. /\ tabelname = t /\ "where" \in clause_set
        /\ Len(mat) \in Nat /\ Len(mat) >= 3 /\ Third = Converted(Bare, c)
    BY SelectedWhere DEF Conditions
  <1>3. AnswerWhere
    BY <1>2 DEF Answers, AnswerOrder, AnswerAll
  <1>4. viewTable = stored[t] /\ stored[t] # << >>
    BY <1>1, <1>2, Tables DEF viewTable
  <1> PICK e : e = Split(Converted(Bare, c))
    OBVIOUS
  <1> PICK S : S = Matching(stored[t], e)
    OBVIOUS
  <1> PICK n \in Nat : n = Len(stored[t])
    BY <1>1, Tables
  <1>5. Named(stored[t], e.column) /\ S # {} /\ S \subseteq 2 .. n
    BY <1>1, MatchingIs
  <1> PICK rows : rows = <<stored[t][1], stored[t][Max(S)]>>
    OBVIOUS
  <1>6. ~(Characters(rows) < MAX_INPUT_SIZE)
    BY <1>2, <1>3, <1>4, <1>5 DEF AnswerWhere, vectorToCharPointer, conditionTable
  <1>7. Max(S) \in 2 .. n
    <2>1. IsFiniteSet(1 .. n) /\ S \in SUBSET (1 .. n)
      BY <1>5, UpToIsFinite
    <2>2. IsFiniteSet(S) /\ S \subseteq Int
      BY <2>1, FS_Subset
    <2>3. QED
      BY <1>5, <2>2, MaxIs
  <1>8. DOMAIN rows = 1 .. 2 /\ \A j \in 1 .. 2 : rows[j] \in ToSet(stored[t])
    <2>1. 1 \in DOMAIN stored[t] /\ Max(S) \in DOMAIN stored[t]
      BY <1>1, <1>7, Tables
    <2> PICK a : a = stored[t][1]
      OBVIOUS
    <2> PICK b : b = stored[t][Max(S)]
      OBVIOUS
    <2>2. a \in ToSet(stored[t]) /\ b \in ToSet(stored[t])
      BY <2>1 DEF ToSet
    <2>3. rows = <<a, b>>
      OBVIOUS
    <2>4. QED
      BY <2>2, <2>3
  <1>9. 2 \in Nat
    OBVIOUS
  <1>10. QED
    BY <1>1, <1>6, <1>8, <1>9, RowsWidth

LEMMA ServedKept ==
  ASSUME Parsed, Parting, Served, [Next]_vars
  PROVE  Served'
  <1>1. stored' = stored /\ query_token' = query_token
    BY Endings DEF vars
  <1>2. ASSUME NEW t \in DOMAIN stored, pc' = "undefined" PROVE Unserved(t)
    <2>1. CASE UNCHANGED vars
      BY <1>2, <2>1, ServedParts DEF vars
    <2>2. CASE \A u, clauses : ~Asked(u, clauses)
      BY <2>2 DEF Unserved
    <2>3. CASE pc = "view" /\ Answers
      <3>1. Asked(t, << >>) => ~Fit(t, Len(stored[t]))
        BY <1>2, <2>3, AllStep
      <3>2. \A name \in ToSet(stored[t][1]) :
              Asked(t, <<"order", "by", name>>) => ~Fit(t, Len(stored[t]))
        BY <1>2, <2>3, OrderUnserved
      <3>3. \A c \in Conditions, tail \in Sorted \cup {<< >>} :
              Asked(t, <<"where", c>> \o tail) =>
                (\A j \in 2 .. Len(stored[t]) : ~Satisfies(t, stored[t][j], c)) \/ ~Fit(t, 2)
        BY <1>2, <2>3, WhereUnserved
      <3>4. QED
        BY <3>1, <3>2, <3>3 DEF Unserved
    <2>4. QED
      BY <1>2, <2>1, <2>2, <2>3, UndefinedBy
  <1>3. \A t : Unserved(t)' = Unserved(t)
    BY <1>1, SameQuery DEF Unserved
  <1>4. Served' <=> (pc' = "undefined" => \A t \in DOMAIN stored' : Unserved(t)')
    BY DEF Served, Unserved
  <1>5. QED
    BY <1>1, <1>2, <1>3, <1>4

(* A SELECT of a known table that is written in full is answered, unless no  *)
(* row satisfies its WHERE or the rows may fill the reply buffer (the case  *)
(* of SELECT, parser.cpp:433).                                               *)
THEOREM SelectIsServed == Spec => []Served
  <1>1. Init => Served
    BY DEF Init, Served
  <1>2. ParserInv /\ Served /\ [Next]_vars => Served'
    BY ServedKept DEF ParserInv
  <1>3. QED
    BY <1>1, <1>2, ParserHolds, PTL DEF Spec

=============================================================================

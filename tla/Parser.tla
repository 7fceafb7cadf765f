------------------------------- MODULE Parser -------------------------------
(* The query parser and the clauses of SELECT (parser.cpp): one behaviour is *)
(* one query, as the parser keeps nothing between queries.  An action is one *)
(* extract function, or the answer to SELECT.  What a loop reads past the    *)
(* last token, and what an index of a missing row or column reads, is        *)
(* undefined; the model stops there, with pc = "undefined".                  *)
EXTENDS Integers, Sequences, SequencesExt, FiniteSets, FiniteSetsExt, Functions

CONSTANTS
  Inputs,    \* the queries sent, as sequences of words
  Stores,    \* what viewTable shows: table name -> its header and its rows
  Lower,     \* words with capital letters -> without
  Bare,      \* words with ( ) , ; -> without
  Equation,  \* words with = -> the column and the value beside the last =
  Rank,      \* the place of a cell in the order of strings
  Width,     \* the length of a cell
  MAX_INPUT_SIZE   \* the reply buffer

Cells == DOMAIN Rank

(* viewTable shows a header and rows, all of one length.                     *)
IsTable(rows) ==
  /\ rows \in Seq(Seq(Cells)) /\ rows # << >>
  /\ \A j \in DOMAIN rows : Len(rows[j]) = Len(rows[1])

ASSUME ParserAssumption ==
  /\ \A q \in Inputs : q \in Seq(STRING)
  /\ \A w \in DOMAIN Lower : Lower[w] \in STRING
  /\ \A w \in DOMAIN Bare : Bare[w] \in STRING
  /\ MAX_INPUT_SIZE \in Nat
  /\ \A w \in DOMAIN Equation : Equation[w] \in [column : STRING, value : STRING]
  /\ Width \in [Cells -> Nat] /\ Rank \in [Cells -> Int]
  /\ \A v, w \in Cells : Rank[v] = Rank[w] => v = w
  /\ \A s \in Stores : \A t \in DOMAIN s : IsTable(s[t])

VARIABLES
  stored,       \* what viewTable shows during this query
  query_token,
  idx_token,    \* counted from 1
  tabelname,
  mat,          \* the parsed clauses, each with a label and its items
  called,       \* the operation of disk.cpp that is called
  reply,        \* rows for the client
  pc

vars == <<stored, query_token, idx_token, tabelname, mat, called, reply, pc>>

all_clause_set == {"select", "from", "where", "order", "by"}

Converted(f, word) == IF word \in DOMAIN f THEN f[word] ELSE word
remove_punct(words) == [i \in DOMAIN words |-> Converted(Bare, words[i])]

NoCall == [do |-> "none", name |-> "", values |-> << >>]

Init ==
  /\ \E input \in Inputs : query_token = [i \in DOMAIN input |-> Converted(Lower, input[i])]
  /\ stored \in Stores
  /\ idx_token = 2 /\ tabelname = "" /\ mat = << >>
  /\ called = NoCall /\ reply = << >> /\ pc = "start"

----------------------------------------------------------------------------
clause_set == ToSet(query_token) \cap all_clause_set

Is(kind) == pc = "start" /\ query_token # << >> /\ query_token[1] = kind
Has(i) == i <= Len(query_token)

(* Where a loop that starts at i and stops at one of the words ends.         *)
Until(words, i) ==
  Min({j \in i .. Len(query_token) : query_token[j] \in words}
        \cup {Len(query_token) + 1})

Between(i, j) == SubSeq(query_token, i, j - 1)
Clause(name, words) == [label |-> name, items |-> words]
Larger(i, j) == IF i > j THEN i ELSE j

Parsing == UNCHANGED <<stored, query_token, called, reply>>
Undefined == pc' = "undefined" /\ UNCHANGED <<stored, query_token, idx_token, tabelname, mat, called, reply>>

----------------------------------------------------------------------------
(* choose_select                                                             *)

extract_column ==
  /\ Is("select")
  /\ LET from == Until({"from"}, idx_token)
     IN  IF "from" \in clause_set /\ from > idx_token
           THEN /\ mat' = Append(mat, Clause("column_name", Between(idx_token, from)))
                /\ idx_token' = from + 1
           ELSE UNCHANGED <<mat, idx_token>>
  /\ pc' = "table" /\ Parsing /\ UNCHANGED tabelname

(* Mutant: the clause of the table is not recorded.                          *)
extract_table_Unrecorded ==
  /\ pc = "table"
  /\ LET end == Until({"where", "order"}, idx_token)
     IN  IF end > idx_token
           THEN tabelname' = query_token[end - 1] /\ idx_token' = end + 1
           ELSE UNCHANGED <<tabelname, idx_token>>
  /\ pc' = "condition" /\ Parsing /\ UNCHANGED mat

extract_table ==
  /\ pc = "table"
  /\ LET end == Until({"where", "order"}, idx_token)
     IN  IF end > idx_token
           THEN /\ tabelname' = query_token[end - 1]
                /\ mat' = Append(mat, Clause("table_name", Between(idx_token, end)))
                /\ idx_token' = end + 1
           ELSE UNCHANGED <<tabelname, mat, idx_token>>
  /\ pc' = "condition" /\ Parsing

(* Mutant: the words are taken up to the end.                                *)
ConditionToEnd(i, before) ==
  LET words == remove_punct(SubSeq(query_token, i, Len(query_token)))
  IN  IF words = << >> THEN before ELSE Append(before, Clause("condition", words))

(* extract_condition from token i, as SELECT, UPDATE and DELETE call it.     *)
Condition(i, before) ==
  LET words == remove_punct(Between(i, Until({"order"}, i)))
  IN  IF words = << >> THEN before ELSE Append(before, Clause("condition", words))

AfterCondition(i) == Larger(i, Until({"order"}, i)) + 1

extract_condition ==
  /\ pc = "condition"
  /\ IF "where" \in clause_set
       THEN mat' = Condition(idx_token, mat) /\ idx_token' = AfterCondition(idx_token)
       ELSE UNCHANGED <<mat, idx_token>>
  /\ pc' = "sort" /\ Parsing /\ UNCHANGED tabelname

extract_sort_column ==
  /\ pc = "sort"
  /\ LET words == SubSeq(query_token, idx_token + 1, Len(query_token))
         by == Has(idx_token) => query_token[idx_token] = "by"
     IN  IF "order" \in clause_set /\ by
           THEN /\ mat' = IF words = << >> THEN mat
                          ELSE Append(mat, Clause("sort_column", words))
                /\ idx_token' = Larger(idx_token, Len(query_token)) + 2
           ELSE UNCHANGED <<mat, idx_token>>
  /\ pc' = "view" /\ Parsing /\ UNCHANGED tabelname

----------------------------------------------------------------------------
(* The answer to SELECT                                                      *)

viewTable == IF tabelname \in DOMAIN stored THEN stored[tabelname] ELSE << >>

Column(data, name) ==
  IF \E i \in DOMAIN data[1] : data[1][i] = name
    THEN Min({i \in DOMAIN data[1] : data[1][i] = name}) ELSE 0

Named(data, name) == Column(data, name) # 0

Split(word) ==
  IF word \in DOMAIN Equation THEN Equation[word] ELSE [column |-> "", value |-> word]

Matching(data, condition) ==
  {j \in 2 .. Len(data) : data[j][Column(data, condition.column)] = condition.value}

(* Mutant: the first row that matches.                                       *)
conditionTableFirst(data, condition) == <<data[1], data[Min(Matching(data, condition))]>>

(* The last row that matches.                                                *)
conditionTable(data, condition) == <<data[1], data[Max(Matching(data, condition))]>>

(* Mutant: the values are left as they come.                                 *)
AscendingNot(values) == values

(* sort: the i-th value has fewer than i values before it in the order, and, *)
(* with those equal to it, at least i.                                       *)
Ascending(values) ==
  LET before(v) == Cardinality({j \in DOMAIN values : Rank[values[j]] < Rank[v]})
      upTo(v)   == Cardinality({j \in DOMAIN values : Rank[values[j]] <= Rank[v]})
  IN  [i \in DOMAIN values |-> CHOOSE v \in ToSet(values) : before(v) < i /\ i <= upTo(v)]

(* As many rows as stored, in the order of the column; of rows with the same *)
(* value each time the last.                                                 *)
sortColumn(data, name) ==
  LET values == [j \in 1 .. Len(data) - 1 |-> data[j + 1][Column(data, name)]]
      indexes == [v \in ToSet(values) |-> Max({j \in DOMAIN values : values[j] = v}) + 1]
      sorted == Ascending(values)
  IN  <<data[1]>> \o [i \in DOMAIN sorted |-> data[indexes[sorted[i]]]]

(* A tab after each cell, a line end after each row and an end mark.         *)
Characters(rows) ==
  LET cells(row) == SumFunction([i \in DOMAIN row |-> Width[row[i]] + 1])
  IN  SumFunction([j \in DOMAIN rows |-> cells(rows[j]) + 1])

vectorToCharPointer(rows) ==
  IF Characters(rows) < MAX_INPUT_SIZE
    THEN /\ reply' = rows /\ pc' = "answered"
         /\ called' = [NoCall EXCEPT !.do = "viewTable", !.name = tabelname]
         /\ UNCHANGED <<stored, query_token, idx_token, tabelname, mat>>
    ELSE Undefined

(* mat[2][1]                                                                 *)
Third == mat[3].items[1]

AnswerWhere ==
  /\ pc = "view" /\ "where" \in clause_set
  /\ IF /\ viewTable # << >> /\ Len(mat) >= 3
        /\ Named(viewTable, Split(Third).column)
        /\ Matching(viewTable, Split(Third)) # {}
       THEN vectorToCharPointer(conditionTable(viewTable, Split(Third)))
       ELSE Undefined

AnswerOrder ==
  /\ pc = "view" /\ "where" \notin clause_set /\ "order" \in clause_set
  /\ IF /\ viewTable # << >> /\ Len(mat) >= 3
        /\ Named(viewTable, Third) \/ Len(viewTable) = 1
       THEN vectorToCharPointer(sortColumn(viewTable, Third))
       ELSE Undefined

AnswerAll ==
  /\ pc = "view" /\ clause_set \cap {"where", "order"} = {}
  /\ vectorToCharPointer(viewTable)

Select == \/ extract_column \/ extract_table \/ extract_condition \/ extract_sort_column
          \/ AnswerWhere \/ AnswerOrder \/ AnswerAll

----------------------------------------------------------------------------
(* The other queries.  They read fixed places; idx_token, which only the     *)
(* functions for SELECT hand on, is not followed here.                       *)

Calls(do, name, values) ==
  /\ called' = [do |-> do, name |-> name, values |-> values] /\ pc' = "called"
  /\ tabelname' = IF do \in {"takeSnap", "showSnap"} THEN tabelname ELSE name
  /\ UNCHANGED <<stored, query_token, idx_token, mat, reply>>

(* A column name and a type are taken together.                              *)
extract_create ==
  /\ Is("create")
  /\ IF Has(3) /\ Len(query_token) % 2 = 1
       THEN LET words == remove_punct(SubSeq(query_token, 4, Len(query_token)))
            IN  Calls("addTable", query_token[3],
                      [i \in 1 .. Len(words) \div 2 |-> <<words[2 * i - 1], words[2 * i]>>])
       ELSE Undefined

(* Mutant: the values begin one word early.                                  *)
extract_insert_FromThree ==
  /\ Is("insert")
  /\ IF Has(3) THEN Calls("insertInto", query_token[3],
                          remove_punct(SubSeq(query_token, 4, Len(query_token))))
     ELSE Undefined

extract_insert ==
  /\ Is("insert")
  /\ IF Has(3) THEN Calls("insertInto", query_token[3],
                          remove_punct(SubSeq(query_token, 5, Len(query_token))))
     ELSE Undefined

extract_drop ==
  /\ Is("drop")
  /\ IF Has(3) THEN Calls("dropTable", query_token[3], << >>) ELSE Undefined

Snapshot ==
  /\ Is("take") \/ Is("view")
  /\ IF Has(3) THEN Calls(IF Is("take") THEN "takeSnap" ELSE "showSnap", query_token[3], << >>)
     ELSE Undefined

(* DELETE and UPDATE are parsed and printed, and nothing is called.          *)
Printed(name, clauses) ==
  /\ tabelname' = name /\ mat' = clauses /\ pc' = "printed"
  /\ UNCHANGED <<stored, query_token, idx_token, called, reply>>

extract_delete ==
  /\ Is("delete")
  /\ IF Has(4) THEN Printed(query_token[3],
                            IF query_token[4] = "where" THEN Condition(5, mat) ELSE mat)
     ELSE Undefined

(* The words between commas; what is left after the last one, if anything.   *)
Items(words) ==
  LET cuts == SetToSortSeq({0, Len(words) + 1} \cup {i \in DOMAIN words : words[i] = ","}, <)
      items == [i \in 1 .. Len(cuts) - 1 |-> SubSeq(words, cuts[i] + 1, cuts[i + 1] - 1)]
  IN  IF Last(items) = << >> THEN Front(items) ELSE items

extract_update ==
  /\ Is("update")
  /\ LET where == Until({"where"}, 4)
         things == Clause("update_items", Items(Between(4, where)))
     IN  CASE ~Has(3) -> Undefined
           [] Has(3) /\ query_token[3] # "set" -> Printed(query_token[2], mat)
           [] Has(3) /\ query_token[3] = "set" /\ ~Has(where) -> Undefined
           [] OTHER -> Printed(query_token[2], Condition(where + 1, <<things>>))

Kinds == {"select", "create", "insert", "drop", "delete", "update", "take", "view"}

Unknown ==
  /\ pc = "start" /\ query_token # << >> /\ query_token[1] \notin Kinds
  /\ pc' = "refused" /\ UNCHANGED <<stored, query_token, idx_token, tabelname, mat, called, reply>>

(* query_token[0] of an empty query.                                         *)
NoToken == pc = "start" /\ query_token = << >> /\ Undefined

Next == \/ Select \/ extract_create \/ extract_insert \/ extract_drop
        \/ Snapshot \/ extract_delete \/ extract_update \/ Unknown \/ NoToken

Spec == Init /\ [][Next]_vars

----------------------------------------------------------------------------
(* Properties                                                                *)

(* SELECT with columns and tables, and its clauses at most once, in order;  *)
(* `where' and `order' are where these clauses begin or would begin.         *)
InOrder(from, where, order) ==
  /\ query_token # << >> /\ query_token[1] = "select"
  /\ 2 < from /\ from + 1 < where /\ where <= order
  /\ query_token[from] = "from"
  /\ where < order => query_token[where] = "where"
  /\ Has(order) => /\ query_token[order] = "order"
                   /\ Has(order + 1) /\ query_token[order + 1] = "by"
  /\ \A i \in 1 .. Len(query_token) :
       query_token[i] \in all_clause_set => i \in {1, from, where, order, order + 1}

Places == 1 .. Len(query_token) + 1

Filled(label, words) == IF words = << >> THEN << >> ELSE <<Clause(label, words)>>

(* Four functions share one index, and each leaves it where the next goes on:*)
(* every word of SELECT is in the clause of the key word before it, in its   *)
(* place, and the table is the last one named.                               *)
NothingLost ==
  pc = "view" => \A from, where, order \in Places :
    InOrder(from, where, order) =>
      /\ tabelname = query_token[where - 1]
      /\ mat = <<Clause("column_name", Between(2, from)),
                 Clause("table_name", Between(from + 1, where))>>
               \o Filled("condition", remove_punct(Between(where + 1, order)))
               \o Filled("sort_column", Between(order + 2, Len(query_token) + 1))

Asked(t, clauses) ==
  /\ query_token = <<"select", "*", "from", t>> \o clauses
  /\ \E from, where, order \in Places : InOrder(from, where, order)

Words == ToSet(query_token)
Sorted == {<<"order", "by", w>> : w \in Words}

(* The first column of that name, and what a condition says of a row.        *)
IsColumn(t, name, i) ==
  stored[t][1][i] = name /\ \A k \in 1 .. i - 1 : stored[t][1][k] # name

Conditions == {c \in Words : Converted(Bare, c) \in DOMAIN Equation}
Satisfies(t, row, c) ==
  \E i \in DOMAIN row : /\ IsColumn(t, Equation[Converted(Bare, c)].column, i)
                        /\ row[i] = Equation[Converted(Bare, c)].value

(* WHERE, with or without ORDER BY, answers the header and one stored row    *)
(* that satisfies the condition, the last inserted of them.                  *)
WhereRight ==
  \A t \in DOMAIN stored, c \in Conditions, tail \in Sorted \cup {<< >>} :
    pc = "answered" /\ Asked(t, <<"where", c>> \o tail) =>
      /\ Len(reply) = 2 /\ reply[1] = stored[t][1]
      /\ \E j \in 2 .. Len(stored[t]) :
           /\ stored[t][j] = reply[2] /\ Satisfies(t, stored[t][j], c)
           /\ \A later \in j + 1 .. Len(stored[t]) : ~Satisfies(t, stored[t][later], c)

(* ORDER BY answers stored rows, as many as there are and with the same      *)
(* values in the column, and they ascend; with all values different these    *)
(* are the rows of the table.                                                *)
OrderRight ==
  \A t \in DOMAIN stored : \A col \in DOMAIN stored[t][1] :
    pc = "answered" /\ IsColumn(t, stored[t][1][col], col)
      /\ Asked(t, <<"order", "by", stored[t][1][col]>>) =>
      LET value(rows) == [j \in 1 .. Len(rows) - 1 |-> rows[j + 1][col]]
          times(v, rows) == Cardinality({j \in DOMAIN value(rows) : value(rows)[j] = v})
      IN  /\ Len(reply) = Len(stored[t]) /\ ToSet(reply) \subseteq ToSet(stored[t])
          /\ \A v \in ToSet(value(stored[t])) : times(v, reply) = times(v, stored[t])
          /\ \A j \in 1 .. Len(reply) - 2 :
               Rank[value(reply)[j]] <= Rank[value(reply)[j + 1]]

(* A SELECT of a known table that is written in full is answered, unless     *)
(* its WHERE is satisfied by no row or its rows fill the reply: a WHERE      *)
(* answers two rows however many there are, the other two as many as stored. *)
Widest(t) == Max({Characters(<<row>>) : row \in ToSet(stored[t])})
Fit(t, rows) == rows * Widest(t) < MAX_INPUT_SIZE

Served ==
  pc = "undefined" =>
    \A t \in DOMAIN stored :
      /\ Asked(t, << >>) => ~Fit(t, Len(stored[t]))
      /\ \A name \in ToSet(stored[t][1]) :
           Asked(t, <<"order", "by", name>>) => ~Fit(t, Len(stored[t]))
      /\ \A c \in Conditions, tail \in Sorted \cup {<< >>} :
           Asked(t, <<"where", c>> \o tail) =>
             \/ \A j \in 2 .. Len(stored[t]) : ~Satisfies(t, stored[t][j], c)
             \/ ~Fit(t, 2)

Begins(words) ==
  Len(words) <= Len(query_token) /\ \A i \in DOMAIN words : query_token[i] = words[i]

(* The words from a place to the end, without punctuation.                   *)
Rest(i) == remove_punct(SubSeq(query_token, i, Len(query_token)))

Called(do, t, values) == pc = "called" /\ called = [do |-> do, name |-> t, values |-> values]
OnlyShown(t, clauses) ==
  pc = "printed" /\ called = NoCall /\ tabelname = t /\ mat = clauses

(* UPDATE of t with its WHERE at this place and no word of another clause.   *)
UpdatesWhere(t, where) ==
  /\ Begins(<<"update", t, "set">>) /\ 3 < where /\ Has(where)
  /\ query_token[where] = "where" /\ "order" \notin Words
  /\ \A i \in 4 .. where - 1 : query_token[i] # "where"

(* A query that is written in full does not read past its last token, and    *)
(* does what was sent: CREATE, INSERT, DROP and the snapshots call their     *)
(* operation with the table; nothing written where a value belongs is        *)
(* skipped, and CREATE pairs each column with the type behind it.  DELETE    *)
(* and UPDATE call nothing, whatever they say, and show their table and the  *)
(* whole condition.  In full: CREATE has a type for each column, DELETE and  *)
(* UPDATE have a WHERE.                                                      *)
CalledAsSent ==
  pc # "start" => \A t \in Words :
    /\ Begins(<<"create", "table", t>>) /\ Len(query_token) % 2 = 1 =>
         /\ Called("addTable", t, called.values)
         /\ 2 * Len(called.values) = Len(Rest(4))
         /\ \A i \in DOMAIN Rest(4) :
              Rest(4)[i] = called.values[(i + 1) \div 2][IF i % 2 = 1 THEN 1 ELSE 2]
    /\ Begins(<<"insert", "into", t, "values">>) => Called("insertInto", t, Tail(Rest(4)))
    /\ Begins(<<"drop", "table", t>>) => Called("dropTable", t, << >>)
    /\ Begins(<<"take", "snapshot", t>>) => Called("takeSnap", t, << >>)
    /\ Begins(<<"view", "snapshot", t>>) => Called("showSnap", t, << >>)
    /\ Begins(<<"delete", "from", t, "where">>) /\ "order" \notin Words =>
         OnlyShown(t, Filled("condition", Rest(5)))
    /\ \A where \in Places : UpdatesWhere(t, where) =>
         /\ mat # << >> /\ mat[1].label = "update_items"
         /\ OnlyShown(t, <<mat[1]>> \o Filled("condition", Rest(where + 1)))
=============================================================================

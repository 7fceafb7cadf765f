----------------------------- MODULE TableStore -----------------------------
(***************************************************************************)
(* What the storage engine promises a client: a map from names to tables.  *)
(* A query takes effect at most once, at one moment before its answer; an  *)
(* answered query has taken effect and keeps it through any crash.  What a *)
(* query replaces as a whole (CREATE and DROP a table, TAKE SNAPSHOT a     *)
(* snapshot) is in doubt until its answer, and after a crash that came     *)
(* first.  Pages, slots, the catalogue and files do not appear.            *)
(***************************************************************************)
EXTENDS Integers, Sequences

CONSTANTS
  Names, NoQuery, NoReply,
  NumbersOnly(_, _),  \* a row's numbers are numbers, given the column types
  Stored(_, _)        \* the row as it reads back

VARIABLES
  tables,   \* name -> column types and rows, of the tables that are there
  absent,   \* the names of the tables that are not; of the others all is open
  snaps,    \* name -> the snapshot taken of it
  asked,    \* the query in progress
  done,     \* an insertion has taken effect
  answer,   \* what it will be answered
  void      \* the client has left the domain in which anything is promised

vars == <<tables, absent, snaps, asked, done, answer, void>>

Drop1(f, names) == [n \in DOMAIN f \ names |-> f[n]]
Put1(f, n, x) == [m \in DOMAIN f \cup {n} |-> IF m = n THEN x ELSE f[m]]

Init ==
  /\ tables = << >> /\ absent = Names /\ snaps = << >>
  /\ asked = NoQuery /\ done = FALSE /\ answer = NoReply /\ void = FALSE

Ask ==
  /\ asked = NoQuery /\ asked' # NoQuery
  /\ LET whole == IF asked'.kind \in {"create", "drop"} THEN {asked'.name} ELSE {}
         taken == IF asked'.kind = "take" THEN {asked'.name} \ absent ELSE {}
     IN  /\ tables' = Drop1(tables, whole)
         /\ absent' = absent \ whole
         /\ snaps' = Drop1(snaps, taken)
  /\ UNCHANGED <<done, answer>>

There == asked.name \in DOMAIN tables
Table == tables[asked.name]

Insert ==
  /\ asked # NoQuery /\ asked.kind = "insert" /\ There /\ ~done
  /\ Len(asked.data) = Len(Table.types) /\ NumbersOnly(Table.types, asked.data)
  /\ tables' = [tables EXCEPT ![asked.name].rows =
                  Append(@, Stored(Table.types, asked.data))]
  /\ done' = TRUE /\ UNCHANGED <<absent, snaps, asked, answer>>

(* The answer to a query about a table that is known to be there or not to *)
(* be there, or about a snapshot with the table's columns.                 *)
Right(r) ==
  CASE asked.kind = "insert" /\ There ->
         r.said = IF done THEN "INSERT SUCCESS" ELSE "!!Incorrectly formatted data!!"
    [] asked.kind = "select" /\ There -> r.said = "TABLE" /\ r.rows = Table.rows
    [] asked.kind = "view" /\ There /\ asked.name \in DOMAIN snaps ->
         Table.types = snaps[asked.name].types => r.rows = snaps[asked.name].rows
    [] asked.kind \in {"insert", "take"} /\ asked.name \in absent ->
         r.said = "!!Table Not Found!!"
    [] asked.kind = "select" /\ asked.name \in absent ->
         r.said = "!! TABLE DOESN'T EXIST !!!!"
    [] OTHER -> TRUE

Settle ==
  /\ asked # NoQuery /\ answer = NoReply
  /\ answer' # NoReply /\ Right(answer')
  /\ UNCHANGED <<tables, absent, snaps, asked, done>>

(* The answer arrives: nothing about its table is in doubt any more.       *)
Reply ==
  /\ answer # NoReply
  /\ tables' = IF asked.kind = "create"
               THEN Put1(tables, asked.name, [types |-> asked.types, rows |-> << >>])
               ELSE tables
  /\ absent' = IF asked.kind = "drop" THEN absent \cup {asked.name} ELSE absent
  /\ snaps' = IF asked.kind = "take" /\ There THEN Put1(snaps, asked.name, Table)
              ELSE snaps
  /\ asked' = NoQuery /\ done' = FALSE /\ answer' = NoReply

Taking == IF asked # NoQuery /\ asked.kind = "take" THEN {asked.name} ELSE {}

(* The process ends without an answer.  A table in doubt may turn out not  *)
(* to be there.                                                            *)
Crash ==
  /\ asked' = NoQuery /\ done' = FALSE /\ answer' = NoReply
  /\ absent \subseteq absent' /\ absent' \subseteq Names \ DOMAIN tables
  /\ snaps' \in {snaps, Drop1(snaps, Taking)} /\ UNCHANGED tables

Promised == Ask \/ Insert \/ Settle \/ Reply \/ Crash

(* Once the client has left the domain anything may happen.                *)
Next == void' \/ (~void /\ ~void' /\ Promised)

Spec == Init /\ [][Next]_vars
=============================================================================

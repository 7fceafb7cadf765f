-------------------------------- MODULE Disk --------------------------------
(***************************************************************************)
(* NormDB's storage (disk.cpp) under the query dispatcher (process_Query   *)
(* of parser.cpp).                                                         *)
(*                                                                         *)
(* One query runs at a time: load the catalogue if no table is known, run  *)
(* the operation on memory, write the catalogue and every table's page to  *)
(* files, return the reply.  A step is one loop iteration or one system    *)
(* call that changes a file, and the process may be killed between any two.*)
(*                                                                         *)
(* A row page holds a cursor and rows.  addTable starts the cursor at 4,   *)
(* after itself; a page read from an empty file is all zeros, its cursor   *)
(* is 0, and the first row is written over the cursor.  What a reader makes*)
(* of a page depends on that start and on the column types it reads with.  *)
(***************************************************************************)
EXTENDS Catalog

CONSTANTS
  Values,       \* the texts that queries insert
  Numerals,     \* the texts stoi accepts
  IntOf,        \* a numeral as it reads back: to_string(stoi(text))
  Schemas,      \* the column type lists that CREATE TABLE uses
  Kinds,        \* the kinds of query sent
  TableSlots,   \* the length of tablePtrs (TABLE_SIZE)
  MaxRows,      \* bound: no INSERT is sent to a table with this many rows
  Room,         \* bound: no CREATE is sent when its record would end past it
  MaxCrashes,   \* bound: the process is killed at most this many times
  Null, NoFile, NoQuery, NoReply, Misread

ASSUME DiskAssumption ==
  /\ Values \subseteq Text /\ Numerals \subseteq Text
  /\ IntOf \in [Numerals -> Text]
  /\ Schemas \subseteq Seq(Types)
  /\ TableSlots \in Nat /\ MaxRows \in Nat /\ Room \in Nat /\ MaxCrashes \in Nat
  /\ IsFiniteSet(Text)
  /\ Cardinality(Text) < TableSlots    \* so no slot past the array is used

Row  == [layout : Seq(BOOLEAN), data : Seq(Text)]
Page == [start : {0, 4}, rows : Seq(Row)]

ASSUME NullAssumption == Null \notin Page

VARIABLES
  (* memory *)
  cat,          \* the catalogue, `table'
  tableLoc,     \* table name -> slot
  tablePtrs,    \* slot -> row page, Null before any is allocated
  (* files *)
  catFile,      \* the catalogue file "table"
  files,        \* table name -> page in the file of that name
  snapFiles,    \* table name -> page in the file <name>_snap
  (* control *)
  pc, query, at, pending, reply, crashes,
  (* history *)
  orderly,      \* no query has left the domain the code handles
  acked,        \* table -> column types and rows whose insertion was answered
  snapped       \* table -> what acked held when its snapshot was answered

memVars  == <<cat, tableLoc, tablePtrs>>
fileVars == <<catFile, files, snapFiles>>
history  == <<orderly, acked, snapped>>
vars == <<memVars, fileVars, pc, query, at, pending, reply, crashes, history>>

Slots == 0 .. TableSlots - 1

----------------------------------------------------------------------------
(* Row pages                                                               *)

FreshPage == [start |-> 4, rows |-> <<>>]
ZeroPage  == [start |-> 0, rows |-> <<>>]

(* Which columns are integers: all that the reading of a row depends on.   *)
Layout(types) == [i \in DOMAIN types |-> types[i] = IntType]

Stored(types, data) ==
  [i \in DOMAIN types |->
     IF types[i] = IntType THEN IntOf[data[i]] ELSE Cstr[data[i]]]

(* Mutant: the cursor does not advance.                                    *)
Append1Overwrites(page, types, data) ==
  [page EXCEPT !.rows =
     <<[layout |-> Layout(types), data |-> Stored(types, data)]>>]

Append1(page, types, data) ==
  [page EXCEPT !.rows =
     Append(@, [layout |-> Layout(types), data |-> Stored(types, data)])]

(* The rows a reader finds: those stored, if it reads them where and as    *)
(* they were written.                                                      *)
View(page, types) ==
  IF page.rows = <<>> THEN <<>>
  ELSE IF page.start = 4 /\ \A i \in DOMAIN page.rows :
                               page.rows[i].layout = Layout(types)
       THEN [i \in DOMAIN page.rows |-> page.rows[i].data]
       ELSE Misread

----------------------------------------------------------------------------
(* Queries and replies                                                     *)

Rows == UNION {[1 .. n -> Values] : n \in {Len(s) : s \in Schemas}}

Query ==
  [kind : {"create"}, name : Names, types : Schemas]
    \cup [kind : {"insert"}, name : Names, data : Rows]
    \cup [kind : {"select", "drop", "take", "view", "delete", "update",
                  "unknown"}, name : Names]

Said(text) == [said |-> text, rows |-> <<>>]
Shown(rows) == [said |-> "TABLE", rows |-> rows]
Sayings ==
  {"INSERTED", "INSERT SUCCESS", "!!Incorrectly formatted data!!", "DROPPED",
   "NOT FOUND", "!!Table Not Found!!", "!! TABLE DOESN'T EXIST !!!!", "TABLE",
   "SNAP TAKEN", "!! Incorrectly Formatted Query !!", "unwritten"}
Replies == [said : Sayings, rows : Seq(Seq(Text)) \cup {Misread}]

ASSUME NoneAssumption == NoQuery \notin Query /\ NoReply \notin Replies

(* Where a table's name is found in the catalogue, and with which types.   *)
Found == FirstMatch(cat, query.name)
Meta  == ColumnTypes(cat, Found)

(* The walk for the query's table ends: at no record, or at one of a real  *)
(* size.                                                                   *)
WalkEnds == Found = NotFound \/ (Found \in Nat /\ IntAt(cat, Found) < Garbage)

Known == query.name \in DOMAIN tableLoc

(* findTable or dropTable walks the catalogue for this query.              *)
Walks == \/ query.kind \in {"insert", "select"} /\ Known
         \/ query.kind \in {"drop", "view"}

InsertOffered(q) ==
  q.name \in DOMAIN files => Len(files[q.name].rows) < MaxRows

CreateOffered(q) ==
  catFile # NoFile =>
    Fin(catFile) >= 0 /\ Fin(catFile) + RecordSize(q.types) <= Room

Init ==
  /\ cat = << >> /\ tableLoc = << >>
  /\ tablePtrs = [s \in Slots |-> Null]
  /\ catFile = NoFile /\ files = << >> /\ snapFiles = << >>
  /\ pc = "idle" /\ query = NoQuery /\ at = 0 /\ pending = {}
  /\ reply = NoReply /\ crashes = 0
  /\ orderly = TRUE /\ acked = << >> /\ snapped = << >>

Receive ==
  /\ pc = "idle"
  /\ \E q \in Query :
       /\ q.kind \in Kinds
       /\ q.kind = "insert" => InsertOffered(q)
       /\ q.kind = "create" => CreateOffered(q)
       /\ query' = q
  /\ pc' = "load"
  /\ UNCHANGED <<memVars, fileVars, at, pending, reply, crashes, history>>

----------------------------------------------------------------------------
(* load: nothing to do when a table is known; otherwise read the catalogue *)
(* file, if there is one, and walk its records.                            *)

LoadSkip ==
  /\ pc = "load" /\ DOMAIN tableLoc # {}
  /\ pc' = "exec"
  /\ UNCHANGED <<memVars, fileVars, query, at, pending, reply, crashes, history>>

LoadNoFile ==
  /\ pc = "load" /\ DOMAIN tableLoc = {} /\ catFile = NoFile
  /\ cat' = Put(cat, 0, IntCell(FirstRecord))
  /\ pc' = "exec"
  /\ UNCHANGED <<tableLoc, tablePtrs, fileVars, query, at, pending, reply,
                 crashes, history>>

LoadCatalog ==
  /\ pc = "load" /\ DOMAIN tableLoc = {} /\ catFile # NoFile
  /\ cat' = ReadOver(catFile, cat)
  /\ at' = FirstRecord
  /\ pc' = "walk"
  /\ UNCHANGED <<tableLoc, tablePtrs, fileVars, query, pending, reply, crashes,
                 history>>

(* What open(.., O_CREAT) and read make of a table's file: a missing one   *)
(* is created empty, and an empty one leaves the new page all zeros.  No   *)
(* file has the empty name.                                                *)
PageIn(fs, name) == IF name \in DOMAIN fs THEN fs[name] ELSE ZeroPage
OpenCreate(fs, name) ==
  IF name \in DOMAIN fs \cup {NoText} THEN fs ELSE Put(fs, name, ZeroPage)

(* A record whose table is already known still takes the next slot.  With  *)
(* a size of 0 the loop comes back to the same record for ever.            *)
LoadRecord ==
  /\ pc = "walk" /\ at < Fin(cat)
  /\ LET ref == TextAt(cat, at + IntSize)
         lc  == Cardinality(DOMAIN tableLoc)
     IN  /\ tableLoc' = IF ref \in DOMAIN tableLoc THEN tableLoc
                        ELSE Put(tableLoc, ref, lc)
         /\ tablePtrs' = [tablePtrs EXCEPT ![lc] = PageIn(files, ref)]
         /\ files' = OpenCreate(files, ref)
  /\ at' = at + IntAt(cat, at)
  /\ UNCHANGED <<cat, catFile, snapFiles, pc, query, pending, reply, crashes,
                 history>>

LoadDone ==
  /\ pc = "walk" /\ at >= Fin(cat)
  /\ pc' = "exec" /\ at' = 0
  /\ UNCHANGED <<memVars, fileVars, query, pending, reply, crashes, history>>

----------------------------------------------------------------------------
(* The operations                                                          *)

Running(kind) == pc = "exec" /\ query.kind = kind

Answer(r) == reply' = r /\ pc' = "flush"

(* What the queries would have to respect for the catalogue to stay        *)
(* consistent: a table is created once, under a name and with column types *)
(* that are stored whole, while the catalogue still fits the bytes that are*)
(* written to its file; and is dropped while at most one other record      *)
(* follows its own.                                                        *)
OrderlyCreate ==
  /\ ~Known /\ Found = NotFound
  /\ Cstr[query.name] = query.name
  /\ \A i \in DOMAIN query.types : Cstr[query.types[i]] = query.types[i]
  /\ Fin(cat) + RecordSize(query.types) <= PageWords

OrderlyDrop ==
  LET next == Found + IntAt(cat, Found)
  IN  Known /\ (next < Fin(cat) => next + IntAt(cat, next) >= Fin(cat))

Judge(ok) ==
  /\ orderly' = (orderly /\ ok)
  /\ acked' = IF orderly' THEN acked ELSE << >>
  /\ snapped' = IF orderly' THEN snapped ELSE << >>

(* Mutant: the page goes to the slot the table had last, not to its own.   *)
CreateElsewhere ==
  /\ Running("create")
  /\ LET ls == Cardinality(DOMAIN tableLoc)
     IN  /\ tableLoc' = Put(tableLoc, query.name, ls)
         /\ tablePtrs' = [tablePtrs EXCEPT ![Cardinality(DOMAIN tableLoc')] =
                            FreshPage]
  /\ cat' = AddRecord(cat, query.name, query.types)
  /\ Judge(OrderlyCreate)
  /\ Answer(Said("INSERTED"))
  /\ UNCHANGED <<fileVars, query, at, pending, crashes>>

(* addTable does not look for the table first.                             *)
Create ==
  /\ Running("create")
  /\ LET ls == Cardinality(DOMAIN tableLoc)
     IN  /\ tableLoc' = Put(tableLoc, query.name, ls)
         /\ tablePtrs' = [tablePtrs EXCEPT ![ls] = FreshPage]
  /\ cat' = AddRecord(cat, query.name, query.types)
  /\ Judge(OrderlyCreate)
  /\ Answer(Said("INSERTED"))
  /\ UNCHANGED <<fileVars, query, at, pending, crashes>>

NumbersOnly(types, data) ==
  \A i \in DOMAIN types : types[i] = IntType => data[i] \in Numerals

InsertRefused ==
  /\ Running("insert")
  /\ \/ ~Known /\ Answer(Said("!!Table Not Found!!"))
     \/ /\ Known /\ WalkEnds /\ Len(Meta) # Len(query.data)
        /\ Answer(Said("!!Incorrectly formatted data!!"))
  /\ UNCHANGED <<memVars, fileVars, query, at, pending, crashes, history>>

InsertRow ==
  /\ Running("insert")
  /\ Known /\ WalkEnds /\ Len(Meta) = Len(query.data)
  /\ NumbersOnly(Meta, query.data)
  /\ tablePtrs' = [tablePtrs EXCEPT ![tableLoc[query.name]] =
                     Append1(@, Meta, query.data)]
  /\ Answer(Said("INSERT SUCCESS"))
  /\ UNCHANGED <<cat, tableLoc, fileVars, query, at, pending, crashes, history>>

Select ==
  /\ Running("select")
  /\ \/ ~Known /\ Answer(Said("!! TABLE DOESN'T EXIST !!!!"))
     \/ /\ Known /\ WalkEnds
        /\ Answer(Shown(View(tablePtrs[tableLoc[query.name]], Meta)))
  /\ UNCHANGED <<memVars, fileVars, query, at, pending, crashes, history>>

DropUnknown ==
  /\ Running("drop") /\ Found = NotFound
  /\ Answer(Said("NOT FOUND"))
  /\ UNCHANGED <<memVars, fileVars, query, at, pending, crashes, history>>

(* Mutants: every slot moves down; none does; no page does.                *)
LowerSlotsAll(loc, name, pos) == [n \in DOMAIN loc \ {name} |-> loc[n] - 1]

LowerSlotsNone(loc, name, pos) == [n \in DOMAIN loc \ {name} |-> loc[n]]

ShiftPagesNone(ptrs, loc, pos) == ptrs

(* The slots above the dropped one move down by one.  A name that is in    *)
(* the catalogue but not in tableLoc counts as being in slot 0.            *)
LowerSlots(loc, name, pos) ==
  [n \in DOMAIN loc \ {name} |-> IF loc[n] > pos THEN loc[n] - 1 ELSE loc[n]]

ShiftPages(ptrs, loc, pos) ==
  [s \in DOMAIN ptrs |->
     IF s >= pos /\ \E n \in DOMAIN loc : loc[n] > s THEN ptrs[s + 1] ELSE ptrs[s]]

Drop ==
  /\ Running("drop") /\ WalkEnds /\ Found \in Nat
  /\ NextSize(cat, Found) < Garbage
  /\ LET pos == IF Known THEN tableLoc[query.name] ELSE 0
     IN  /\ tablePtrs' = ShiftPages(tablePtrs, tableLoc, pos)
         /\ tableLoc' = LowerSlots(tableLoc, query.name, pos)
  /\ cat' = DropRecord(cat, Found)
  /\ files' = Without(files, query.name)
  /\ Judge(OrderlyDrop)
  /\ Answer(Said("DROPPED"))
  /\ UNCHANGED <<catFile, snapFiles, query, at, pending, crashes>>

(* Mutant: a snapshot that exists is kept.                                 *)
TakeSnapOnce ==
  /\ Running("take")
  /\ \/ ~Known /\ Answer(Said("!!Table Not Found!!")) /\ UNCHANGED snapFiles
     \/ /\ Known
        /\ snapFiles' = Over(snapFiles, Put(<< >>, query.name,
                                   tablePtrs[tableLoc[query.name]]))
        /\ Answer(Said("SNAP TAKEN"))
  /\ UNCHANGED <<memVars, catFile, files, query, at, pending, crashes, history>>

TakeSnap ==
  /\ Running("take")
  /\ \/ ~Known /\ Answer(Said("!!Table Not Found!!")) /\ UNCHANGED snapFiles
     \/ /\ Known
        /\ snapFiles' = Put(snapFiles, query.name, tablePtrs[tableLoc[query.name]])
        /\ Answer(Said("SNAP TAKEN"))
  /\ UNCHANGED <<memVars, catFile, files, query, at, pending, crashes, history>>

(* VIEW SNAPSHOT creates the file it does not find.                        *)
ShowSnap ==
  /\ Running("view") /\ WalkEnds
  /\ snapFiles' = OpenCreate(snapFiles, query.name)
  /\ Answer(Shown(View(PageIn(snapFiles, query.name), Meta)))
  /\ UNCHANGED <<memVars, catFile, files, query, at, pending, crashes, history>>

(* UPDATE and DELETE are parsed and do nothing; their reply is never       *)
(* written.                                                                *)
Unimplemented ==
  /\ pc = "exec" /\ query.kind \in {"update", "delete", "unknown"}
  /\ Answer(Said(IF query.kind = "unknown"
                 THEN "!! Incorrectly Formatted Query !!" ELSE "unwritten"))
  /\ UNCHANGED <<memVars, fileVars, query, at, pending, crashes, history>>

(* The walk for the table never ends.                                      *)
Hang ==
  /\ pc = "exec" /\ Walks /\ Found = Endless
  /\ pc' = "hung"
  /\ UNCHANGED <<memVars, fileVars, query, at, pending, reply, crashes, history>>

----------------------------------------------------------------------------
(* flush: the catalogue, then the page of every table in the order of a    *)
(* hash map.                                                               *)

FlushOpen ==
  /\ pc = "flush"
  /\ catFile' = IF catFile = NoFile THEN << >> ELSE catFile
  /\ pc' = "write"
  /\ UNCHANGED <<memVars, files, snapFiles, query, at, pending, reply, crashes,
                 history>>

(* Mutant: only the page of the query's table is written.                  *)
FlushCatalogDirty ==
  /\ pc = "write"
  /\ catFile' = Persisted(cat)
  /\ pending' = {query.name} \cap DOMAIN tableLoc
  /\ pc' = "tables"
  /\ UNCHANGED <<memVars, files, snapFiles, query, at, reply, crashes, history>>

FlushCatalog ==
  /\ pc = "write"
  /\ catFile' = Persisted(cat)
  /\ pending' = DOMAIN tableLoc
  /\ pc' = "tables"
  /\ UNCHANGED <<memVars, files, snapFiles, query, at, reply, crashes, history>>

FlushTable ==
  /\ pc = "tables"
  /\ \E n \in pending :
       /\ files' = IF n = NoText THEN files
                   ELSE Put(files, n, tablePtrs[tableLoc[n]])
       /\ pending' = pending \ {n}
  /\ UNCHANGED <<memVars, catFile, snapFiles, pc, query, at, reply, crashes,
                 history>>

FlushDone ==
  /\ pc = "tables" /\ pending = {}
  /\ pc' = "reply"
  /\ UNCHANGED <<memVars, fileVars, query, at, pending, reply, crashes, history>>

----------------------------------------------------------------------------
(* The reply, and what it lets a client rely on                            *)

AckedAfter(q, r, ack) ==
  IF r.said = "INSERTED"
    THEN Put(ack, q.name, [types |-> q.types, rows |-> << >>])
  ELSE IF r.said = "DROPPED" THEN Without(ack, q.name)
  ELSE IF r.said = "INSERT SUCCESS" /\ q.name \in DOMAIN ack
    THEN [ack EXCEPT ![q.name].rows = Append(@, Stored(ack[q.name].types, q.data))]
  ELSE ack

SnappedAfter(q, r, ack, snap) ==
  IF r.said # "SNAP TAKEN" THEN snap
  ELSE IF q.name \in DOMAIN ack THEN Put(snap, q.name, ack[q.name])
  ELSE Without(snap, q.name)

Reply ==
  /\ pc = "reply"
  /\ pc' = "idle" /\ query' = NoQuery /\ reply' = NoReply
  /\ acked' = IF orderly THEN AckedAfter(query, reply, acked) ELSE acked
  /\ snapped' = IF orderly THEN SnappedAfter(query, reply, acked, snapped)
                ELSE snapped
  /\ UNCHANGED <<memVars, fileVars, at, pending, crashes, orderly>>

----------------------------------------------------------------------------
(* The end of the process: memory is gone, the files stay.  A client that  *)
(* got no answer to CREATE, DROP or TAKE SNAPSHOT knows nothing about that *)
(* table or snapshot any more.  A catalogue file that was created and not  *)
(* yet written is never understood again.                                  *)

ProcessGone ==
  /\ cat' = << >> /\ tableLoc' = << >>
  /\ tablePtrs' = [s \in Slots |-> Null]
  /\ query' = NoQuery /\ at' = 0 /\ pending' = {} /\ reply' = NoReply
  /\ UNCHANGED fileVars
  /\ orderly' = (orderly /\ catFile # << >>)
  /\ acked' = IF ~orderly' THEN << >>
              ELSE IF query # NoQuery /\ query.kind \in {"create", "drop"}
                THEN Without(acked, query.name) ELSE acked
  /\ snapped' = IF ~orderly' THEN << >>
                ELSE IF query # NoQuery /\ query.kind = "take"
                  THEN Without(snapped, query.name) ELSE snapped

(* stoi throws out of process_Query, or a walk or a copy runs off the      *)
(* array on a size that is really text: the server process ends.           *)
Aborts ==
  \/ /\ Running("insert") /\ Known /\ WalkEnds /\ Len(Meta) = Len(query.data)
     /\ ~NumbersOnly(Meta, query.data)
  \/ /\ pc = "exec" /\ Walks /\ Found \in Nat /\ IntAt(cat, Found) >= Garbage
  \/ /\ Running("drop") /\ WalkEnds /\ Found \in Nat
     /\ NextSize(cat, Found) >= Garbage

Abort == Aborts /\ pc' = "aborted" /\ ProcessGone /\ UNCHANGED crashes

Kill ==
  /\ pc \notin {"down", "aborted"}
  /\ crashes < MaxCrashes /\ crashes' = crashes + 1
  /\ pc' = "down" /\ ProcessGone

Restart ==
  /\ pc \in {"down", "aborted"}
  /\ pc' = "idle"
  /\ UNCHANGED <<memVars, fileVars, query, at, pending, reply, crashes, history>>

----------------------------------------------------------------------------
Load == LoadSkip \/ LoadNoFile \/ LoadCatalog \/ LoadRecord \/ LoadDone

Execute == \/ Create \/ InsertRefused \/ InsertRow \/ Select
           \/ DropUnknown \/ Drop \/ TakeSnap \/ ShowSnap \/ Unimplemented
           \/ Hang \/ Abort

Flush == FlushOpen \/ FlushCatalog \/ FlushTable \/ FlushDone

Serve == Load \/ Execute \/ Flush \/ Reply

Next == Receive \/ Serve \/ Kill \/ Restart

Spec == Init /\ [][Next]_vars

(* Once a query is received nothing but its own steps stands between it    *)
(* and its reply.                                                          *)
FairSpec == Spec /\ WF_vars(Serve)
----------------------------------------------------------------------------
(* Properties                                                              *)

PageOrNull == Page \cup {Null}
Pages(f) == \A n \in DOMAIN f : n \in Text /\ f[n] \in Page

(* Every variable has its type; a table's slot is a slot of tablePtrs.     *)
TypeOK ==
  /\ IsCatalog(cat)
  /\ DOMAIN tableLoc \subseteq Text /\ tableLoc \in [DOMAIN tableLoc -> Slots]
  /\ tablePtrs \in [Slots -> PageOrNull]
  /\ catFile = NoFile \/ IsCatalog(catFile)
  /\ Pages(files) /\ Pages(snapFiles)
  /\ pc \in {"idle", "load", "walk", "exec", "flush", "write", "tables", "reply",
             "hung", "down", "aborted"}
  /\ query \in IF pc \in {"idle", "down", "aborted"} THEN {NoQuery} ELSE Query
  /\ at \in Int
  /\ pending \subseteq IF pc = "tables" THEN DOMAIN tableLoc ELSE {}
  /\ crashes \in Nat /\ orderly \in BOOLEAN

(* Whatever queries arrive, every table a query can reach has a page:      *)
(* tablePtrs is indexed through tableLoc without a check in insertInto,    *)
(* viewTable, takeSnap and flush, while addTable, dropTable and load each  *)
(* number the slots their own way.                                         *)
AllocatedPages ==
  \A n \in DOMAIN tableLoc : tablePtrs[tableLoc[n]] # Null

(* Whatever queries arrive, when the reply is ready the files hold what    *)
(* memory holds, and they still do when the next query finds memory loaded.*)
FilesCurrent ==
  pc = "reply" \/ (pc = "idle" /\ DOMAIN tableLoc # {}) =>
    /\ catFile = Persisted(cat)
    /\ \A n \in DOMAIN tableLoc \ {NoText} :
         n \in DOMAIN files /\ files[n] = tablePtrs[tableLoc[n]]

(* While queries are orderly no two tables share a row page, through any   *)
(* sequence of creations, drops, crashes and reloads.                      *)
OnePagePerTable ==
  orderly => \A m, n \in DOMAIN tableLoc : tableLoc[m] = tableLoc[n] => m = n

Loaded == \/ pc \in {"exec", "flush", "write", "tables", "reply"}
          \/ pc \in {"idle", "load"} /\ DOMAIN tableLoc # {}

(* While queries are orderly the records of the catalogue follow each      *)
(* other up to `fin' and name exactly the tables of tableLoc, each once.   *)
CatalogConsistent ==
  orderly /\ Loaded =>
    LET chain   == Chain(cat)
        records == 1 .. Len(chain) - 1
        name(i) == TextAt(cat, chain[i] + IntSize)
    IN  /\ chain[Len(chain)] = Fin(cat)
        /\ {name(i) : i \in records} = DOMAIN tableLoc
        /\ \A i, j \in records : name(i) = name(j) => i = j

----------------------------------------------------------------------------
(* The promise of TableStore, read off the files and the history: a table  *)
(* that the client knows of is what a restarted server would show of it.   *)

Busy(kinds) == query # NoQuery /\ query.kind \in kinds

Whole(kinds) == IF Busy(kinds) THEN {query.name} ELSE {}

OnFile ==
  [n \in DOMAIN acked \ Whole({"create", "drop"}) |->
     LET loc == IF catFile = NoFile THEN NotFound ELSE FirstMatch(catFile, n)
         types == IF loc = NotFound THEN << >> ELSE ColumnTypes(catFile, loc)
     IN  [types |-> types, rows |-> View(PageIn(files, n), types)]]

NotOnFile ==
  {n \in Names \ Whole({"create", "drop"}) :
     catFile = NoFile \/ FirstMatch(catFile, n) = NotFound}

SnapsOnFile ==
  [n \in DOMAIN snapped \ (Whole({"take"}) \ NotOnFile) |->
     [types |-> snapped[n].types,
      rows  |-> View(PageIn(snapFiles, n), snapped[n].types)]]

(* The insertion has reached its file.                                     *)
Inserted ==
  /\ pc \in {"tables", "reply"} /\ Busy({"insert"})
  /\ reply.said = "INSERT SUCCESS" /\ query.name \in DOMAIN acked \ pending

Promise ==
  INSTANCE TableStore WITH
    tables <- OnFile,
    absent <- NotOnFile,
    snaps  <- SnapsOnFile,
    asked  <- query,
    done   <- Inserted,
    answer <- IF pc = "reply" THEN reply ELSE NoReply,
    void   <- ~orderly

(* Every query takes effect at one moment and at most once, in the middle  *)
(* of a flush and across crashes as well; what was answered stays, as it   *)
(* was, until a query replaces it; SELECT shows exactly the rows inserted, *)
(* VIEW SNAPSHOT exactly those of the last answered snapshot, a dropped    *)
(* table does not come back.                                               *)
KeepsPromise == Promise!Spec

(* Every query is answered, or the process was killed: for an orderly      *)
(* client that sends numbers where numbers belong and whose tables have    *)
(* equally long records the server neither hangs nor aborts.               *)
Answered ==
  (query # NoQuery /\ orderly) ~> (query = NoQuery /\ pc # "aborted")
============================================================================

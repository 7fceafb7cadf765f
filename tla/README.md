# NormDB in TLA+

NormDB is a small relational database in C++: a server that answers SQL-like
queries over TCP, one process, one thread, one file per table.  This directory
models its server, its parser, its storage engine, its copy-on-write vector, its
three indexes and its page cache, checks them with TLC and proves the invariants
that matter most with TLAPS.

## 1. The system

| Component | Source | State | Operations |
|---|---|---|---|
| server loop | `src/src/server.cpp` | `client_socket[]`, `readfds`, open descriptors | select, accept, read, `process_Query`, send, close |
| client | `src/src/client.cpp` | one connection | connect, then write and read in turn |
| query dispatcher | `src/src/parser.cpp` `process_Query` | none between queries | load, one operation, flush, reply |
| query parser, query functions | `src/src/parser.cpp` | none between queries | tokens, `conditionTable`, `sortColumn`, reply buffers |
| storage engine | `src/src/disk.cpp` | `table`, `tableLoc`, `tablePtrs`, the files | `load`, `addTable`, `dropTable`, `insertInto`, `viewTable`, `takeSnap`, `showSnap`, `flush` |
| copy-on-write vector | `src/src/COW.cpp` | a lock and a reference-counted storage per object | modifications, searches, iterators, read-only copies, `data()` |
| linear hash, extendible hash | `src/src/linear_hashing.cpp`, `src/src/extendible_hashing.cpp` | buckets, level or directory, an index of names | insert, split, search by name, remove (extendible only) |
| B-tree | `src/src/Btree.cpp`, `Btree.h` | nodes | insert, remove, search |
| pager | `src/src/Mem.cpp` | a page cache and a file | `pager_open`, `get_page`, `pager_flush`, `wrapUp`, `addTable` |
| tuples, generator, stubs | `Tuple.cpp`, `generator.cpp`, `src/main.cpp`, `src/tests/` | | |

The Makefile links the server from `server.cpp`, `parser.cpp` and `disk.cpp`.
The indexes, the pager and the vector are programs or headers of their own that
nothing links yet.

**How the parts interact.**  A client writes one line and blocks until it has
read a reply.  The server calls `process_Query` for one ready connection at a
time, synchronously.  `process_Query` calls `load`, one storage operation and
`flush`, and returns the text that is sent.  Between queries the storage lives
in globals and in files.

**What is hard.**

* *Crashes.*  `flush` writes the catalogue and then one file per table, none of
  it atomically with respect to the others; the process can end between any two
  writes, and the next start reads whatever mixture is there.
* *Sequences of legal calls.*  `addTable`, `dropTable` and `load` each number
  the slots of `tablePtrs` their own way, and `dropTable` compacts the
  catalogue by moving one record only.
* *Untyped memory.*  The catalogue and the row pages are bytes at computed
  positions.  A page that came from an empty file starts its rows at 0 and not
  at 4; a walk that lands between two records reads text as a size.
* *Endings.*  A size of 0 makes a walk endless, text in an integer column makes
  `stoi` throw out of the server, and one endless query stops every client.
* *Stale sets.*  `readfds` is filled before the accept and before the closes of
  the same scan, and the kernel reuses descriptor numbers at once.
* *Threads* (the vector): `use_count()` is looked at and acted on in two steps
  while references come and go without the lock.
* *Pointers that move* (the B-tree): splits, merges and borrowing happen on the way
  down, before it is known where the call ends; equal keys may lie on both
  sides of one another.
* *Changing addresses* (the hash indexes): a split changes the function that places
  a row while other rows stay where an older function put them.
* *A shared cursor* (the parser): four functions go on where the last one left one index.

**What makes each part correct.**  The server: no client starves, no reply goes
astray, the one thread never blocks on one connection.  The storage: what was
answered survives a crash and is shown again, tables do not share pages, walks
end.  The vector: read-only copies do not change, vectors that share a storage
behave as if they did not, searches tell the truth.  The parser: no word of a
query is lost or taken for another.  The indexes: what was inserted is found until
it is removed, and the structure stays what its searches assume.  The pager: what
was stored into a page is in the file after `wrapUp`.

## 2. The modules

| Module | What it models |
|---|---|
| `Catalog` | the array `table` of `disk.cpp`: records, walks, adding and dropping a record, what of it reaches the file |
| `Disk` | the storage engine under `process_Query`, with crashes |
| `TableStore` | what the storage engine promises its clients |
| `Disk_proofs` | theorems about the three, among them that the store keeps its promise |
| `Parser` | the words of a query, the `extract_` functions, WHERE, ORDER BY, the reply |
| `Parser_proofs` | theorems about it |
| `Server` | the select loop and the clients |
| `Server_proofs` | theorems about it |
| `SharedVectors` | what a copy-on-write vector promises |
| `CowVector` | how it keeps the promise: storages, references, locks, threads |
| `VectorElements` | what removing elements makes of a sequence, for both |
| `CowVector_proofs` | theorems about it, among them that it keeps the promise |
| `KeyBag`, `BTree` | what an index of keys promises, and the B-tree that keeps it |
| `BTree_shape`, `BTree_proofs` | what its operations do to any tree, and theorems about it |
| `HashRows`, `LinearHash`, `ExtendibleHash` | the two hash indexes, and what they have in common |
| `Pager` | the page cache |
| `Standalone`, `Standalone_proofs` | the hash indexes and the pager as one specification, and theorems about it |
| `Induction` | induction over numbers and finite sets, and sums, for the other proofs |
| `MCDisk`, `MCServer`, `MCCowVector`, `MCParser` | instances for TLC: texts, schemas, queries, symmetry, bounds |

`Disk` extends `Catalog` and is proved to implement `TableStore`; `CowVector` is
proved to implement `SharedVectors`, `BTree` to implement `KeyBag`.
`Parser` ends where `Disk` begins: at the call of `addTable`, `insertInto` and the
others. Modules hold, before a definition, the mutated forms of it that show that
the properties can fail (section 5); nothing uses them.

### Catalog and Disk

`cat` is `table`, a function from positions to cells.  `table` is an array of
*pointers*, so `table + x` counts words while the records are laid out as if x
counted bytes; hence cells never overlap, and hence `flush`, which writes
`PAGE_SIZE` bytes, saves only the first part of the array (`PageWords` of
`TableWords` words).  An integer cell read as text is `Debris`, a text cell read as an
integer is `Garbage`, larger than any position; an unwritten position reads as
zero.  `FirstMatch` is the walk of `findTable` and `dropTable`; `Endless` is its
result when it meets a record of size 0.

`tableLoc`, `tablePtrs` and the three kinds of file keep the source's shape.  A
row page is the position its first row went to (`start`, 4 or 0) and its rows,
each with the layout it was written with; `View` gives what a reader makes of
the page, or `Misread`.

`pc` follows one query: `idle -> load -> (walk) -> exec -> flush -> write ->
tables -> reply -> idle`.

| Action | Code |
|---|---|
| `LoadSkip`, `LoadNoFile`, `LoadCatalog`, `LoadRecord`, `LoadDone` | `load`, one step per loop iteration |
| `Create`, `InsertRow`, `InsertRefused`, `Select`, `Drop`, `DropUnknown`, `TakeSnap`, `ShowSnap`, `Unimplemented` | the cases of the switch, with `addTable`, `insertInto`, `viewTable`, `dropTable`, `takeSnap`, `showSnap` |
| `Hang`, `Abort` | a walk that never ends; `stoi` or a wild size ends the process |
| `FlushOpen`, `FlushCatalog`, `FlushTable`, `FlushDone` | `flush`, one step per file operation, the tables in any order (a hash map's) |
| `Reply` | the reply is returned; the client may now rely on it |
| `Kill`, `Restart` | the process ends between any two steps, and starts again |

The properties speak about what clients were told. `acked` and `snapped` record
it, for the mapping below and for judging `orderly`. `orderly` is TRUE while the
queries stay inside what the code handles: a table is created once, its name
and its column types are stored whole (a name of at most 31 characters), the
catalogue fits what is written of it, and it is dropped while at most one record follows its own; and no crash fell between the
creation of the catalogue file and its first write. Outside, the code goes on and
so does the model, in `disk_any`; `AllocatedPages` and `FilesCurrent` hold there
too.

Abstractions, each a difference between model and code:

* Texts have at least three characters (so that as integers they are larger
  than any position), and no column name is a table name.
* Tables called `table` or `<other table>_snap`, whose files collide, are not used.
* `open` succeeds and one `write` is atomic.  The descriptors that `flush`,
  `load` and the snapshots never close run out in the end; see section 7.
* A row page never overflows (`MaxRows`), and there are fewer names than slots.
* CREATE is not sent while `fin` is negative, which a chain of disorderly drops
  can reach and which writes in front of the array.
* SELECT has no WHERE and no ORDER BY here; `Parser` has them.

The model was compared with the real code: a transliteration of `Disk` was run
beside the compiled `disk.cpp` on random sequences of queries, reloads and
crashes, with the same replies and the same files.

### TableStore

The promise is a map from names to tables.  `Ask` begins a query; `Insert` is the one
moment at which an insertion takes effect; `Settle` fixes the answer, which has to be
`Right`; `Reply` delivers it; `Crash` ends a query without one.  What a query
replaces as a whole (the table of CREATE and DROP, the snapshot of TAKE) is in
doubt until its answer: it leaves `tables` and `absent` with `Ask` and returns with
`Reply`.  Once `void` (the client has left the orderly domain) nothing is promised.

`Disk!Promise` reads the abstract state off the *files*, not off memory: `OnFile` is
what a restarted server would show of each table a client knows of, `NotOnFile` the
names the saved catalogue does not lead to, `SnapsOnFile` the snapshots.  An
insertion takes effect when `FlushTable` has written its page.  `KeepsPromise` is
`Promise!Spec`: in one statement, that answered rows survive crashes and are shown,
that an unanswered insertion is in the file once or not at all, that a dropped table
does not come back, and that a snapshot stays as it was taken.

### Parser

The parser keeps nothing between queries, so a behaviour is one query.  A word is a
member of a small set; `Lower`, `Bare` and `Equation` say what lower-casing, the
removal of punctuation and the split at `=` make of it.  `idx_token` is the index
that `extract_column`, `extract_table`, `extract_condition` and `extract_sort_column`
share, `mat` what they leave; `extract_create`, `extract_insert`, `extract_drop`,
`Snapshot`, `extract_delete`, `extract_update` end in `called`, the call with
its arguments.  `AnswerWhere`, `AnswerOrder` and `AnswerAll` are the three endings of
SELECT, with `conditionTable`, `sortColumn` and `vectorToCharPointer`.

Loops that run past the last token, `data[0]` of an empty table, `mat[2][1]` of a short
query and a reply longer than its buffer are undefined: `pc` becomes `undefined`
and the behaviour ends.  `Served` says which well-formed queries never end there.

A query is judged by where its key words stand: `InOrder` says that `from`, `where`
and `order by` are at three given places, in this order, and nowhere else, and
`Filled` is the clause that the words between two of them should make.  `Ascending`
is the result of `sort`, by counting: the i-th value has fewer than i values before
it.  What `viewTable` shows is any table `IsTable` allows, and cells have any order
and any width.

### BTree and KeyBag

A node is a record with its keys and children; `node` maps the allocated
addresses. One action is one round of the loop of `insert` or `remove`:
`InsertDown` (with `SplitChild`), `InsertLeaf`; `RemoveDown` (with `FixChildSize`,
which borrows or merges), `RemoveMerge`, `SeekLeft` and `SeekRight` (the key is in
an inner node and is replaced by its neighbour), `HoleDown`, `HoleFilled` (the walk to
that neighbour). `searchKey` is an operator, as
it changes nothing. The tree invariants are claimed in every state, between the
rounds of a call too.

`KeyBag` is a bag of keys; a call begins, and takes effect when it returns.  `IsBag` says
that the tree implements it, `Bag` counting the keys in all nodes.

### LinearHash and ExtendibleHash

A row is what `getHash` makes of its `BOOK_ID`, a sum of characters, and a bucket
holds a bag of such rows, so rows with equal sums are not told apart.  `LH_insert` is the
whole call, with the split that follows it and the insertions the split makes.
`InsertThere` and `InsertSplit` are the two branches of the extendible
`insert`, the second with `Doubled`, `Split` and the place that is looked for afterwards;
`removeValue` empties a place and leaves `size` alone, as the code does.
`indexed` and `searchable` are the rows the index of names leads to.

### Pager and Standalone

`get_page` reads a page into memory, `Store` is its caller's write, `pager_flush`
writes one page, `WrapBegin`, `WrapPage` and `WrapEnd` are `wrapUp`, one write
after the other, `Kill` may come between them, `FlushNull` is the exit of a flush
without a page. `wild` is the state after a page number that is past the array but
passes its check. Pages are whole: the size argument of `pager_flush` is a page.

The hash indexes and the pager share nothing; `Standalone` chooses one of them at
the start.

### Server

`Places` is `client_socket`, 0 marking an empty place; `owner` is the kernel's
table of open descriptors, the lowest free number first.  `Select` is blocking and
reports everything that is ready; `Accept` runs before the scan; `Skip`,
`Disconnected`, `Failed`, `Query` are the four things the scan does at place `i`;
`Send` ends `process_Query`.  `Connect`, `Write`, `Read`, `Die` are the clients',
interleaved between any two server steps.

TCP is external: what was written at once is read at once; a client that dies
leaves an end of file, or a reset when it left a reply unread.  A "silent" query
(UPDATE, DELETE) may have an empty reply, which is not sent; a "broken" one ends
the process, as a failed read does, because an empty line has no tokens.
`process_Query` is called in the loop itself, so while it runs nobody else is
served; from an "endless" query it never returns, as from one whose walk of the
catalogue meets a record of size 0 (`Disk!Hang`), and the server is silent for every
client from then on.  `Stopped` is the one or the other end.

### CowVector and SharedVectors

`heap` maps the allocated storages to their elements; `storage`, `local` and `kept`
are the shared pointers: of a vector, of a call in progress, of a read-only copy
or an iterator.  `Holders(s)` is the set of references whose size is
`use_count()`; `Alive` frees what no reference holds.  The steps of a call are
those that other threads can tell apart:

| Action | Code |
|---|---|
| `Enter` | the lock of a modifying call is taken |
| `Refuse`, `Reset` | early returns; `_storage.reset()` |
| `Check`, then `ChangeInPlace` or `CopyChanged` and `Publish` | the look at `use_count()`, the change in place, the changed copy and its assignment |
| `Fetch`, `Store`, `Release` | `copy()` under the source's lock, the assignment under the target's, the end of the local pointer |
| `Fetch`, `Test`, `Probe` | the beginning of `exists`, `find_first`, `find_last`: two looks at `_storage` without the lock, the second of which may meet a null or a freed storage |
| `Begin`, `Look`, `Release` | their loop over the fetched storage, without the lock: its iterators are taken (forward, or backward in `find_last`), then it looks at one element a step |
| `Data`, then `ChangeInPlace` | a caller changes the vector through `data()` under the lock, a storage that loops of searches are in included; their iterators may then lead nowhere |
| `Keep`, `CopyKept`, `Drop` | `begin()`, `read_only_copy()`, copies and ends of their results, the last two without a lock |

`SharedVectors` is the promise: every vector has a value of its own, a call
changes one value at one moment, a read-only copy keeps what it was taken of, an
assignment reads and later writes.  `Isolated` says that `CowVector` implements it
under the mapping given with `Shared`.  Predicates are "equals an element".  C++
memory ordering is not modelled: steps are sequentially consistent.

## 3. The runs

| Run | Instance | Shows |
|---|---|---|
| `disk_any` | 3 tables with records of 100 and 164, 300 words saved, 1 row, 1 crash; duplicates and drops anywhere | `TypeOK`, `OnePagePerTable`, `CatalogConsistent`, `AllocatedPages`, `FilesCurrent`, `KeepsPromise` |
| `disk_rows` | 1 table, 2 column types, 2 values, 2 rows, snapshots, 1 crash | `KeepsPromise` |
| `disk_live` | 2 tables of one record size, 2 rows, 1 crash, fairness | `Answered`, `KeepsPromise` |
| `server_live` | 3 clients, 2 places, every kind of query, fairness | `TypeOK`, `PlacesSound`, `NeverBlocksInRead`, `OneInFlight`, `LeftOutOnlyWhenFull`, `EveryQueryAnswered`, `PlaceFreed` |
| `server_full` | 3 clients, 2 alive at once, 2 places | violates `AcceptedIsPolled` |
| `cow_search` | 2 threads, 1 vector, length 3, 4 storages, searches, `data()` and changes | `TypeOK`, `SearchRight`, `OnlyDataThaws` |
| `cow_isolated` | 2 threads, 2 vectors, length 3, fairness | `NoSharedWrite`, `Isolated`, `LockReleased` |
| `cow_data` | 2 threads, 1 vector, `data()` | violates `SnapshotsFrozen` |
| `btree` | degree 2, 3 keys, at most 4 of them equal, at most 10 in the tree | `IsTree`, `Filled`, `Ordered`, `SearchExact`, `Descends`, `IsBag` |
| `btree_equal` | 2 keys, up to 8 of them equal | violates `IsTree` |
| `standalone` | rows of the sums 0, 1, 3 and 6, 13 insertions (linear), 10 insertions and any removals (extendible), 3 pages of 3 contents | `LoadBounded`, `NoRowLost`, `DirectoryWhole`, `StoredIsFound`, `SearchComplete`, `OthersKept`, `WrittenBack` |
| `parser` | every query left of nine well-formed ones when words are dropped; tables of 0 to 3 rows; a reply of 21 characters | `NothingLost`, `WhereRight`, `OrderRight`, `Served`, `CalledAsSent` |

**Bounds and why they are enough.** *Disk*: three records are the least with which
a drop has a first, a middle and a last case and its slot renumbering moves more
than one page; two record sizes make a walk fall between records; one crash at
every step, followed by further queries, reaches every mixture of old and new
files that one flush can leave. `PageWords = 300` in `disk_any` lies inside the
reach of the CREATEs sent. `OrderlyOrFew` stops a disorderly behaviour of
`disk_any` when more than 15 places of the catalogue have been written (14 after a
crash, 12 with rows); fifteen are three records and the wrecks of one drop, and
include walks that end in garbage and walks that never end. *Server*: three
clients on two places fill the array, free a place while another connection is
accepted, and reuse its descriptor number. *CowVector*: one thread passes a reference on while
the other is between `Check` and `ChangeInPlace`, and two vectors share a storage.
A loop over two elements or three has a look behind it and one ahead when `data()`
changes its storage. `KeptShort` bounds `cow_search` further: no read-only copy is
held while some storage has three elements; `push_back` and `removeFirst`, and
read-only copies of any length, are in `cow_isolated`.
`LowestFree` fixes which of the equivalent free storages is taken, and is not used
where searches may look at freed ones. *BTree*: ten keys of degree 2 make three
levels, with splits and merges of inner nodes and of the root, and a replaced key
whose neighbour lies two levels below. *Hash indexes*: thirteen rows take the
linear table through all splits of level 1 (at rows 7 and 10) and to the first of
level 2 (at row 13); of the sums 0, 1, 3 and 6 the first split moves 6, the second 3
(`NoRowLost` is then about rows that stand in the wrong place), and the third, if a 6
was put into bucket 0 after the first, gives it an address past the end of the vector. Ten
insertions double a directory six times; the sums agree in no low bit or in one, and
equal rows in all. *Pager*: with three pages, one is in memory only, one in the file
only and one in both. *Parser*: three rows have a tie and three different values;
the reply holds three of the narrow rows and not three of the wide.

**Constraints.**  `OnlyOrderly` stops a behaviour where `orderly` becomes false, in
`disk_rows`.  `disk_any` does not check for deadlock because the server may hang; the
server runs, because it may crash or be caught in a query and because every client
may be gone;
`cow_search`, because the process may die; `standalone`, because insertions are
bounded and the pager may go wild; `parser`, because a query ends.

## 4. Fairness

*Disk*: weak fairness of the server's own steps (`Serve`): once a query is received
nothing but these stands between it and its reply, and nothing blocks them.
*Server*: weak fairness of the server process and of a client's read of a reply
that has arrived; connecting, asking and dying are left to chance.  No fairness makes
`process_Query` return from an endless query: there the server has no step left to be
fair to, and `EveryQueryAnswered` and `PlaceFreed` except it (`Stopped`).  That
orderly clients send no such query is `Answered` in `disk_live`.  *CowVector*:
weak fairness of each thread inside a call; nothing is assumed of the order in
which waiting threads get a lock, so that a single thread's progress is not claimed,
only that locks are released.  *BTree*, *Standalone*, *Parser*: none; these are
sequential programs, and what could be asked (that a call ends) is
`Descends`, an action property.

## 5. What the runs show, and three disagreements

All properties hold of the code as modelled, with three exceptions that
contradict its comments.

* `server_full`: `server.cpp:131` says "add new socket to array of sockets", but
  with no empty place the new connection is kept open and forgotten. It needs no
  more live clients than places: a client dies, another connects, both are seen by
  one `select`; the accept comes first, and the place is freed only in the scan
  after it. The new client waits for ever.
* `cow_data`: `COW.cpp:422` asks that `data()` be called under the lock. A caller
  that does so changes the elements of the "read-only copy" (`COW.cpp:330`)
  another thread holds, because `data()` does not separate a shared storage.
  `OnlyDataThaws` shows that nothing else does.
* `btree_equal`: `splitChild` (`Btree.cpp:307`) lets `nodeInsert` place the median
  behind all equal keys of the parent, where it makes room for a child, and then
  writes the new child at `i + 1`. When the median went to `i + 2` or further, the
  right sibling at `i + 1` is overwritten and lost with its keys, and the one at the
  median's place stands in the tree twice: y, c2, c3 become y, z, c3, c3 and not y, z,
  c2, c3. It takes 2t + 1 equal keys at least; the run, with two keys, shows it with
  six of them. `Btree.cpp:363` knows of the hazard ("nodeInsert can insert into an
  index other than 0. The for loop fixed child pointers if that happens.") and
  repairs it in `fixChildSize` only. `MaxCopies = 4`, which is 2t, keeps `btree` below it.

For each property a mutant of one definition, the kind of slip the code could
contain, is known to violate it in the same run (`PROJECT.json`, `mutants`).

The following is part of the models and contradicts no comment or test, so
that the properties are stated around it:

* A search of the vector may meet a null or freed storage (`COW.cpp:200`, state
  `fault`), and with two vectors assigned to each other it may even answer "no"
  about an element that was there all the time, because the emptiness it sees
  belongs to a storage its vector has given up. `SearchRight` is claimed for one
  vector. A push through `data()` may move the elements under the iterators of a
  search, which then dies or answers anything (`Look`, where `raw` is `Null`);
  `SearchRight` is about searches to which neither happens.
* The linear hash places rows that a split moves with one bit more, but looks them
  up with `level` bits until the round of splits ends: moved rows are not found in
  between, and the first split at level 2, with the thirteenth row at the
  earliest, may write past the end of `buckets` (`outside`). `NoRowLost` says what
  is left: no row disappears, and rows of addresses not yet split are found.
* The extendible hash drops the row that caused a split when all rows of the
  bucket fall together again (five rows of one sum do), and such insertions double
  the directory each time (`linear_hashing` keeps them as overflows). A place
  freed by `removeValue` is not counted as free, so a bucket with free places is
  split.
* DROP of the last table of the catalogue reads a size where no record is. When tables
  have different numbers of columns a text of a record dropped earlier can lie
  there, and the copy then runs off the array (`Abort`).
* `wrapUp` writes as many pages as the file has, so a page added and never flushed
  is lost; `Mem.cpp:47` lets a page number equal to the length of the array pass.
* An endless query stops the server for every client (`Server`, `pc = "endless"`).
* SELECT with a WHERE that no row satisfies, some short queries and replies longer
  than the buffer are undefined (`Parser`, `pc = "undefined"`); the reply to
  DELETE and UPDATE is never written.

## 6. What is proved

TLAPS checks these for every value of the constants: any number of tables,
schemas, queries, clients, places, threads, vectors and storages, any bounds, any
number of crashes.

| Theorem | Property | Run that checks an instance |
|---|---|---|
| `Disk_proofs!TypeCorrect` | `TypeOK` | `disk_any` |
| `Disk_proofs!NoNullPage` | `AllocatedPages` | `disk_any` |
| `Disk_proofs!FilesFollowMemory` | `FilesCurrent` | `disk_any` |
| `Disk_proofs!PagesNotShared` | `OnePagePerTable` | `disk_any` |
| `Disk_proofs!CatalogFollowsTables` | `CatalogConsistent` | `disk_any` |
| `Disk_proofs!StoreKeepsPromise` | `KeepsPromise` | `disk_any`, `disk_rows`, `disk_live` |
| `Disk_proofs!NeverHangs` | no endless walk (`NoHang`) | |
| `Disk_proofs!QueriesAdvance` | the safety half of `Answered` | |
| `Disk_proofs!OnlyNumbersAbort` | no abort, with tables of equally many columns | |
| `Server_proofs!TypeCorrect` | `TypeOK` | `server_live` |
| `Server_proofs!ArraySound` | `PlacesSound` | `server_live` |
| `Server_proofs!NeverBlocks` | `NeverBlocksInRead` | `server_live` |
| `Server_proofs!RepliesMatch` | `OneInFlight` | `server_live` |
| `Server_proofs!LeftOutIsFull` | `LeftOutOnlyWhenFull` | `server_live` |
| `CowVector_proofs!TypeCorrect` | `TypeOK` | `cow_search` |
| `CowVector_proofs!WritesUnshared` | `NoSharedWrite` | `cow_isolated` |
| `CowVector_proofs!OnlyDataThawsCopies` | `OnlyDataThaws` | `cow_search` |
| `CowVector_proofs!CopiesFrozen` | `SnapshotsFrozen`, with `NoData` | violated with `data()`: `cow_data` |
| `CowVector_proofs!SearchesRight` | `SearchRight`, with `OneVector` | `cow_search` |
| `CowVector_proofs!Isolation` | `Isolated` | `cow_isolated` |
| `CowVector_proofs!HoldersFinish` | the safety half of `LockReleased` | |
| `Standalone_proofs!PagesWrittenBack` | `WrittenBack` | `standalone` |
| `Standalone_proofs!RowsAreFound` | `StoredIsFound` | `standalone` |
| `Standalone_proofs!SearchesAreComplete` | `SearchComplete` | `standalone` |
| `Standalone_proofs!DirectoryIsWhole` | `DirectoryWhole` | `standalone` |
| `Standalone_proofs!OthersAreKept` | `OthersKept` | `standalone` |
| `Standalone_proofs!LoadIsBounded` | `LoadBounded` | `standalone` |
| `Standalone_proofs!NoRowIsLost` | `NoRowLost` | `standalone` |
| `Parser_proofs!NoWordIsLost` | `NothingLost` | `parser` |
| `Parser_proofs!CallsAreAsSent` | `CalledAsSent` | `parser` |
| `Parser_proofs!WhereIsRight` | `WhereRight` | `parser` |
| `Parser_proofs!OrderIsRight` | `OrderRight` | `parser` |
| `Parser_proofs!SelectIsServed` | `Served` | `parser` |
| `BTree_proofs!AlwaysTree` | `IsTree`, with `FewCopies` | `btree` |
| `BTree_proofs!AlwaysFilled` | `Filled`, with `FewCopies` | `btree` |
| `BTree_proofs!AlwaysOrdered` | `Ordered`, with `FewCopies` | `btree` |
| `BTree_proofs!AlwaysSearched` | `SearchExact`, with `FewCopies` | `btree` |
| `BTree_proofs!AlwaysDescends` | `Descends`, with `FewCopies` | `btree` |
| `BTree_proofs!BagKept` | `IsBag`, with `FewCopies` | `btree` |

**Assumptions.**  Those stated with the constants (`TextAssumption`,
`SizeAssumption`, `DiskAssumption`, `NullAssumption`, `NoneAssumption`, `ServerAssumption`,
`CowAssumption`, `RowsAssumption`, `LinearAssumption`, `ExtendibleAssumption`,
`PagerAssumption`, `ParserAssumption`, `BTreeAssumption`), which TLC evaluates in the
runs; those that restrict the program are that there are fewer texts than slots of
`tablePtrs`, and that `malloc` has a node left for every key of the B-tree.
`ParserAssumption` says of tables that each has a header and that its rows are as long
as the header, which `viewTable` makes them, and of cells that different ones have
different places in the order of strings.  `StoreKeepsPromise`
has the hypothesis `MissingIsNoContents`: the value `NoFile`, which stands for a
file that does not exist, is not itself the contents of a catalogue file.  It is a
convention of the model, holds of every instance (a model value is no function), and
is a hypothesis rather than an assumption because TLC cannot evaluate it.  `CopiesFrozen`,
`WritesUnshared` and `Isolation` also assume `NoData`, that no caller uses `data()`;
`cow_data` shows that they need it.  `SearchesRight`
assumes `OneVector`; section 5 says what happens with two.  The theorems about the B-tree
assume `FewCopies`, at most 2t equal keys in the tree: with 2t + 1 of them the place that
`nodeInsert` finds for a median may be another than the one `splitChild` links the new
child to, and `btree_equal` shows that the tree then breaks (section 5).  With 2t it
cannot: a median that goes too far equals t keys of the full child, the next two keys of
the parent and the t - 1 or more keys of the child between these two (`MedianBehind`).

**Catalogue and storage.**  The first part of `Disk_proofs` shows that reading any position gives
an integer and a text whatever was written there, and that adding and dropping
a record leave a catalogue.  `AllocatedPages` is not inductive: a drop gives table n
the page of the slot above it, so one has to know that slot to be filled.
`SlotsFilled` says that every slot below the number of tables, or not above the slot
of some table, has a page; with `TypeOK` it is inductive, for disorderly queries
too, since a name the catalogue knows and `tableLoc` does not only makes more slots
move.  `OnePagePerTable` needs that slots are dense (`SlotsPacked`), otherwise
the next slot, numbered by the count of the tables, might be taken.  `FilesCurrent`
needs `FlushedSoFar`, what holds between two writes of one flush.

`CatalogConsistent` says where every walk that starts at the first record goes.
The proof describes a catalogue by the *set* `R` of the positions of its records:
`Intact(f, R)` says that every member of `R` is followed, at the distance its size
gives, by another member or by the end, and that names are not repeated.  The walks
are recursive functions; they exist because a size is read as a natural number
whatever lies there (`Natural`), and `RecordInduction` carries a fact from the first
record to all.  `AddRecord` adds the end of the catalogue to `R`; `DropRecord` of a
record that at most one other follows removes the last position and shifts one.
`CatalogInv` also holds of the file, except between its creation and its first
writing, and of the part of a file that `load` has gone through.

**Queries end.**  `Answered` is liveness and stays with TLC, but what makes it true is
not: a walk that never ends, a loop that goes on for ever, an exception out of the
query.  `NoHang` follows from `CatalogInv`, since a walk of an intact catalogue
finds a record of a real size or none (`IntactWalkEnds`).  `QueriesAdvance` gives each
step of a query a `Stage` and, within the two loops, what `Remaining` of them: the
distance to the end of the catalogue while it is loaded, the tables not yet written
while it is flushed.  `OnlyNumbersAbort` is about DROP, which reads the size of the next
record even where there is none: what lies there was left by records dropped before.
When all records have one size they stand on a grid, and on a grid no text is ever
written (`Grid`, kept by `GridAdd` and `GridDrop`).

**The store's promise.**  The mapping reads the promise off the files while the
operations work on memory, so what relates the two has to be known at every step
of a query.  `ListsInv`: the catalogue in memory and the one in the file list the same
tables with the same column types (`Listed`), except for the table being created or
dropped.  `KeptInv`: every table that clients were told of (`acked`) is on file with
the types they were told, its page in the file is legible under them and is the page
in memory, except for the one row that is being inserted; `EntriesInv` is the type of
`acked`.  `AnswerInv`: the reply
under way is the one that the files justify, in one named part for each operation
(`CreateDone`, `DropDone`, `InsertDone`, `SelectDone`, `TakeDone`, `ViewDone`).
`RefInv` adds the invariants above and is inductive (`RefStep`).  Then every step is
mapped: receiving a query to `Ask`, `FlushTable` of the page of the query's table to
`Insert`, `FlushDone` to `Settle`, whose answer `RightAnswer` shows to be right,
`Reply` to `Reply`, and the end of the process, wherever it falls, to `Crash`; all
else is a stutter.

**Server.**  `OneConnection`: a client is in the backlog once, or owns one
descriptor, or has not connected.  `Control`: between `select` and `accept` nothing
is closed, so the descriptor `accept` returns cannot be in `readfds` although its
number may have been used before.  From these, `ReadyAhead`: at every place the scan
has still to visit, what `select` reported still holds; reading from one connection does
not touch another, because two places never lead to one client.  `NeverBlocksInRead` is
`ReadyAhead` at place i.  `InFlightBound` adds to `OneInFlight` that a client that
has not connected has nothing on its way.  `LeftOutOnlyWhenFull` goes through
the steps that change the array or the open descriptors (`LeftOutStep`): an accept
that finds a place leaves nobody out, a close takes its descriptor out of the array
and nobody else's, and an accept that finds none meets an array whose
`max_clients` places lead to as many open connections (`FullArray`).

**Vector.**  `Shape` ties program counters to locks and local references;
`Exact` says that what is allocated is what is referred to.  `NoSharedWrite` is kept by
`SoleStays`: a new reference to a storage comes from an existing one, and the
only existing one belongs to a vector whose lock the writer holds, so that
`copy()`, `begin()` and `read_only_copy()` have to wait; the calls that take no lock
copy references that do not exist.  That is why looking at `use_count()` a step early
is right.  `CopiesFrozen` follows, with the fact that an allocation takes a storage
nobody refers to.  Where `data()` is allowed, `OwnWrite` says the same of the other
writes only, which is what `OnlyDataThaws` needs.  `SearchRight`
needs `Witnessed`: what a search would answer from what it has seen so far has been
true since it began, and an emptiness seen at its second, unlocked look is the emptiness
of its vector, because with one vector a storage that is not the vector's own is either
freed or held by read-only copies, which nothing empties.  During the loop (`Underway`) the
element was absent at some moment since the search began, or stands at a place that the
loop has still to look at: writes to a storage that a search holds come from `data()` only
and add at the end (`OnlyAppended`), so that no place which was passed changes, and they come
only while the storage is the vector's, so that what they add was in the vector then.

Of `LockReleased` the proofs have the part that is not liveness: `LocksOwned`, that a held
lock belongs to a thread which is in a call that changes its vector, whichever of
its returns and branches the calls before it took, and `Nearer`, that each step of
this thread lowers its `Distance` from the release and no other thread's step
raises it.

**Pager.**  `FileWhole`: the file has its pages without a gap, so its length is the
number of its pages.  `Kept`: while the pager is open each page that was stored
into is in memory as it was stored; during `wrapUp` the pages it has passed are in the
file and those ahead in memory; when it is closed all are in the file.

**Extendible hash.**  `Leads`: the directory has 2^depth entries, leads to every
bucket, and each row lies in the bucket that its hash leads to.  `DoubledLeads`
shows that doubling keeps it, since a bit more of the hash picks one of two equal
entries, and `SplitFacts` that a split does: an entry is given to the new bucket
exactly if a row of the old one hashes to it.  `Numbered` and `Deepest` are what
the numbering of buckets and `DirectoryWhole` need.  `OthersKept` is proved as part of
the step: the copies of a row are counted in the bucket its hash leads to.

**Linear hash.**  `LoadExact`: while nothing was written past the end, `count` is the
sum of all buckets and at most three for each bucket; a split moves rows between two
buckets and adds one, so that one split is enough, although its own insertions raise
the count again.  `NotTooEarly`: a split can lead past the end only from level 2 on,
which needs 13 rows, as at level 1 the first bucket that is split has even rows only.
`Reachable` and `Unsplit` say where a row may lie after splits at different levels.

**Parser.**  `Reached` says, for the places at which the key words stand, where each of
the four functions for SELECT leaves `idx_token` and what it adds to `mat`; `KeyWords`
shows that the loop of each stops at the place the next one needs, even when a clause
is missing and the index ends two past the last token.  `NothingLost` is its last part.
For the other queries the first word decides which action can be taken (`FirstWord`),
and `PairsAre` turns the loop of CREATE, which takes two words at a time, into the
statement about each word.  INSERT, DROP and the snapshots take what lies at fixed places
(`Begin3`, `Begin4`, `InsertWords`).  For DELETE and UPDATE, `ConditionIs` says that a condition
which no ORDER BY follows is all words to the end, so that its loop stops there
(`DeleteShows`, `UpdateShows`); how UPDATE cuts its items at `=` is not judged.  The three properties of the answer need what `NothingLost`
gives: that the table and the item at `mat[2][1]` are those of the query
(`SelectedWhere`, `SelectedOrder`).  WHERE then rests on `MatchingIs`, that the rows
compared by `conditionTable` are those that satisfy the condition, in the first column of
that name.  ORDER BY rests on `AscendingSorts`: each place of the sorted column has one
value that belongs there (`PlaceTaken`), and a value has as many places as rows, since
its places are an interval (`Counting`).  `Served` compares the length of
the reply, a sum over rows, with their number times the widest (`RowsWidth`).

**B-tree.**  None of the properties is inductive: `IsTree` and `Ordered` speak of all nodes
below a node, and an action rewrites three nodes and the pointers between them.  The
invariant `IInv` replaces them by statements about single nodes, with two witnesses that
no code computes: `lev` gives each node a height, one more than that of its children and
0 for leaves, and `K` gives each node a set of integers, which contains its keys and the
sets of its children and lies between the keys beside it.  `Tree(h, r, lev, K)`
says so, and that every node but the root is a child at exactly one place, counted
by sums over all nodes.

`BTree_shape` reduces all operations to one relation, `Divided`: a node is divided at
one of its keys, which goes up.  `splitChild` divides (`SplitIs`), `mergeChildren` is its
reverse (`MeltIs`), and a borrowing divides what would have been merged at another
key (`BorrowLeftIs`, `BorrowRightIs`).  Dividing and its reverse keep `Tree`, with other
witnesses (`TreeDivides`, `TreeJoins`), and the count of every key
(`DividedTotals`).  A root that is put over the root or freed is `Capped`.

`BTree_proofs` adds where a call stands.  An insertion is at a node that has room, and
`K` of it contains the new key: it may be put in there without touching what is above.  `Under`
is the least fence: k is below n if every possible `K` has it in `K[n]`.  A removal is at the
root or at a node with t keys, and if the tree has the key then below this node; one that
replaces a key of an inner node (`HoleAt`) is below that key, on the path
to the last key before it or the first behind it (`Hindmost`, `Foremost`).  Each action is
then a lemma (`StepInsertDown`, ...) that gives new witnesses, a lower `lev` for the
node the loop goes to (`Progress`), or the effect on the bag (`Ending`).  The
properties follow: levels below a node are its height (`LevelHeight`), so that
all leaves are at one depth and `AboveLeaf` is `lev`; what is below a child is in its `K`;
a search that has not stopped is one lower with each round and stays above the key
(`WalkEnds`).  `IInv` has no bound for its witnesses, so TLC cannot evaluate it; what it
checks in `btree` are the six properties it is there for.

**Induction.**  The library states induction and recursion for predicates and
operators, which the provers cannot instantiate.  `Induction` proves them for sets
and functions instead (`SetInduction`, `Recursion`, `FiniteInduction`), and from them
what sums over finite sets are.

**Refinement.**  Under the mapping of `Shared`, a change takes effect when the
storage is changed in place, reset, or the changed copy is published; an assignment
reads when the reference is fetched and writes when it is stored; all other steps are
stutters.  Besides the invariants above it needs `Prepared`: a copy that waits to be
published is still the change of what its vector holds now.

## 7. What is only model-checked, and what is not modelled

*Only model-checked*: liveness (`Answered`, `EveryQueryAnswered`, `PlaceFreed`,
`LockReleased`), which is out of the prover's reach: it needs ENABLED, to tell weak
fairness when it applies.  Of `Answered` and `LockReleased` the other half is proved, that
no step leads away from the end and that there are finitely many up to it.  Every
invariant and every action property of a passing run is stated by a theorem of section 6.

*Not modelled*:

* How UPDATE cuts its items is modelled and no property is about it: what it makes of
  them is displayed only.
* SELECT, PROJECT and JOIN of the hash indexes, which insert the rows of one table into
  a new one by the calls modelled here; printing, menus, destructors, `Tuple.cpp`.
* Overflow of a row page and more tables than slots of `tablePtrs`: writes to memory
  the program does not own.
* Failing system calls.  `flush`, `load`, `takeSnap` and `showSnap` never
  close what they open, so `open` fails in the end and replies still say that
  all went well.
* TCP segmentation: a query may arrive in two reads, two queries in one.
* A predicate of the vector that calls the vector, under the lock it holds.
* Sizes of `pager_flush` smaller than a page; C++ memory ordering.
* `generator.cpp`, the stub `main.cpp` and the test programs, which have no state worth
  a model; `src/tests/COWBase.h`, a single-threaded cousin of the vector.

## 8. Plan

Done: all modules of section 2.  What could follow, most valuable first:

1. `Descriptors`: a bound on open descriptors shared by `Server` and `Disk`.
2. `RowPage`: the bytes of a page, its cursor and its end, against the abstract page
   that `Disk` uses.
